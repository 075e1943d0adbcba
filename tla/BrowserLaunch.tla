--------------------------- MODULE BrowserLaunch ---------------------------
(***************************************************************************)
(* One BrowserManagerHandle and the processes it starts: launching a       *)
(* browser in several attempts, reading the status messages of each, and   *)
(* closing, killing, resetting and recovering it, with the profile         *)
(* directories, the profile archives and the watchdog that reaps processes *)
(* nobody controls.  An attempt to spawn is a number; it names the browser *)
(* manager process, its profile directory, its geckodriver and its Xvfb    *)
(* display.  TaskManager says when a browser is restarted or closed.       *)
(***************************************************************************)
EXTENDS Naturals, Sequences, FiniteSets

CONSTANTS
    MaxSpawns,          \* bound: browser managers started in a behaviour
    SpawnLimit,         \* _UNSUCCESSFUL_SPAWN_LIMIT
    SpawnTimeout,       \* _SPAWN_TIMEOUT in ticks
    ReapAge,            \* age in ticks from which the watchdog kills (300 s)
    Xvfb,               \* is display_mode "xvfb"
    ProfileArchived     \* is browser_params.profile_archive_dir set

ASSUME LaunchAssumption ==
    /\ {MaxSpawns, SpawnLimit, SpawnTimeout} \subseteq Nat \ {0}
    /\ ReapAge \in Nat
    /\ {Xvfb, ProfileArchived} \subseteq BOOLEAN

(* What the watchdog kills is older than a launch whose next message is    *)
(* still awaited: 300 s against 120 s.                                     *)
ASSUME ReapAssumption == SpawnTimeout < ReapAge

VARIABLES
    h,          \* the handle: where its thread is, and the attributes of the class
    queue,      \* status_queue of the current attempt
    signalled,  \* is a ShutdownSignal in the command queue of the current attempt
    stage,      \* how far the browser manager process of each attempt has come
    dirs,       \* profile directories that exist
    content,    \* what a profile directory holds: the seed, traces of browsers
    kept,       \* history: browsers used since the profile was last cleared
    archives,   \* temporary profile archives that exist, with what they hold
    geckos,     \* age of each running geckodriver (with its Firefox)
    displays,   \* age of each running Xvfb
    scan,       \* the watchdog: what it is about to kill
    forced      \* has the manager been closed by force: "no", "killed", "done"

profiles == <<dirs, content, kept, archives>>
children == <<geckos, displays>>
vars == <<h, queue, signalled, stage, profiles, children, scan, forced>>

Spawns == 1 .. MaxSpawns
NoPid == 0                              \* also: no directory, no archive
Messages == <<"Profile Created", "Profile Tar", "Display", "Launch Attempted",
              "Browser Launched", "Browser Ready">>
Seed == 0                               \* the mark of a seed profile
Dead(n) == stage[n] \in {"none", "gone"}
NoScan == [on |-> FALSE, geckos |-> {}, displays |-> {}]
Drop(f, S) == [x \in DOMAIN f \ S |-> f[x]]
With(f, x, y) == [z \in DOMAIN f \cup {x} |-> IF z = x THEN y ELSE f[z]]
Older(f) == [x \in DOMAIN f |-> IF f[x] < ReapAge THEN f[x] + 1 ELSE f[x]]

Init ==
    /\ \E seedTar \in BOOLEAN :
       h = [pc |-> "launch", after |-> "none", next |-> 1, spawn |-> 0, tries |-> 0,
            waited |-> 0, path |-> NoPid, seen |-> FALSE, tempdir |-> NoPid,
            recovery |-> NoPid, gecko |-> NoPid, display |-> NoPid, fresh |-> TRUE,
            seedTar |-> seedTar, launched |-> FALSE]
    /\ queue = <<>> /\ signalled = FALSE
    /\ stage = [n \in Spawns |-> "none"]
    /\ dirs = {} /\ content = [n \in Spawns |-> {}] /\ kept = {}
    /\ archives = <<>> /\ geckos = <<>> /\ displays = <<>>
    /\ scan = NoScan /\ forced = "no"

-----------------------------------------------------------------------------
(* launch_browser_manager.                                                 *)

(* dump_profile: the archive holds what the profile holds.                 *)
DumpedProfile == With(archives, h.spawn, content[h.path])

(* The profile of the last browser, if it was kept, is archived to a new   *)
(* temporary directory, from which the next browser will load it; an item  *)
(* missing in the profile ends the launch with an exception, and so does a *)
(* profile that a forced close has removed.                                *)
Launch ==
    /\ h.pc = "launch"
    /\ IF h.path = NoPid
       THEN /\ h' = [h EXCEPT !.pc = "spawn", !.tries = 0, !.fresh = TRUE, !.tempdir = NoPid]
            /\ UNCHANGED archives
       ELSE /\ archives' = DumpedProfile
            /\ \/ /\ h.path \in dirs
                  /\ h' = [h EXCEPT !.pc = "spawn", !.tries = 0, !.fresh = FALSE,
                                    !.tempdir = h.spawn, !.recovery = h.spawn]
               \/ h' = [h EXCEPT !.pc = "raised"]
    /\ UNCHANGED <<queue, signalled, stage, dirs, content, kept, children, scan, forced>>

NewQueues == queue' = <<>> /\ signalled' = FALSE

AttemptsLeft == h.tries < SpawnLimit

Spawn ==
    /\ h.pc = "spawn"
    /\ IF AttemptsLeft
       THEN /\ h.spawn < MaxSpawns
            /\ NewQueues
            /\ stage' = [stage EXCEPT ![h.spawn + 1] = "boot"]
            /\ h' = [h EXCEPT !.pc = "await", !.spawn = @ + 1, !.next = 1, !.waited = 0,
                              !.seen = FALSE]
       ELSE /\ h' = [h EXCEPT !.pc = "gaveUp"]
            /\ UNCHANGED <<queue, signalled, stage>>
    /\ UNCHANGED <<profiles, children, scan, forced>>

(* Seeded bug: a failed attempt is not closed before the next one.         *)
FailedAttemptLeft == [h EXCEPT !.pc = "discard", !.tries = @ + 1]

AttemptFailed == [h EXCEPT !.pc = "close", !.after = "discard", !.tries = @ + 1]

(* check_queue: the next status message, whatever it is about.  The sixth  *)
(* must be READY; anything else is another attempt, the browser manager    *)
(* left alone.                                                             *)
Answered(message) ==
    CASE message = "CRITICAL" -> [h EXCEPT !.pc = "raised"]
      [] message = "FAILED" -> AttemptFailed
      [] message \notin {"CRITICAL", "FAILED"} /\ h.next < Len(Messages) ->
           [h EXCEPT !.next = @ + 1, !.waited = 0, !.seen = @ \/ message = "Profile Created",
                     !.display = IF h.next # 3 THEN @ ELSE IF Xvfb THEN h.spawn ELSE NoPid,
                     !.gecko = IF h.next = 5 THEN h.spawn ELSE @]
      [] message = "Browser Ready" /\ h.next = Len(Messages) ->
           [h EXCEPT !.pc = "idle", !.path = h.spawn, !.tempdir = NoPid, !.waited = 0,
                     !.launched = TRUE]
      [] OTHER -> [h EXCEPT !.pc = "spawn", !.tries = @ + 1]

(* With success the new profile replaces the old one and the archive is    *)
(* removed.                                                                *)
ReadStatus ==
    /\ h.pc = "await"
    /\ queue # <<>>
    /\ queue' = Tail(queue)
    /\ h' = Answered(Head(queue))
    /\ dirs' = IF h'.pc = "idle" THEN dirs \ {h.path} ELSE dirs
    /\ archives' = IF h'.pc = "idle" THEN Drop(archives, {h.tempdir}) ELSE archives
    /\ UNCHANGED <<signalled, stage, content, kept, children, scan, forced>>

(* A failed attempt is closed; then its profile, if it was announced, is   *)
(* removed.                                                                *)
SpawnTimesOut ==
    /\ h.pc = "await"
    /\ queue = <<>>
    /\ h.waited = SpawnTimeout
    /\ h' = AttemptFailed
    /\ UNCHANGED <<queue, signalled, stage, profiles, children, scan, forced>>

DiscardProfile ==
    /\ h.pc = "discard"
    /\ dirs' = IF h.seen THEN dirs \ {h.spawn} ELSE dirs
    /\ h' = [h EXCEPT !.pc = "spawn"]
    /\ UNCHANGED <<queue, signalled, stage, content, kept, archives, children, scan, forced>>

-----------------------------------------------------------------------------
(* restart_browser_manager, close_browser_manager, shutdown_browser.       *)

(* A command is sent: execute_command_sequence.  The browser leaves traces *)
(* in its profile.                                                         *)
Use ==
    /\ h.pc = "idle" /\ forced = "no"
    /\ h' = [h EXCEPT !.fresh = FALSE]
    /\ kept' = kept \cup {h.path}
    /\ content' = [content EXCEPT ![h.path] = @ \cup {h.path}]
    /\ UNCHANGED <<queue, signalled, stage, dirs, archives, children, scan, forced>>

(* A browser that ran no command since it was launched without a recovered *)
(* profile is not restarted.  One whose last launch raised is restarted    *)
(* when the next sequence fails on it; if it was the first, the crawl ends.*)
Restart ==
    /\ forced = "no"
    /\ \/ h.pc = "idle" /\ ~h.fresh
       \/ h.pc = "raised" /\ h.launched
    /\ \E clear \in BOOLEAN :
         h' = [h EXCEPT !.pc = "close", !.after = IF clear THEN "clear" ELSE "launch"]
    /\ UNCHANGED <<queue, signalled, stage, profiles, children, scan, forced>>

ClearProfile ==
    /\ h.pc = "clear"
    /\ dirs' = dirs \ {h.path}
    /\ kept' = {}
    /\ h' = [h EXCEPT !.pc = "launch", !.path = NoPid,
                      !.recovery = IF h.path = NoPid THEN @ ELSE NoPid]
    /\ UNCHANGED <<queue, signalled, stage, content, archives, children, scan, forced>>

(* A relaxed close comes when no command thread is at work.                *)
ShutdownBrowser ==
    /\ h.pc \in {"idle", "raised", "gaveUp"} /\ forced = "no"
    /\ h' = [h EXCEPT !.pc = "close", !.after = "archive"]
    /\ UNCHANGED <<queue, signalled, stage, profiles, children, scan, forced>>

(* The profile is removed, unless its archiving asserted that there is one *)
(* or failed.                                                              *)
RemoveArchived == dirs' \in {dirs \ {h.path}} \cup (IF ProfileArchived THEN {dirs} ELSE {})

ArchiveProfile ==
    /\ h.pc = "archive"
    /\ h' = [h EXCEPT !.pc = "off"]
    /\ RemoveArchived
    /\ UNCHANGED <<queue, signalled, stage, content, kept, archives, children, scan, forced>>

SendShutdown ==
    /\ h.pc = "close"
    /\ signalled' = TRUE
    /\ h' = [h EXCEPT !.pc = "closing"]
    /\ UNCHANGED <<queue, stage, profiles, children, scan, forced>>

(* Only the answer OK of a process that then ends is an orderly close;     *)
(* after anything else, and after 30 seconds, the process is killed.       *)
AwaitClose ==
    /\ h.pc = "closing"
    /\ IF queue # <<>> /\ Head(queue) = "OK" /\ stage[h.spawn] = "gone"
       THEN h' = [h EXCEPT !.pc = h.after]
       ELSE h' = [h EXCEPT !.pc = "kill"]
    /\ queue' = IF queue = <<>> THEN <<>> ELSE Tail(queue)
    /\ UNCHANGED <<signalled, stage, profiles, children, scan, forced>>

(* Seeded bug: the children of the browser manager are left alone.         *)
KillProcessOnly ==
    /\ stage' = [stage EXCEPT ![h.spawn] = "gone"]
    /\ UNCHANGED children

(* kill_browser_manager: the browser manager, then the display and the     *)
(* geckodriver the handle knows of, which may be those of an earlier       *)
(* attempt.                                                                *)
KillProcesses ==
    /\ stage' = [stage EXCEPT ![h.spawn] = "gone"]
    /\ displays' = Drop(displays, {h.display})
    /\ geckos' = Drop(geckos, {h.gecko})

Kill ==
    /\ h.pc = "kill"
    /\ KillProcesses
    /\ h' = [h EXCEPT !.pc = h.after]
    /\ UNCHANGED <<queue, signalled, profiles, scan, forced>>

(* A forced close kills what the handle knows of at once, whatever the     *)
(* command thread does: a launch goes on, and its later attempts are made  *)
(* after the manager is closed.  Before the first attempt there is nothing *)
(* to kill.                                                                *)
ForceClose ==
    /\ forced = "no" /\ h.spawn # NoPid
    /\ h.pc \notin {"archive", "off"} /\ h.after # "archive"
    /\ KillProcesses
    /\ forced' = "killed"
    /\ UNCHANGED <<h, queue, signalled, profiles, scan>>

ForceArchive ==
    /\ forced = "killed"
    /\ RemoveArchived
    /\ forced' = "done"
    /\ UNCHANGED <<h, queue, signalled, stage, content, kept, archives, children, scan>>

-----------------------------------------------------------------------------
(* The browser manager process of attempt n: deploy_firefox,               *)
(* _start_extension, and the command loop as far as a close sees it.       *)

Announce(n, messages) == queue' = IF n = h.spawn THEN queue \o messages ELSE queue
Advance(n, from, to) == stage[n] = from /\ stage' = [stage EXCEPT ![n] = to]

CreateProfile(n) ==
    /\ Advance(n, "boot", "created")
    /\ dirs' = dirs \cup {n}
    /\ Announce(n, <<"Profile Created">>)
    /\ UNCHANGED <<h, signalled, content, kept, archives, children, scan, forced>>

(* Seeded bug: the seed profile is loaded after a crash, too.              *)
SeedFirst == IF h.seedTar THEN "seed" ELSE IF h.recovery # NoPid THEN "recovery" ELSE "none"

(* The seed, unless this is a recovery; else the recovered profile.        *)
ProfileSource ==
    IF h.seedTar /\ h.path = NoPid THEN "seed"
    ELSE IF h.recovery # NoPid THEN "recovery" ELSE "none"

LoadedProfile ==
    CASE ProfileSource = "seed" -> {Seed}
      [] ProfileSource = "recovery" -> archives[h.recovery]
      [] OTHER -> {}

(* load_profile fails if there is no archive (ProcessFails, critical).     *)
LoadProfile(n) ==
    /\ Advance(n, "created", "loaded")
    /\ ProfileSource = "recovery" => h.recovery \in DOMAIN archives
    /\ content' = [content EXCEPT ![n] = LoadedProfile]
    /\ Announce(n, <<"Profile Tar">>)
    /\ UNCHANGED <<h, signalled, dirs, kept, archives, children, scan, forced>>

StartDisplay(n) ==
    /\ Advance(n, "loaded", "displayed")
    /\ displays' = IF Xvfb THEN With(displays, n, 0) ELSE displays
    /\ Announce(n, <<"Display">>)
    /\ UNCHANGED <<h, signalled, profiles, geckos, scan, forced>>

AttemptLaunch(n) ==
    /\ Advance(n, "displayed", "attempted")
    /\ Announce(n, <<"Launch Attempted">>)
    /\ UNCHANGED <<h, signalled, profiles, children, scan, forced>>

StartWebdriver(n) ==
    /\ Advance(n, "attempted", "spawned")
    /\ geckos' = With(geckos, n, 0)
    /\ UNCHANGED <<h, queue, signalled, profiles, displays, scan, forced>>

InstallExtension(n) ==
    /\ Advance(n, "spawned", "launched")
    /\ Announce(n, <<"Browser Launched">>)
    /\ UNCHANGED <<h, signalled, profiles, children, scan, forced>>

ConnectExtension(n) ==
    /\ Advance(n, "launched", "connected")
    /\ UNCHANGED <<h, queue, signalled, profiles, children, scan, forced>>

BecomeReady(n) ==
    /\ Advance(n, "connected", "serving")
    /\ Announce(n, <<"Browser Ready">>)
    /\ UNCHANGED <<h, signalled, profiles, children, scan, forced>>

(* A critical exception is a profile that cannot be loaded or an extension *)
(* that did not boot in time.  run knows of the display once deploy_firefox*)
(* has returned, and only then stops it; nobody quits the driver.          *)
ProcessFails(n) ==
    /\ stage[n] \notin {"none", "ending", "gone"}
    /\ stage' = [stage EXCEPT ![n] = "gone"]
    /\ \/ Announce(n, <<"FAILED">>)
       \/ stage[n] \in {"created", "connected"} /\ Announce(n, <<"CRITICAL">>)
    /\ displays' = IF stage[n] \in {"launched", "connected", "serving"}
                   THEN Drop(displays, {n}) ELSE displays
    /\ UNCHANGED <<h, signalled, profiles, geckos, scan, forced>>

TakeShutdown(n) ==
    /\ n = h.spawn /\ signalled
    /\ Advance(n, "serving", "ending")
    /\ geckos' = Drop(geckos, {n})
    /\ Announce(n, <<"OK">>)
    /\ UNCHANGED <<h, signalled, profiles, displays, scan, forced>>

EndProcess(n) ==
    /\ Advance(n, "ending", "gone")
    /\ displays' = Drop(displays, {n})
    /\ UNCHANGED <<h, queue, signalled, profiles, geckos, scan, forced>>

-----------------------------------------------------------------------------
AtBound == h.pc = "spawn" /\ h.spawn = MaxSpawns

(* Time passes, except where the handle has a message to read or its       *)
(* waiting time is over; the watchdog.                                     *)
Tick ==
    /\ h.pc \in {"await", "idle", "raised", "gaveUp"} \/ AtBound
    /\ h.pc = "await" => queue = <<>> /\ h.waited < SpawnTimeout
    /\ h' = IF h.pc = "await" THEN [h EXCEPT !.waited = @ + 1] ELSE h
    /\ geckos' = Older(geckos) /\ displays' = Older(displays)
    /\ h' # h \/ geckos' # geckos \/ displays' # displays
    /\ UNCHANGED <<queue, signalled, stage, profiles, scan, forced>>

(* Seeded bug: a launch that is under way is not given time.               *)
AnyAge(f) == DOMAIN f

OldOnes(f) == {x \in DOMAIN f : f[x] >= ReapAge}

(* Seeded bug: displays are not looked for.                                *)
UncontrolledGeckos == [on |-> TRUE, geckos |-> OldOnes(geckos) \ {h.gecko}, displays |-> {}]

Uncontrolled == [on |-> TRUE, geckos |-> OldOnes(geckos) \ {h.gecko},
                 displays |-> OldOnes(displays) \ {h.display}]

(* The pids the handle controls are read first, then the process table; a  *)
(* closed manager scans no more.                                           *)
WatchdogScans ==
    /\ ~scan.on /\ h.pc # "off" /\ forced = "no"
    /\ Uncontrolled.geckos \cup Uncontrolled.displays # {}
    /\ scan' = Uncontrolled
    /\ UNCHANGED <<h, queue, signalled, stage, profiles, children, forced>>

WatchdogReaps ==
    /\ scan.on
    /\ geckos' = Drop(geckos, scan.geckos)
    /\ displays' = Drop(displays, scan.displays)
    /\ scan' = NoScan
    /\ UNCHANGED <<h, queue, signalled, stage, profiles, forced>>

-----------------------------------------------------------------------------
HandleNext ==
    \/ Launch \/ Spawn \/ ReadStatus \/ SpawnTimesOut
    \/ DiscardProfile \/ ClearProfile \/ SendShutdown \/ AwaitClose \/ Kill \/ ArchiveProfile
ProcessNext(n) ==
    \/ CreateProfile(n) \/ LoadProfile(n) \/ StartDisplay(n) \/ AttemptLaunch(n)
    \/ StartWebdriver(n) \/ InstallExtension(n) \/ ConnectExtension(n) \/ BecomeReady(n)
    \/ ProcessFails(n) \/ TakeShutdown(n) \/ EndProcess(n)
Next ==
    \/ HandleNext \/ Use \/ Restart \/ ShutdownBrowser \/ ForceClose \/ ForceArchive
    \/ Tick \/ WatchdogScans \/ WatchdogReaps
    \/ \E n \in Spawns : ProcessNext(n)

(* The handle's thread runs, time passes and the watchdog comes round; a   *)
(* browser manager may hang, and nobody need use or restart the browser.   *)
(* Strong fairness of Tick: no behaviour takes infinitely many steps in no *)
(* time.                                                                   *)
Spec == Init /\ [][Next]_vars
FairSpec ==
    /\ Spec
    /\ WF_vars(HandleNext) /\ SF_vars(Tick)
    /\ WF_vars(WatchdogScans) /\ WF_vars(WatchdogReaps)

-----------------------------------------------------------------------------
(* Properties.                                                             *)

(* The handle reads the status messages of a launch in the order in which  *)
(* the browser manager reports them, whatever earlier attempts left        *)
(* behind: the mismatch branch (browser_manager.py 187-193), which forgets *)
(* a running browser manager, is never taken.                              *)
StatusInOrder ==
    h.pc = "await" /\ queue # <<>> =>
      Head(queue) \in {Messages[h.next], "FAILED", "CRITICAL"}

(* At most one browser manager of a handle is alive, through failed        *)
(* attempts, restarts, kills and a forced close in the midst of a launch,  *)
(* and none after a relaxed shutdown.                                      *)
OneBrowserManager ==
    /\ Cardinality({n \in Spawns : ~Dead(n)}) <= 1
    /\ h.pc \in {"launch", "archive", "off"} => \A n \in Spawns : Dead(n)

(* A profile is archived only when its browser is closed (dump_profile,    *)
(* profile_commands.py 26-29), unless the close is forced.                 *)
ProfileIsClosedForArchive ==
    h.pc \in {"launch", "archive"} /\ h.path # NoPid /\ forced = "no" =>
      h.path \in dirs /\ Dead(h.path) /\ h.path \notin DOMAIN geckos

(* The archive a new browser is told to recover from exists until it has   *)
(* been loaded, through all attempts of the launch.                        *)
RecoveryArchiveExists ==
    \A n \in Spawns :
      stage[n] = "created" /\ ProfileSource = "recovery" => h.recovery \in DOMAIN archives

(* A browser in use has exactly the traces of the browsers since the last  *)
(* reset, however many attempts and crashes lie between, and the seed      *)
(* profile if one is configured.                                           *)
ProfileSinceReset ==
    h.pc = "idle" => /\ forced # "done" => h.path \in dirs
                     /\ content[h.path] = kept \cup (IF h.seedTar THEN {Seed} ELSE {})

(* The process watchdog only kills what a dead browser manager left behind,*)
(* never the children of a launch whose pids the handle has not read yet   *)
(* (task_manager.py 248-251).                                              *)
WatchdogSparesTheLiving ==
    [][scan.on /\ ~scan'.on =>
         \A n \in (DOMAIN geckos \ DOMAIN geckos') \cup (DOMAIN displays \ DOMAIN displays') :
           Dead(n)]_vars

(* Browsers and displays that outlived their browser manager and that the  *)
(* handle does not know are removed, unless the crawl ends: they never     *)
(* stay while it goes on.                                                  *)
Orphans == {n \in Spawns : Dead(n)} \cap ((DOMAIN geckos \ {h.gecko})
                                          \cup (DOMAIN displays \ {h.display}))
OrphansAreReaped == []<>(Orphans = {} \/ h.pc = "off" \/ forced # "no")
=============================================================================
