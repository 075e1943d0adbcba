------------------------ MODULE BrowserLaunchProofs ------------------------
(***************************************************************************)
(* The launches of BrowserLaunch, for any number of attempts, any limit    *)
(* and any waiting time: what the handle reads, which browser manager is   *)
(* alive, which profile it has, and whom the watchdog kills.               *)
(***************************************************************************)
EXTENDS BrowserLaunch, FiniteSetTheorems, TLAPS

Pcs == {"launch", "spawn", "await", "discard", "idle", "raised", "gaveUp", "close", "closing",
        "kill", "clear", "archive", "off"}
Stages == {"none", "boot", "created", "loaded", "displayed", "attempted", "spawned", "launched",
           "connected", "serving", "ending", "gone"}
Fields == {"pc", "after", "next", "spawn", "tries", "waited", "path", "seen", "tempdir",
           "recovery", "gecko", "display", "fresh", "seedTar", "launched"}

Texts == {"Profile Created", "Profile Tar", "Display", "Launch Attempted", "Browser Launched",
          "Browser Ready", "FAILED", "CRITICAL", "OK"}

HandleOK ==
    /\ DOMAIN h = Fields /\ h = [f \in Fields |-> h[f]]
    /\ h.pc \in Pcs /\ h.next \in 1 .. 6 /\ h.waited \in 0 .. SpawnTimeout
    /\ h.spawn \in 0 .. MaxSpawns /\ h.path \in 0 .. h.spawn
    /\ h.pc \in {"close", "closing", "kill"} => h.after \in {"discard", "clear", "launch", "archive"}
Ages(f, spawn) == f \in [DOMAIN f -> Nat] /\ DOMAIN f \subseteq 1 .. spawn
ProcessesOK ==
    /\ queue \in Seq(Texts) /\ stage \in [Spawns -> Stages]
    /\ content = [n \in Spawns |-> content[n]]
    /\ Ages(geckos, h.spawn) /\ Ages(displays, h.spawn)
TypeOK == HandleOK /\ ProcessesOK

-----------------------------------------------------------------------------
(* A launch is under way, up to the close of a failed attempt; an attempt  *)
(* was started in it.                                                      *)
Closing == h.pc \in {"close", "closing", "kill"}
InLaunch == h.pc \in {"spawn", "await", "discard"} \/ (Closing /\ h.after = "discard")
Trying == InLaunch /\ h.pc # "spawn"

(* Only the last browser manager may be alive, and where the handle can    *)
(* start another one it is not.                                            *)
LiveOK ==
    /\ \A n \in Spawns : ~Dead(n) => n = h.spawn /\ (h.pc \in {"await", "idle"} \/ Closing)
    /\ h.spawn # 0 => stage[h.spawn] # "none"
    /\ h.spawn # 0 /\ ~InLaunch => stage[h.spawn] \in {"serving", "ending", "gone"}

(* What is in the queue of an attempt that the handle waits for: the       *)
(* messages up to the stage that was reached, and a failure at the end.    *)
Reported(s) ==
    CASE s = "boot" -> 0 [] s = "created" -> 1 [] s = "loaded" -> 2 [] s = "displayed" -> 3
      [] s \in {"attempted", "spawned"} -> 4 [] s \in {"launched", "connected"} -> 5
      [] OTHER -> 6
Expected(i) ==
    \/ h.next + i - 1 <= 6 /\ queue[i] = Messages[h.next + i - 1]
    \/ i = Len(queue) /\ queue[i] \in {"FAILED", "CRITICAL"} /\ stage[h.spawn] = "gone"
QueueOK ==
    h.pc = "await" =>
      /\ signalled = FALSE /\ h.spawn # 0 /\ stage[h.spawn] \notin {"none", "ending"}
      /\ \A i \in DOMAIN queue : Expected(i)
      /\ stage[h.spawn] # "gone" => Len(queue) = Reported(stage[h.spawn]) + 1 - h.next

(* OK is the answer of a browser manager that has quit its browser.        *)
AnswerOK ==
    \A i \in DOMAIN queue : queue[i] = "OK" =>
      h.spawn \notin DOMAIN geckos /\ h.spawn # 0 /\ stage[h.spawn] \in {"ending", "gone"}

(* The profile: its directory, and what it and the archive hold.           *)
Traces == kept \cup (IF h.seedTar THEN {Seed} ELSE {})
Announced(k) == h.next > k \/ \E i \in DOMAIN queue : queue[i] = Messages[k]
PathOK ==
    /\ h.pc = "idle" => h.path = h.spawn /\ h.spawn # 0
    /\ Trying => h.path < h.spawn
    /\ h.path # NoPid /\ h.pc # "off" /\ forced # "done" => h.path \in dirs
    /\ h.pc = "await" /\ Announced(1) => h.spawn \in dirs
TracesOK ==
    /\ h.path = NoPid => h.recovery = NoPid /\ kept = {}
    /\ h.path # NoPid => content[h.path] = Traces
    /\ h.pc = "await" /\ Announced(2) => content[h.spawn] = Traces
    /\ InLaunch /\ h.path # NoPid => h.recovery # NoPid
    /\ InLaunch /\ h.recovery # NoPid =>
         h.recovery \in DOMAIN archives /\ archives[h.recovery] = Traces

(* The pids that the handle knows, and how old a geckodriver or a display  *)
(* can be that it does not know.                                           *)
Known(next) == \/ Trying /\ h.next >= next
               \/ ~InLaunch /\ h.spawn # 0 /\ stage[h.spawn] # "gone"
KnownPids ==
    /\ Known(6) => h.gecko = h.spawn
    /\ Known(4) /\ Xvfb => h.display = h.spawn
PathGecko ==
    h.path # NoPid /\ h.path \in DOMAIN geckos =>
      h.path = h.spawn /\ h.gecko = h.path /\ ~InLaunch /\ (h.pc = "idle" \/ Closing)
DisplayOnly == DOMAIN displays # {} => Xvfb
GeckoAge ==
    h.spawn # 0 /\ ~Dead(h.spawn) /\ h.spawn \in DOMAIN geckos =>
      /\ stage[h.spawn] \in {"spawned", "launched", "connected", "serving"}
      /\ h.gecko # h.spawn => geckos[h.spawn] <= IF h.next = 5 THEN h.waited ELSE 0
DisplayAge ==
    h.spawn # 0 /\ ~Dead(h.spawn) /\ h.spawn \in DOMAIN displays =>
      /\ stage[h.spawn] \notin {"boot", "created", "loaded"}
      /\ h.display # h.spawn => displays[h.spawn] = 0

(* What the watchdog is about to kill is dead, and stays so.               *)
ScanOK ==
    /\ scan = [on |-> scan.on, geckos |-> scan.geckos, displays |-> scan.displays]
    /\ scan.geckos \cup scan.displays \subseteq {n \in 1 .. h.spawn : Dead(n)}

LaunchInv == LiveOK /\ QueueOK /\ AnswerOK
ProfileInv == PathOK /\ TracesOK /\ KnownPids /\ PathGecko
WatchdogInv == DisplayOnly /\ GeckoAge /\ DisplayAge /\ ScanOK

-----------------------------------------------------------------------------
(* What the steps of the handle do to its fields.                          *)
Shape == DOMAIN h = Fields /\ h = [f \in Fields |-> h[f]]
SameBut(changed) == Shape' /\ \A f \in Fields \ changed : h'[f] = h[f]

LEMMA ShapeOK == HandleOK => Shape
  BY DEF HandleOK, Shape

LEMMA MessageCount == Len(Messages) = 6
  BY DEF Messages

LEMMA MessageTexts ==
    /\ Messages[1] = "Profile Created" /\ Messages[2] = "Profile Tar" /\ Messages[3] = "Display"
    /\ Messages[4] = "Launch Attempted" /\ Messages[5] = "Browser Launched"
    /\ Messages[6] = "Browser Ready"
  BY DEF Messages

LEMMA LaunchFields ==
    ASSUME Shape, Launch
    PROVE  /\ SameBut({"pc", "tries", "fresh", "tempdir", "recovery"})
           /\ \/ /\ h.path = NoPid /\ h'.pc = "spawn" /\ h'.recovery = h.recovery
                 /\ archives' = archives
              \/ /\ h.path # NoPid /\ archives' = DumpedProfile
                 /\ \/ h'.pc = "spawn" /\ h'.recovery = h.spawn
                    \/ h'.pc = "raised" /\ h'.recovery = h.recovery
<1>1. CASE h.path = NoPid
  BY <1>1 DEF Launch, Shape, Fields, SameBut
<1>2. CASE h.path # NoPid
  BY <1>2 DEF Launch, Shape, Fields, SameBut
<1>3. QED  BY <1>1, <1>2

LEMMA SpawnFields ==
    ASSUME Shape, Spawn
    PROVE  \/ /\ h.spawn < MaxSpawns /\ SameBut({"pc", "spawn", "next", "waited", "seen"})
              /\ h'.pc = "await" /\ h'.spawn = h.spawn + 1 /\ h'.next = 1 /\ h'.waited = 0
              /\ stage' = [stage EXCEPT ![h.spawn + 1] = "boot"]
              /\ queue' = <<>> /\ signalled' = FALSE
           \/ /\ SameBut({"pc"}) /\ h'.pc = "gaveUp"
              /\ UNCHANGED <<queue, signalled, stage>>
<1>1. CASE AttemptsLeft
  BY <1>1 DEF Spawn, NewQueues, Shape, Fields, SameBut
<1>2. CASE ~AttemptsLeft
  BY <1>2 DEF Spawn, Shape, Fields, SameBut
<1>3. QED  BY <1>1, <1>2

(* The four answers that a message gets; the fifth is a message that was   *)
(* not expected.                                                           *)
Refused(message) == message = "CRITICAL" /\ SameBut({"pc"}) /\ h'.pc = "raised"
Failed == SameBut({"pc", "after", "tries"}) /\ h'.pc = "close" /\ h'.after = "discard"
MovedOn(message) ==
    /\ message \notin {"CRITICAL", "FAILED"} /\ h.next < 6
    /\ SameBut({"next", "waited", "seen", "display", "gecko"})
    /\ h'.next = h.next + 1 /\ h'.waited = 0
    /\ h'.display = (IF h.next # 3 THEN h.display ELSE IF Xvfb THEN h.spawn ELSE NoPid)
    /\ h'.gecko = (IF h.next = 5 THEN h.spawn ELSE h.gecko)
Succeeded(message) ==
    /\ message = "Browser Ready" /\ h.next = 6
    /\ SameBut({"pc", "path", "tempdir", "waited", "launched"})
    /\ h'.pc = "idle" /\ h'.path = h.spawn /\ h'.waited = 0
Unexpected(message) ==
    message \notin {"CRITICAL", "FAILED"} /\ h.next >= 6 /\ ~(message = "Browser Ready" /\ h.next = 6)

LEMMA AnswerFields ==
    ASSUME HandleOK, NEW message, h' = Answered(message)
    PROVE  \/ Refused(message) \/ (message = "FAILED" /\ Failed) \/ MovedOn(message)
           \/ Succeeded(message) \/ Unexpected(message)
<1>0. Shape /\ h.next \in 1 .. 6 /\ Len(Messages) = 6
  BY ShapeOK, MessageCount DEF HandleOK
<1>1. CASE message = "CRITICAL"
  <2>1. h' = [h EXCEPT !.pc = "raised"]
    BY <1>1 DEF Answered
  <2>2. QED  BY <1>0, <1>1, <2>1 DEF Refused, Shape, Fields, SameBut
<1>2. CASE message = "FAILED"
  <2>1. h' = [h EXCEPT !.pc = "close", !.after = "discard", !.tries = @ + 1]
    BY <1>2 DEF Answered, AttemptFailed
  <2>2. QED  BY <1>0, <1>2, <2>1 DEF Failed, Shape, Fields, SameBut
<1> DEFINE critical == [h EXCEPT !.pc = "raised"]
           further == [h EXCEPT !.next = @ + 1, !.waited = 0, !.seen = @ \/ message = "Profile Created",
                     !.display = IF h.next # 3 THEN @ ELSE IF Xvfb THEN h.spawn ELSE NoPid,
                     !.gecko = IF h.next = 5 THEN h.spawn ELSE @]
           ready == [h EXCEPT !.pc = "idle", !.path = h.spawn, !.tempdir = NoPid, !.waited = 0,
                     !.launched = TRUE]
           another == [h EXCEPT !.pc = "spawn", !.tries = @ + 1]
<1>a. h' = CASE message = "CRITICAL" -> critical
             [] message = "FAILED" -> AttemptFailed
             [] message \notin {"CRITICAL", "FAILED"} /\ h.next < Len(Messages) -> further
             [] message = "Browser Ready" /\ h.next = Len(Messages) -> ready
             [] OTHER -> another
  BY Zenon DEF Answered
<1> HIDE DEF critical, further, ready, another
<1>b. ASSUME message \notin {"CRITICAL", "FAILED"}, h.next < 6 PROVE h' = further
  <2>0. h.next < Len(Messages) /\ h.next # Len(Messages)
    BY <1>0, <1>b
  <2>1. /\ message # "CRITICAL" /\ message # "FAILED"
        /\ message \notin {"CRITICAL", "FAILED"} /\ h.next < Len(Messages)
        /\ ~(message = "Browser Ready" /\ h.next = Len(Messages))
    BY <1>b, <2>0, Zenon
  <2>2. QED  BY <1>a, <2>1, Zenon
<1>c. ASSUME message = "Browser Ready", h.next = 6 PROVE h' = ready
  <2>0. ~(h.next < Len(Messages)) /\ h.next = Len(Messages)
    <3>1. ~(6 < 6)
      OBVIOUS
    <3>2. QED  BY <1>c, <3>1, MessageCount, Zenon
  <2>1. /\ message # "CRITICAL" /\ message # "FAILED"
        /\ ~(message \notin {"CRITICAL", "FAILED"} /\ h.next < Len(Messages))
        /\ message = "Browser Ready" /\ h.next = Len(Messages)
    BY <1>c, <2>0, Zenon
  <2>2. QED  BY <1>a, <2>1, Zenon
<1>3. CASE message \notin {"CRITICAL", "FAILED"} /\ h.next < 6
  <2>1. h' = [h EXCEPT !.next = @ + 1, !.waited = 0, !.seen = @ \/ message = "Profile Created",
                     !.display = IF h.next # 3 THEN @ ELSE IF Xvfb THEN h.spawn ELSE NoPid,
                     !.gecko = IF h.next = 5 THEN h.spawn ELSE @]
    BY <1>3, <1>b, Zenon DEF further
  <2>2. SameBut({"next", "waited", "seen", "display", "gecko"})
    BY <1>0, <2>1 DEF Shape, Fields, SameBut
  <2>3. /\ h'.next = h.next + 1 /\ h'.waited = 0
        /\ h'.display = (IF h.next # 3 THEN h.display ELSE IF Xvfb THEN h.spawn ELSE NoPid)
        /\ h'.gecko = (IF h.next = 5 THEN h.spawn ELSE h.gecko)
    BY <1>0, <2>1 DEF Shape, Fields
  <2>4. QED  BY <1>3, <2>2, <2>3 DEF MovedOn
<1>4. CASE message = "Browser Ready" /\ h.next = 6
  <2>1. h' = [h EXCEPT !.pc = "idle", !.path = h.spawn, !.tempdir = NoPid, !.waited = 0,
                     !.launched = TRUE]
    BY <1>4, <1>c, Zenon DEF ready
  <2>2. QED  BY <1>0, <1>4, <2>1 DEF Succeeded, Shape, Fields, SameBut
<1>5. CASE Unexpected(message)
  BY <1>5
<1>6. h.next < 6 \/ h.next >= 6
  BY <1>0
<1>7. QED  BY <1>1, <1>2, <1>3, <1>4, <1>5, <1>6, Zenon DEF Unexpected

LEMMA TimeOutFields == ASSUME Shape, SpawnTimesOut PROVE Failed
  BY DEF SpawnTimesOut, AttemptFailed, Failed, Shape, Fields, SameBut

LEMMA DiscardFields == ASSUME Shape, DiscardProfile PROVE SameBut({"pc"}) /\ h'.pc = "spawn"
  BY DEF DiscardProfile, Shape, Fields, SameBut

LEMMA UseFields == ASSUME Shape, Use PROVE SameBut({"fresh"})
  BY DEF Use, Shape, Fields, SameBut

LEMMA RestartFields ==
    ASSUME Shape, Restart
    PROVE  SameBut({"pc", "after"}) /\ h'.pc = "close" /\ h'.after \in {"clear", "launch"}
<1>1. PICK clear \in BOOLEAN :
        h' = [h EXCEPT !.pc = "close", !.after = IF clear THEN "clear" ELSE "launch"]
  BY DEF Restart
<1>2. QED  BY <1>1 DEF Shape, Fields, SameBut

LEMMA ClearFields ==
    ASSUME Shape, ClearProfile
    PROVE  /\ SameBut({"pc", "path", "recovery"}) /\ h'.pc = "launch" /\ h'.path = NoPid
           /\ h'.recovery = IF h.path = NoPid THEN h.recovery ELSE NoPid
  BY DEF ClearProfile, Shape, Fields, SameBut

LEMMA ShutdownFields ==
    ASSUME Shape, ShutdownBrowser
    PROVE  SameBut({"pc", "after"}) /\ h'.pc = "close" /\ h'.after = "archive"
  BY DEF ShutdownBrowser, Shape, Fields, SameBut

LEMMA ArchiveFields == ASSUME Shape, ArchiveProfile PROVE SameBut({"pc"}) /\ h'.pc = "off"
  BY DEF ArchiveProfile, Shape, Fields, SameBut

LEMMA SendFields == ASSUME Shape, SendShutdown PROVE SameBut({"pc"}) /\ h'.pc = "closing"
  BY DEF SendShutdown, Shape, Fields, SameBut

LEMMA AwaitFields ==
    ASSUME Shape, AwaitClose
    PROVE  /\ SameBut({"pc"})
           /\ \/ /\ queue # <<>> /\ Head(queue) = "OK" /\ stage[h.spawn] = "gone"
                 /\ h'.pc = h.after
              \/ h'.pc = "kill"
  BY DEF AwaitClose, Shape, Fields, SameBut

LEMMA KillFields == ASSUME Shape, Kill PROVE SameBut({"pc"}) /\ h'.pc = h.after
  BY DEF Kill, Shape, Fields, SameBut

LEMMA TickFields ==
    ASSUME HandleOK, Tick
    PROVE  /\ SameBut({"waited"})
           /\ \/ h.pc = "await" /\ queue = <<>> /\ h.waited < SpawnTimeout /\ h'.waited = h.waited + 1
              \/ h.pc # "await" /\ h'.waited = h.waited
<1>1. Shape
  BY ShapeOK
<1>2. CASE h.pc = "await"
  BY <1>1, <1>2 DEF Tick, Shape, Fields, SameBut
<1>3. CASE h.pc # "await"
  BY <1>1, <1>3 DEF Tick, Shape, Fields, SameBut
<1>4. QED  BY <1>2, <1>3

LEMMA StillFields == ASSUME Shape, h' = h PROVE SameBut({})
  BY DEF Shape, SameBut

(* A forced close leaves the handle and its thread alone.                  *)
Forced == ForceClose \/ ForceArchive

LEMMA ForceEffect ==
    ASSUME Forced
    PROVE  /\ UNCHANGED <<h, queue, signalled, content, kept, archives, scan>>
           /\ stage' = stage \/ (h.spawn # 0 /\ stage' = [stage EXCEPT ![h.spawn] = "gone"])
           /\ geckos' = geckos \/ geckos' = Drop(geckos, {h.gecko})
           /\ displays' = displays \/ displays' = Drop(displays, {h.display})
           /\ \/ dirs' = dirs /\ forced' = "killed" /\ forced = "no"
              \/ dirs' \in {dirs, dirs \ {h.path}} /\ forced' = "done"
<1>1. CASE ForceClose
  BY <1>1 DEF ForceClose, KillProcesses, profiles, NoPid
<1>2. CASE ForceArchive
  BY <1>2 DEF ForceArchive, RemoveArchived, children
<1>3. QED  BY <1>1, <1>2 DEF Forced

(* The fields that are read below, where they have stayed.                 *)
LEMMA Kept ==
    ASSUME NEW changed, SameBut(changed)
    PROVE  /\ "pc" \notin changed => h'.pc = h.pc
           /\ "after" \notin changed => h'.after = h.after
           /\ "next" \notin changed => h'.next = h.next
           /\ "spawn" \notin changed => h'.spawn = h.spawn
           /\ "waited" \notin changed => h'.waited = h.waited
           /\ "path" \notin changed => h'.path = h.path
           /\ "recovery" \notin changed => h'.recovery = h.recovery
           /\ "gecko" \notin changed => h'.gecko = h.gecko
           /\ "display" \notin changed => h'.display = h.display
           /\ "seedTar" \notin changed => h'.seedTar = h.seedTar
  BY DEF SameBut, Fields

-----------------------------------------------------------------------------
(* What the steps of a browser manager do to its stage and to the queue.   *)
Moves(n, from, to, messages) ==
    stage[n] = from /\ stage' = [stage EXCEPT ![n] = to] /\ queue' = queue \o messages
Silent(n) ==
    \/ Moves(n, "attempted", "spawned", <<>>) \/ Moves(n, "launched", "connected", <<>>)
Reports(n) ==
    \/ Moves(n, "boot", "created", <<"Profile Created">>)
    \/ Moves(n, "created", "loaded", <<"Profile Tar">>)
    \/ Moves(n, "loaded", "displayed", <<"Display">>)
    \/ Moves(n, "displayed", "attempted", <<"Launch Attempted">>)
    \/ Moves(n, "spawned", "launched", <<"Browser Launched">>)
    \/ Moves(n, "connected", "serving", <<"Browser Ready">>)
Fails(n) ==
    /\ stage[n] \notin {"none", "ending", "gone"}
    /\ \/ Moves(n, stage[n], "gone", <<"FAILED">>)
       \/ Moves(n, stage[n], "gone", <<"CRITICAL">>)
Answers(n) == Moves(n, "serving", "ending", <<"OK">>)
Ends(n) == Moves(n, "ending", "gone", <<>>)

LEMMA ProcessEffect ==
    ASSUME TypeOK, LiveOK, NEW n \in Spawns, ProcessNext(n)
    PROVE  /\ n = h.spawn /\ h' = h /\ SameBut({}) /\ ~Dead(n)
           /\ h.pc \in {"await", "idle"} \/ Closing
           /\ UNCHANGED <<signalled, kept, archives, scan>>
           /\ \/ Silent(n) \/ Reports(n) \/ Fails(n)
              \/ Answers(n) /\ signalled = TRUE
              \/ Ends(n)
<1> USE DEF Advance, Announce, profiles, children, Moves
<1>0. queue \in Seq(Texts)
  BY DEF TypeOK, ProcessesOK
<1>1. queue = queue \o <<>>
  BY <1>0
<1>2. stage[n] \notin {"none", "gone"}
  BY DEF ProcessNext, CreateProfile, LoadProfile, StartDisplay, AttemptLaunch, StartWebdriver,
         InstallExtension, ConnectExtension, BecomeReady, ProcessFails, TakeShutdown, EndProcess
<1>3. n = h.spawn /\ ~Dead(n) /\ (h.pc \in {"await", "idle"} \/ Closing)
  BY <1>2 DEF LiveOK, Dead
<1>4. h' = h /\ UNCHANGED <<signalled, kept, archives, scan>>
  BY DEF ProcessNext, CreateProfile, LoadProfile, StartDisplay, AttemptLaunch, StartWebdriver,
         InstallExtension, ConnectExtension, BecomeReady, ProcessFails, TakeShutdown, EndProcess
<1>5. SameBut({})
  BY <1>4, ShapeOK, StillFields DEF TypeOK
<1>6. CASE CreateProfile(n) \/ LoadProfile(n) \/ StartDisplay(n) \/ AttemptLaunch(n)
           \/ InstallExtension(n) \/ BecomeReady(n)
  <2>1. Reports(n)
    BY <1>3, <1>6 DEF CreateProfile, LoadProfile, StartDisplay, AttemptLaunch, InstallExtension,
         BecomeReady, Reports
  <2>2. QED  BY <1>3, <1>4, <1>5, <2>1
<1>7. CASE StartWebdriver(n) \/ ConnectExtension(n)
  <2>1. Silent(n)
    BY <1>1, <1>7 DEF StartWebdriver, ConnectExtension, Silent
  <2>2. QED  BY <1>3, <1>4, <1>5, <2>1
<1>8. CASE ProcessFails(n)
  <2>1. Fails(n)
    BY <1>3, <1>8 DEF ProcessFails, Fails
  <2>2. QED  BY <1>3, <1>4, <1>5, <2>1
<1>9. CASE TakeShutdown(n)
  <2>1. Answers(n) /\ signalled = TRUE
    BY <1>3, <1>9 DEF TakeShutdown, Answers
  <2>2. QED  BY <1>3, <1>4, <1>5, <2>1
<1>10. CASE EndProcess(n)
  <2>1. Ends(n)
    BY <1>1, <1>10 DEF EndProcess, Ends
  <2>2. QED  BY <1>3, <1>4, <1>5, <2>1
<1>11. QED
  BY <1>6, <1>7, <1>8, <1>9, <1>10 DEF ProcessNext

(* What a move may be.                                                     *)
WellMoved(n) ==
    /\ stage' \in [Spawns -> Stages]
    /\ \A m \in Spawns \ {n} : stage'[m] = stage[m]
    /\ stage'[n] # "none" /\ stage[n] \notin {"none", "gone"}
    /\ stage[n] \in {"serving", "ending"} => stage'[n] \in {"ending", "gone"}
WellAdded ==
    queue' \in Seq(Texts) /\ \E message \in Texts : queue' = queue \/ queue' = Append(queue, message)

LEMMA MoveIsWell ==
    ASSUME TypeOK, NEW n \in Spawns, NEW from \in Stages \ {"none", "gone"},
           NEW to \in Stages \ {"none"}, NEW messages, Moves(n, from, to, messages),
           from \in {"serving", "ending"} => to \in {"ending", "gone"}
    PROVE  WellMoved(n)
  BY DEF TypeOK, ProcessesOK, Moves, WellMoved

LEMMA NoneAdded == ASSUME TypeOK, queue' = queue \o <<>> PROVE queue' = queue /\ WellAdded
<1>1. queue \in Seq(Texts)
  BY DEF TypeOK, ProcessesOK
<1>2. queue \o <<>> = queue
  BY <1>1
<1>3. "OK" \in Texts
  BY DEF Texts
<1>4. QED  BY <1>1, <1>2, <1>3 DEF WellAdded

LEMMA OneAdded ==
    ASSUME TypeOK, NEW message \in Texts, queue' = queue \o <<message>>
    PROVE  queue' = Append(queue, message) /\ WellAdded
<1>1. queue \in Seq(Texts)
  BY DEF TypeOK, ProcessesOK
<1>2. Append(queue, message) \in Seq(Texts)
  BY <1>1
<1>3. queue \o <<message>> = Append(queue, message)
  BY <1>1
<1>4. QED  BY <1>2, <1>3 DEF WellAdded

LEMMA MoveEffect ==
    ASSUME TypeOK, NEW n \in Spawns,
           Silent(n) \/ Reports(n) \/ Fails(n) \/ Answers(n) \/ Ends(n)
    PROVE  WellMoved(n) /\ WellAdded
<1>1. stage[n] \in Stages
  BY DEF TypeOK, ProcessesOK
<1>2. WellMoved(n)
  <2> USE DEF Stages
  <2>1. CASE Silent(n)
    BY <2>1, MoveIsWell DEF Silent
  <2>2. CASE Reports(n)
    BY <2>2, MoveIsWell DEF Reports
  <2>3. CASE Fails(n)
    BY <1>1, <2>3, MoveIsWell DEF Fails
  <2>4. CASE Answers(n) \/ Ends(n)
    BY <2>4, MoveIsWell DEF Answers, Ends
  <2>5. QED  BY <2>1, <2>2, <2>3, <2>4
<1>3. WellAdded
  <2> USE DEF Moves, Texts
  <2>1. CASE Silent(n) \/ Ends(n)
    BY <2>1, NoneAdded DEF Silent, Ends
  <2>2. CASE Reports(n)
    BY <2>2, OneAdded DEF Reports
  <2>3. CASE Fails(n) \/ Answers(n)
    BY <2>3, OneAdded DEF Fails, Answers
  <2>4. QED  BY <2>1, <2>2, <2>3
<1>4. QED  BY <1>2, <1>3

-----------------------------------------------------------------------------
(* Types.                                                                  *)
LEMMA HandleFrom ==
    ASSUME Shape', h'.pc \in Pcs, h'.next \in 1 .. 6, h'.waited \in 0 .. SpawnTimeout,
           h'.spawn \in 0 .. MaxSpawns, h'.path \in 0 .. h'.spawn,
           h'.pc \in {"close", "closing", "kill"} =>
             h'.after \in {"discard", "clear", "launch", "archive"}
    PROVE  HandleOK'
  BY DEF HandleOK, Shape

LEMMA DropAges ==
    ASSUME NEW f, NEW S, NEW top \in Nat, Ages(f, top)
    PROVE  /\ Ages(Drop(f, S), top) /\ DOMAIN Drop(f, S) = DOMAIN f \ S
           /\ \A x \in DOMAIN f \ S : Drop(f, S)[x] = f[x]
  BY DEF Ages, Drop

LEMMA WithAges ==
    ASSUME NEW f, NEW top \in Nat, Ages(f, top), NEW n \in 1 .. top, NEW age \in Nat
    PROVE  /\ Ages(With(f, n, age), top) /\ DOMAIN With(f, n, age) = DOMAIN f \cup {n}
           /\ With(f, n, age)[n] = age
           /\ \A x \in DOMAIN f \ {n} : With(f, n, age)[x] = f[x]
  BY DEF Ages, With

LEMMA OlderAges ==
    ASSUME NEW f, NEW top \in Nat, Ages(f, top)
    PROVE  /\ Ages(Older(f), top) /\ DOMAIN Older(f) = DOMAIN f
           /\ \A x \in DOMAIN f : Older(f)[x] <= f[x] + 1 /\ f[x] \in Nat
  BY LaunchAssumption DEF Ages, Older

LEMMA AgesUpTo == ASSUME NEW f, NEW m \in Nat, NEW n \in Nat, m <= n, Ages(f, m) PROVE Ages(f, n)
  BY DEF Ages

(* The queue of an attempt that is read from.                              *)
LEMMA TakenFromQueue ==
    ASSUME TypeOK, queue # <<>>
    PROVE  /\ Tail(queue) \in Seq(Texts) /\ Head(queue) \in Texts /\ Head(queue) = queue[1]
           /\ 1 \in DOMAIN queue /\ Len(Tail(queue)) = Len(queue) - 1
           /\ \A i \in DOMAIN Tail(queue) :
                i + 1 \in DOMAIN queue /\ Tail(queue)[i] = queue[i + 1] /\ i \in Nat
  BY DEF TypeOK, ProcessesOK

(* The message that is read is the one that is expected.                   *)
LEMMA HeadExpected ==
    ASSUME TypeOK, QueueOK, h.pc = "await", queue # <<>>
    PROVE  /\ \/ Head(queue) = Messages[h.next]
              \/ Head(queue) \in {"FAILED", "CRITICAL"} /\ stage[h.spawn] = "gone"
           /\ ~Unexpected(Head(queue))
<1>1. 1 \in DOMAIN queue /\ Head(queue) = queue[1] /\ h.next \in 1 .. 6
  BY TakenFromQueue DEF TypeOK, HandleOK
<1>2. Expected(1)
  BY <1>1 DEF QueueOK
<1>3. h.next + 1 - 1 = h.next
  BY <1>1
<1>4. \/ Head(queue) = Messages[h.next]
      \/ Head(queue) \in {"FAILED", "CRITICAL"} /\ stage[h.spawn] = "gone"
  BY <1>1, <1>2, <1>3 DEF Expected
<1>5. h.next = 6 => Messages[h.next] = "Browser Ready"
  BY MessageTexts
<1>6. ~Unexpected(Head(queue))
  <2>1. CASE Head(queue) \in {"FAILED", "CRITICAL"}
    BY <2>1 DEF Unexpected
  <2>2. CASE h.next = 6 /\ Head(queue) = Messages[h.next]
    BY <1>5, <2>2 DEF Unexpected
  <2>3. CASE h.next < 6
    <3>1. ~(h.next >= 6)
      BY <1>1, <2>3
    <3>2. QED  BY <3>1, Zenon DEF Unexpected
  <2>4. QED  BY <1>1, <1>4, <2>1, <2>2, <2>3
<1>7. QED  BY <1>4, <1>6

(* What reading a message does.                                            *)
LEMMA ReadEffect ==
    ASSUME TypeOK, QueueOK, ReadStatus
    PROVE  /\ h.pc = "await" /\ queue # <<>> /\ queue' = Tail(queue)
           /\ UNCHANGED <<signalled, stage, content, kept, children, scan>>
           /\ \/ Refused(Head(queue)) /\ stage[h.spawn] = "gone"
              \/ Failed /\ stage[h.spawn] = "gone"
              \/ MovedOn(Head(queue)) /\ Head(queue) = Messages[h.next]
              \/ Succeeded(Head(queue)) /\ Head(queue) = Messages[6]
           /\ h'.pc # "idle" => dirs' = dirs /\ archives' = archives
           /\ h'.pc = "idle" => dirs' = dirs \ {h.path}
<1>1. /\ h.pc = "await" /\ queue # <<>> /\ queue' = Tail(queue) /\ h' = Answered(Head(queue))
      /\ UNCHANGED <<signalled, stage, content, kept, children, scan>>
      /\ h'.pc # "idle" => dirs' = dirs /\ archives' = archives
      /\ h'.pc = "idle" => dirs' = dirs \ {h.path}
  BY DEF ReadStatus
<1>2. \/ Refused(Head(queue)) \/ (Head(queue) = "FAILED" /\ Failed) \/ MovedOn(Head(queue))
      \/ Succeeded(Head(queue)) \/ Unexpected(Head(queue))
  BY <1>1, AnswerFields DEF TypeOK
<1>3. \A i \in 1 .. 6 : Messages[i] \notin {"FAILED", "CRITICAL"}
  <2> SUFFICES ASSUME NEW i \in 1 .. 6 PROVE Messages[i] \notin {"FAILED", "CRITICAL"}
    OBVIOUS
  <2>1. i = 1 \/ i = 2 \/ i = 3 \/ i = 4 \/ i = 5 \/ i = 6
    OBVIOUS
  <2>2. QED  BY <2>1, MessageTexts
<1>4. h.next \in 1 .. 6
  BY DEF TypeOK, HandleOK
<1>5. QED
  BY <1>1, <1>2, <1>3, <1>4, HeadExpected DEF Refused, MovedOn, Succeeded

LEMMA HandleSame ==
    ASSUME HandleOK, NEW changed, SameBut(changed),
           changed \cap {"next", "waited", "spawn", "path"} = {}, h'.pc \in Pcs,
           h'.pc \in {"close", "closing", "kill"} =>
             h'.after \in {"discard", "clear", "launch", "archive"}
    PROVE  HandleOK'
<1>1. /\ h'.next = h.next /\ h'.waited = h.waited /\ h'.spawn = h.spawn /\ h'.path = h.path
  BY Kept
<1>2. Shape'
  BY DEF SameBut
<1>3. QED  BY <1>1, <1>2, HandleFrom DEF HandleOK

LEMMA HandleStep == ASSUME TypeOK, LiveOK, QueueOK, [Next]_vars PROVE HandleOK' /\ h.spawn <= h'.spawn
<1>0. HandleOK /\ Shape /\ h.spawn \in Nat /\ h.waited \in 0 .. SpawnTimeout /\ SpawnTimeout \in Nat
  BY ShapeOK, LaunchAssumption DEF TypeOK, HandleOK
<1>a. 1 \in 1 .. 6 /\ 0 \in 0 .. SpawnTimeout
  BY <1>0
<1>1. ASSUME h' = h PROVE HandleOK' /\ h.spawn <= h'.spawn
  <2>1. HandleOK'
    BY <1>0, <1>1 DEF HandleOK
  <2>2. QED  BY <1>0, <1>1, <2>1
<1>2. CASE UNCHANGED vars
  BY <1>1, <1>2 DEF vars
<1>3. CASE Launch
  BY <1>0, <1>3, LaunchFields, Kept, HandleSame DEF Pcs
<1>4. CASE Spawn
  <2>1. CASE /\ h.spawn < MaxSpawns /\ SameBut({"pc", "spawn", "next", "waited", "seen"})
             /\ h'.pc = "await" /\ h'.spawn = h.spawn + 1 /\ h'.next = 1 /\ h'.waited = 0
    <3>1. h'.path = h.path /\ Shape'
      BY <2>1, Kept DEF SameBut
    <3>2. h'.spawn \in 0 .. MaxSpawns /\ h'.path \in 0 .. h'.spawn /\ h.spawn <= h'.spawn
      BY <1>0, <2>1, <3>1, LaunchAssumption DEF HandleOK
    <3>3. QED  BY <1>a, <2>1, <3>1, <3>2, HandleFrom DEF Pcs
  <2>2. CASE SameBut({"pc"}) /\ h'.pc = "gaveUp"
    BY <1>0, <2>2, Kept, HandleSame DEF Pcs
  <2>3. QED  BY <1>0, <1>4, <2>1, <2>2, SpawnFields
<1>5. CASE ReadStatus
  <2>1. CASE Refused(Head(queue)) \/ Failed
    BY <1>0, <2>1, Kept, HandleSame DEF Refused, Failed, Pcs
  <2>2. CASE MovedOn(Head(queue))
    <3>1. /\ h'.pc = h.pc /\ h'.spawn = h.spawn /\ h'.path = h.path /\ h'.after = h.after /\ Shape'
      BY <2>2, Kept DEF MovedOn, SameBut
    <3>2. h'.next \in 1 .. 6 /\ h'.waited \in 0 .. SpawnTimeout
      BY <1>0, <1>a, <2>2 DEF MovedOn, HandleOK
    <3>3. QED  BY <1>0, <3>1, <3>2, HandleFrom DEF HandleOK
  <2>3. CASE Succeeded(Head(queue))
    <3>1. h'.next = h.next /\ h'.spawn = h.spawn /\ h'.path = h.spawn /\ h'.pc = "idle" /\ Shape'
      BY <2>3, Kept DEF Succeeded, SameBut
    <3>2. h'.waited \in 0 .. SpawnTimeout
      BY <1>a, <2>3 DEF Succeeded
    <3>3. h'.path \in 0 .. h'.spawn /\ h.spawn <= h'.spawn
      BY <1>0, <3>1
    <3>4. QED  BY <1>0, <3>1, <3>2, <3>3, HandleFrom DEF HandleOK, Pcs
  <2>4. QED  BY <1>5, <2>1, <2>2, <2>3, ReadEffect
<1>6. CASE SpawnTimesOut
  BY <1>0, <1>6, TimeOutFields, Kept, HandleSame DEF Failed, Pcs
<1>7. CASE DiscardProfile \/ ArchiveProfile
  BY <1>0, <1>7, DiscardFields, ArchiveFields, Kept, HandleSame DEF Pcs
<1>8. CASE Use
  BY <1>0, <1>8, UseFields, Kept, HandleSame DEF HandleOK
<1>9. CASE Restart \/ ShutdownBrowser
  BY <1>0, <1>9, RestartFields, ShutdownFields, Kept, HandleSame DEF Pcs
<1>10. CASE ClearProfile
  <2>1. /\ h'.next = h.next /\ h'.spawn = h.spawn /\ h'.waited = h.waited /\ Shape'
        /\ h'.pc = "launch" /\ h'.path = 0
    BY <1>0, <1>10, ClearFields, Kept DEF SameBut, NoPid
  <2>2. h'.path \in 0 .. h'.spawn /\ h.spawn <= h'.spawn
    BY <1>0, <2>1
  <2>3. QED  BY <1>0, <2>1, <2>2, HandleFrom DEF HandleOK, Pcs
<1>11. CASE SendShutdown
  <2>1. h.pc = "close"
    BY <1>11 DEF SendShutdown
  <2>2. QED  BY <1>0, <1>11, <2>1, SendFields, Kept, HandleSame DEF HandleOK, Pcs
<1>12. CASE AwaitClose
  <2>1. h.pc = "closing"
    BY <1>12 DEF AwaitClose
  <2>2. QED  BY <1>0, <1>12, <2>1, AwaitFields, Kept, HandleSame DEF HandleOK, Pcs
<1>13. CASE Kill
  <2>1. h.pc = "kill"
    BY <1>13 DEF Kill
  <2>2. QED  BY <1>0, <1>13, <2>1, KillFields, Kept, HandleSame DEF HandleOK, Pcs
<1>14. CASE Tick
  <2>1. /\ h'.pc = h.pc /\ h'.spawn = h.spawn /\ h'.path = h.path /\ h'.after = h.after
        /\ h'.next = h.next /\ Shape'
    BY <1>0, <1>14, TickFields, Kept DEF SameBut
  <2>2. h'.waited \in 0 .. SpawnTimeout
    BY <1>0, <1>14, TickFields
  <2>3. QED  BY <1>0, <2>1, <2>2, HandleFrom DEF HandleOK
<1>15. CASE WatchdogScans \/ WatchdogReaps
  BY <1>1, <1>15 DEF WatchdogScans, WatchdogReaps
<1>16. CASE \E n \in Spawns : ProcessNext(n)
  BY <1>1, <1>16, ProcessEffect
<1>17. CASE Forced
  BY <1>1, <1>17, ForceEffect
<1>18. QED
  BY <1>2, <1>3, <1>4, <1>5, <1>6, <1>7, <1>8, <1>9, <1>10, <1>11, <1>12, <1>13, <1>14, <1>15,
     <1>16, <1>17 DEF Next, HandleNext, Forced

LEMMA TypesInit == Init => TypeOK
<1> SUFFICES ASSUME Init PROVE TypeOK
  OBVIOUS
<1>1. PICK seedTar \in BOOLEAN :
        h = [pc |-> "launch", after |-> "none", next |-> 1, spawn |-> 0, tries |-> 0,
             waited |-> 0, path |-> NoPid, seen |-> FALSE, tempdir |-> NoPid,
             recovery |-> NoPid, gecko |-> NoPid, display |-> NoPid, fresh |-> TRUE,
             seedTar |-> seedTar, launched |-> FALSE]
  BY DEF Init
<1>2. Shape
  BY <1>1 DEF Shape, Fields
<1>3. h.pc = "launch" /\ h.next = 1 /\ h.spawn = 0 /\ h.waited = 0 /\ h.path = 0
  BY <1>1 DEF NoPid
<1>4. HandleOK
  BY <1>2, <1>3, LaunchAssumption DEF HandleOK, Shape, Pcs
<1>5. ProcessesOK
  BY <1>3 DEF Init, ProcessesOK, Stages, Ages
<1>6. QED  BY <1>4, <1>5 DEF TypeOK

LEMMA AgesStep ==
    ASSUME TypeOK, LiveOK, QueueOK, [Next]_vars
    PROVE  Ages(geckos, h.spawn)' /\ Ages(displays, h.spawn)'
<1> DEFINE top == h.spawn
<1>0. top \in Nat /\ Ages(geckos, top) /\ Ages(displays, top) /\ h'.spawn \in Nat /\ top <= h'.spawn
  BY HandleStep DEF TypeOK, ProcessesOK, HandleOK
<1>1. Ages(geckos', top)
  <2>1. CASE geckos' = geckos
    BY <1>0, <2>1
  <2>2. ASSUME NEW S, geckos' = Drop(geckos, S) PROVE Ages(geckos', top)
    BY <1>0, <2>2, DropAges
  <2>3. CASE Tick
    BY <1>0, <2>3, OlderAges DEF Tick
  <2>4. ASSUME NEW n \in Spawns, StartWebdriver(n) PROVE Ages(geckos', top)
    <3>0. ProcessNext(n)
      BY <2>4 DEF ProcessNext
    <3>a. n = top
      BY <3>0, ProcessEffect
    <3>1. n \in 1 .. top
      BY <1>0, <3>a DEF Spawns
    <3>2. QED  BY <1>0, <2>4, <3>1, WithAges DEF StartWebdriver
  <2>5. CASE Forced
    BY <2>1, <2>2, <2>5, ForceEffect
  <2>6. QED
    BY <2>1, <2>2, <2>3, <2>4, <2>5
       DEF Forced, Next, HandleNext, ProcessNext, Launch, Spawn, ReadStatus, SpawnTimesOut, DiscardProfile,
           Use, Restart, ClearProfile, ShutdownBrowser, ArchiveProfile, SendShutdown, AwaitClose,
           Kill, KillProcesses, CreateProfile, LoadProfile, StartDisplay, AttemptLaunch,
           InstallExtension, ConnectExtension, BecomeReady, ProcessFails, TakeShutdown, EndProcess,
           WatchdogScans, WatchdogReaps, vars, children
<1>2. Ages(displays', top)
  <2>1. CASE displays' = displays
    BY <1>0, <2>1
  <2>2. ASSUME NEW S, displays' = Drop(displays, S) PROVE Ages(displays', top)
    BY <1>0, <2>2, DropAges
  <2>3. CASE Tick
    BY <1>0, <2>3, OlderAges DEF Tick
  <2>4. ASSUME NEW n \in Spawns, StartDisplay(n) PROVE Ages(displays', top)
    <3>0. ProcessNext(n)
      BY <2>4 DEF ProcessNext
    <3>a. n = top
      BY <3>0, ProcessEffect
    <3>1. n \in 1 .. top
      BY <1>0, <3>a DEF Spawns
    <3>2. displays' = displays \/ displays' = With(displays, n, 0)
      BY <2>4 DEF StartDisplay
    <3>3. Ages(With(displays, n, 0), top)
      BY <1>0, <3>1, WithAges
    <3>4. QED  BY <1>0, <3>2, <3>3
  <2>5. CASE Forced
    BY <2>1, <2>2, <2>5, ForceEffect
  <2>6. QED
    BY <2>1, <2>2, <2>3, <2>4, <2>5
       DEF Forced, Next, HandleNext, ProcessNext, Launch, Spawn, ReadStatus, SpawnTimesOut, DiscardProfile,
           Use, Restart, ClearProfile, ShutdownBrowser, ArchiveProfile, SendShutdown, AwaitClose,
           Kill, KillProcesses, CreateProfile, LoadProfile, StartWebdriver, AttemptLaunch,
           InstallExtension, ConnectExtension, BecomeReady, ProcessFails, TakeShutdown, EndProcess,
           WatchdogScans, WatchdogReaps, vars, children
<1> HIDE DEF top
<1>3. Ages(geckos', h'.spawn) /\ Ages(displays', h'.spawn)
  BY <1>0, <1>1, <1>2, AgesUpTo
<1>4. QED  BY <1>3 DEF Ages

LEMMA TypesStep == ASSUME TypeOK, LiveOK, QueueOK, [Next]_vars PROVE TypeOK'
<1>1. HandleOK' /\ Ages(geckos, h.spawn)' /\ Ages(displays, h.spawn)'
  BY HandleStep, AgesStep
<1>2. /\ stage \in [Spawns -> Stages] /\ queue \in Seq(Texts)
      /\ content = [n \in Spawns |-> content[n]]
  BY DEF TypeOK, ProcessesOK
<1>3. content' = [n \in Spawns |-> content'[n]]
  <2>1. CASE content' = content
    BY <1>2, <2>1
  <2>2. ASSUME NEW n, NEW e, content' = [content EXCEPT ![n] = e] PROVE content' = [m \in Spawns |-> content'[m]]
    BY <1>2, <2>2
  <2>3. CASE Use
    BY <2>2, <2>3 DEF Use
  <2>4. ASSUME NEW n \in Spawns, LoadProfile(n) PROVE content' = [m \in Spawns |-> content'[m]]
    BY <2>2, <2>4 DEF LoadProfile
  <2>5. CASE Forced
    BY <2>1, <2>5, ForceEffect
  <2>6. QED
    BY <2>1, <2>3, <2>4, <2>5
       DEF Forced, Next, HandleNext, ProcessNext, Launch, Spawn, ReadStatus, SpawnTimesOut, DiscardProfile,
           Restart, ClearProfile, ShutdownBrowser, ArchiveProfile, SendShutdown, AwaitClose,
           Kill, CreateProfile, StartDisplay, StartWebdriver, AttemptLaunch,
           InstallExtension, ConnectExtension, BecomeReady, ProcessFails, TakeShutdown, EndProcess,
           Tick, WatchdogScans, WatchdogReaps, vars, profiles
<1>4. stage' \in [Spawns -> Stages] /\ queue' \in Seq(Texts)
  <2>1. ASSUME stage' = stage \/ \E n \in Spawns, to \in {"boot", "gone"} : stage' = [stage EXCEPT ![n] = to],
               \/ queue' = queue \/ queue' = <<>> \/ (queue # <<>> /\ queue' = Tail(queue))
        PROVE  stage' \in [Spawns -> Stages] /\ queue' \in Seq(Texts)
    <3>1. stage' \in [Spawns -> Stages]
      BY <1>2, <2>1 DEF Stages
    <3>2. queue' \in Seq(Texts)
      <4>1. CASE queue # <<>> /\ queue' = Tail(queue)
        BY <4>1, TakenFromQueue
      <4>2. <<>> \in Seq(Texts)
        OBVIOUS
      <4>3. QED  BY <1>2, <2>1, <4>1, <4>2
    <3>3. QED  BY <3>1, <3>2
  <2>2. CASE \E n \in Spawns : ProcessNext(n)
    BY <2>2, ProcessEffect, MoveEffect DEF WellMoved, WellAdded
  <2>3. CASE Spawn
    <3>1. h.spawn < MaxSpawns => h.spawn + 1 \in Spawns
      BY LaunchAssumption DEF TypeOK, HandleOK, Spawns
    <3>2. QED  BY <2>1, <2>3, <3>1, ShapeOK, SpawnFields DEF TypeOK
  <2>4. CASE Kill
    <3>1. stage' = [stage EXCEPT ![h.spawn] = "gone"] /\ queue' = queue
      BY <2>4 DEF Kill, KillProcesses
    <3>2. stage' \in [Spawns -> Stages]
      BY <1>2, <3>1 DEF Stages
    <3>3. QED  BY <1>2, <3>1, <3>2
  <2>5. CASE ReadStatus \/ AwaitClose
    <3>1. stage' = stage /\ (queue' = queue \/ queue' = <<>> \/ (queue # <<>> /\ queue' = Tail(queue)))
      BY <2>5 DEF ReadStatus, AwaitClose
    <3>2. QED  BY <2>1, <3>1
  <2>6. CASE UNCHANGED <<stage, queue>>
    BY <2>1, <2>6
  <2>7. CASE Forced
    <3>1. queue' = queue /\ (stage' = stage \/ stage' = [stage EXCEPT ![h.spawn] = "gone"])
      BY <2>7, ForceEffect
    <3>2. stage' \in [Spawns -> Stages]
      BY <1>2, <3>1 DEF Stages
    <3>3. QED  BY <1>2, <3>1, <3>2
  <2>8. QED
    BY <2>2, <2>3, <2>4, <2>5, <2>6, <2>7
       DEF Forced, Next, HandleNext, Launch, SpawnTimesOut, DiscardProfile, Use,
           Restart, ClearProfile, ShutdownBrowser, ArchiveProfile, SendShutdown, Tick,
           WatchdogScans, WatchdogReaps, vars
<1>5. QED  BY <1>1, <1>3, <1>4 DEF TypeOK, ProcessesOK, Ages

-----------------------------------------------------------------------------
(* Who is alive.                                                           *)
LEMMA LiveFrom ==
    ASSUME LiveOK, stage' = stage, h'.spawn = h.spawn,
           h.spawn # 0 /\ ~Dead(h.spawn) => h'.pc \in {"await", "idle"} \/ Closing',
           h.spawn # 0 /\ ~InLaunch' => stage[h.spawn] \in {"serving", "ending", "gone"}
    PROVE  LiveOK'
<1>1. \A n \in Spawns : n # 0
  BY DEF Spawns
<1>2. QED  BY <1>1 DEF LiveOK, Dead

(* Where the handle is not with a browser manager, none is alive.          *)
LEMMA NoneAlive ==
    ASSUME LiveOK, h.pc \notin {"await", "idle"}, ~Closing
    PROVE  \A n \in Spawns : Dead(n)
  BY DEF LiveOK

LEMMA LastSpawn == ASSUME TypeOK PROVE h.spawn # 0 => h.spawn \in Spawns
  BY LaunchAssumption DEF TypeOK, HandleOK, Spawns

LEMMA InitLive == ASSUME TypeOK, Init PROVE LiveOK
<1>1. h.spawn = 0
  BY DEF Init
<1>2. \A n \in Spawns : stage[n] = "none"
  BY DEF Init
<1>3. QED  BY <1>1, <1>2 DEF LiveOK, Dead

(* A browser manager that reported READY serves, or has failed since.      *)
LEMMA ReadyServes ==
    ASSUME TypeOK, QueueOK, h.pc = "await", queue # <<>>, h.next = 6
    PROVE  stage[h.spawn] \in {"serving", "gone"}
<1>1. CASE stage[h.spawn] # "gone"
  <2>1. Len(queue) = Reported(stage[h.spawn]) + 1 - 6 /\ stage[h.spawn] \notin {"none", "ending"}
    BY <1>1 DEF QueueOK
  <2>2. Len(queue) \in Nat /\ Len(queue) # 0
    BY DEF TypeOK, ProcessesOK
  <2>3. Reported(stage[h.spawn]) \in 0 .. 6
    BY DEF Reported
  <2>4. Reported(stage[h.spawn]) = 6
    BY <2>1, <2>2, <2>3
  <2>5. stage[h.spawn] \in Stages
    BY LastSpawn DEF QueueOK, TypeOK, ProcessesOK
  <2>6. QED  BY <1>1, <2>1, <2>4, <2>5 DEF Reported, Stages
<1>2. QED  BY <1>1

LEMMA LiveStep == ASSUME TypeOK, LiveOK, QueueOK, [Next]_vars PROVE LiveOK'
<1>0. Shape /\ HandleOK /\ h.spawn \in 0 .. MaxSpawns /\ stage \in [Spawns -> Stages]
  BY ShapeOK DEF TypeOK, HandleOK, ProcessesOK
<1>a. h.spawn # 0 /\ ~InLaunch => stage[h.spawn] \in {"serving", "ending", "gone"}
  BY DEF LiveOK
<1>b. h.spawn # 0 /\ Dead(h.spawn) => stage[h.spawn] = "gone"
  BY DEF LiveOK, Dead
<1>c. h.spawn # 0 /\ ~Dead(h.spawn) => h.pc \in {"await", "idle"} \/ Closing
  BY LastSpawn DEF LiveOK
<1>1. ASSUME stage' = stage, h'.pc = h.pc, h'.after = h.after, h'.spawn = h.spawn PROVE LiveOK'
  BY <1>1 DEF LiveOK, Dead, InLaunch, Closing
<1>2. CASE UNCHANGED vars
  BY <1>1, <1>2 DEF vars
<1>3. CASE Launch \/ ClearProfile \/ ArchiveProfile
  <2>1. h.pc \in {"launch", "clear", "archive"} /\ stage' = stage
    BY <1>3 DEF Launch, ClearProfile, ArchiveProfile
  <2>2. h'.spawn = h.spawn
    BY <1>0, <1>3, LaunchFields, ClearFields, ArchiveFields, Kept
  <2>3. ~InLaunch /\ ~Closing
    BY <2>1 DEF InLaunch, Closing
  <2>4. QED  BY <1>a, <1>c, <2>1, <2>2, <2>3, LiveFrom
<1>4. CASE Spawn
  <2>1. h.pc = "spawn" /\ ~Closing
    BY <1>4 DEF Spawn, Closing
  <2>2. \A n \in Spawns : Dead(n)
    BY <2>1, NoneAlive
  <2>3. CASE /\ h.spawn < MaxSpawns /\ h'.pc = "await" /\ h'.spawn = h.spawn + 1
             /\ stage' = [stage EXCEPT ![h.spawn + 1] = "boot"]
    <3>1. h'.spawn \in Spawns
      BY <1>0, <2>3, LaunchAssumption DEF Spawns
    <3>2. stage'[h'.spawn] = "boot" /\ \A n \in Spawns \ {h'.spawn} : stage'[n] = stage[n]
      BY <1>0, <2>3, <3>1
    <3>3. InLaunch'
      BY <2>3 DEF InLaunch
    <3>4. QED  BY <2>2, <2>3, <3>2, <3>3 DEF LiveOK, Dead
  <2>4. CASE h'.pc = "gaveUp" /\ SameBut({"pc"}) /\ stage' = stage
    <3>1. h'.spawn = h.spawn
      BY <2>4, Kept
    <3>2. h.spawn # 0 => stage[h.spawn] = "gone"
      BY <1>b, <2>2, LastSpawn
    <3>3. QED  BY <2>4, <3>1, <3>2, LiveFrom DEF Dead
  <2>5. QED  BY <1>0, <1>4, <2>3, <2>4, SpawnFields
<1>5. CASE ReadStatus
  <2>0. h.pc = "await" /\ queue # <<>> /\ stage' = stage
    BY <1>5, ReadEffect
  <2>1. CASE (Refused(Head(queue)) \/ Failed) /\ stage[h.spawn] = "gone"
    <3>1. h'.spawn = h.spawn
      BY <2>1, Kept DEF Refused, Failed
    <3>2. QED  BY <2>0, <2>1, <3>1, LiveFrom DEF Dead
  <2>2. CASE MovedOn(Head(queue))
    BY <1>1, <2>0, <2>2, Kept DEF MovedOn
  <2>3. CASE Succeeded(Head(queue))
    <3>0. h'.pc = "idle" /\ h.next = 6 /\ SameBut({"pc", "path", "tempdir", "waited", "launched"})
      BY <2>3, Zenon DEF Succeeded
    <3>1. h'.spawn = h.spawn /\ h'.pc = "idle" /\ h.next = 6
      BY <3>0, Kept
    <3>2. stage[h.spawn] \in {"serving", "gone"}
      BY <2>0, <3>1, ReadyServes
    <3>3. QED  BY <2>0, <3>1, <3>2, LiveFrom
  <2>4. QED  BY <1>5, <2>1, <2>2, <2>3, ReadEffect
<1>6. CASE SpawnTimesOut
  <2>1. Failed /\ stage' = stage
    BY <1>0, <1>6, TimeOutFields DEF SpawnTimesOut
  <2>2. h'.pc = "close" /\ h'.after = "discard" /\ h'.spawn = h.spawn
    BY <2>1, Kept DEF Failed
  <2>3. QED  BY <2>1, <2>2, LiveFrom DEF Closing, InLaunch
<1>7. CASE DiscardProfile
  <2>1. h.pc = "discard" /\ h'.pc = "spawn" /\ h'.spawn = h.spawn /\ stage' = stage
    BY <1>0, <1>7, DiscardFields, Kept DEF DiscardProfile
  <2>2. QED  BY <1>c, <2>1, LiveFrom DEF Closing, InLaunch
<1>8. CASE Use
  BY <1>0, <1>1, <1>8, UseFields, Kept DEF Use
<1>9. CASE Restart \/ ShutdownBrowser
  <2>1. /\ h.pc \in {"idle", "raised", "gaveUp"} /\ stage' = stage /\ h'.spawn = h.spawn
        /\ h'.pc = "close" /\ h'.after \in {"clear", "launch", "archive"}
    <3>1. CASE Restart
      <4>1. (h.pc = "idle" \/ h.pc = "raised") /\ UNCHANGED stage
        BY <3>1, Zenon DEF Restart
      <4>2. QED  BY <1>0, <3>1, <4>1, RestartFields, Kept
    <3>2. CASE ShutdownBrowser
      BY <1>0, <3>2, ShutdownFields, Kept DEF ShutdownBrowser
    <3>3. QED  BY <1>9, <3>1, <3>2
  <2>2. QED  BY <1>a, <2>1, LiveFrom DEF Closing, InLaunch
<1>10. CASE SendShutdown
  <2>1. /\ h.pc = "close" /\ h'.pc = "closing" /\ stage' = stage /\ h'.spawn = h.spawn
        /\ h'.after = h.after
    BY <1>0, <1>10, SendFields, Kept DEF SendShutdown
  <2>2. QED  BY <1>a, <2>1, LiveFrom DEF Closing, InLaunch
<1>11. CASE AwaitClose
  <2>1. h.pc = "closing" /\ stage' = stage /\ h'.spawn = h.spawn /\ h'.after = h.after
    BY <1>0, <1>11, AwaitFields, Kept DEF AwaitClose
  <2>2. CASE h'.pc = "kill"
    BY <1>a, <2>1, <2>2, LiveFrom DEF Closing, InLaunch
  <2>3. CASE stage[h.spawn] = "gone"
    BY <2>1, <2>3, LiveFrom DEF Dead
  <2>4. QED  BY <1>0, <1>11, <2>2, <2>3, AwaitFields
<1>12. CASE Kill
  <2>1. stage' = [stage EXCEPT ![h.spawn] = "gone"] /\ h'.spawn = h.spawn
    BY <1>0, <1>12, KillFields, Kept DEF Kill, KillProcesses
  <2>2. h.spawn \in Spawns => stage'[h.spawn] = "gone"
    BY <1>0, <2>1
  <2>3. \A n \in Spawns \ {h.spawn} : stage'[n] = stage[n] /\ Dead(n)
    BY <1>0, <2>1 DEF LiveOK
  <2>4. QED  BY <2>1, <2>2, <2>3, LastSpawn DEF LiveOK, Dead
<1>13. CASE Tick
  BY <1>0, <1>1, <1>13, TickFields, Kept DEF Tick
<1>14. CASE WatchdogScans \/ WatchdogReaps
  BY <1>1, <1>14 DEF WatchdogScans, WatchdogReaps
<1>15. CASE \E n \in Spawns : ProcessNext(n)
  <2>1. PICK n \in Spawns : ProcessNext(n)
    BY <1>15
  <2>2. n = h.spawn /\ h' = h /\ WellMoved(n)
    BY <2>1, ProcessEffect, MoveEffect
  <2>3. stage'[n] # "none" /\ \A m \in Spawns \ {n} : stage'[m] = stage[m]
    BY <2>2 DEF WellMoved
  <2>4. stage[n] \in {"serving", "ending", "gone"} => stage'[n] \in {"serving", "ending", "gone"}
    BY <2>2 DEF WellMoved
  <2>5. h.pc \in {"await", "idle"} \/ Closing
    BY <2>1, ProcessEffect
  <2>6. QED  BY <1>a, <2>2, <2>3, <2>4, <2>5 DEF LiveOK, Dead, InLaunch, Closing
<1>16. CASE Forced
  <2>1. CASE stage' = stage
    BY <1>1, <1>16, <2>1, ForceEffect
  <2>2. CASE h.spawn # 0 /\ stage' = [stage EXCEPT ![h.spawn] = "gone"]
    <3>1. h' = h /\ h.spawn \in Spawns
      BY <1>16, <2>2, ForceEffect, LastSpawn
    <3>2. stage'[h.spawn] = "gone" /\ \A n \in Spawns \ {h.spawn} : stage'[n] = stage[n] /\ Dead(n)
      BY <1>0, <2>2, <3>1 DEF LiveOK
    <3>3. QED  BY <3>1, <3>2 DEF LiveOK, Dead
  <2>3. QED  BY <1>16, <2>1, <2>2, ForceEffect
<1>17. QED
  BY <1>2, <1>3, <1>4, <1>5, <1>6, <1>7, <1>8, <1>9, <1>10, <1>11, <1>12, <1>13, <1>14, <1>15,
     <1>16 DEF Forced, Next, HandleNext

-----------------------------------------------------------------------------
(* What is in the queue.                                                   *)
LEMMA QueueSame ==
    ASSUME QueueOK, UNCHANGED <<queue, signalled, stage>>,
           h'.pc = "await" => h.pc = "await" /\ h'.next = h.next /\ h'.spawn = h.spawn
    PROVE  QueueOK'
  BY DEF QueueOK, Expected

(* Where the handle waits for messages after the step.                     *)
LEMMA AwaitAfter ==
    ASSUME TypeOK, LiveOK, QueueOK, [Next]_vars, h'.pc = "await"
    PROVE  \/ Spawn /\ queue' = <<>> /\ signalled' = FALSE /\ h'.next = 1 /\ h'.waited = 0
              /\ h.spawn < MaxSpawns /\ h'.spawn = h.spawn + 1
              /\ stage' = [stage EXCEPT ![h.spawn + 1] = "boot"]
           \/ ReadStatus /\ MovedOn(Head(queue)) /\ Head(queue) = Messages[h.next]
           \/ Tick \/ WatchdogScans \/ WatchdogReaps
           \/ \E n \in Spawns : ProcessNext(n)
           \/ Forced \/ UNCHANGED vars
<1>0. Shape /\ HandleOK
  BY ShapeOK DEF TypeOK
<1>1. ~Launch
  BY <1>0, LaunchFields
<1>2. ~SpawnTimesOut /\ ~DiscardProfile /\ ~ClearProfile
  BY <1>0, TimeOutFields, DiscardFields, ClearFields DEF Failed
<1>3. ~Restart /\ ~ShutdownBrowser /\ ~ArchiveProfile /\ ~SendShutdown
  BY <1>0, RestartFields, ShutdownFields, ArchiveFields, SendFields
<1>4. ~Use
  BY <1>0, UseFields, Kept DEF Use
<1>5. ~AwaitClose
  <2>1. h.pc = "closing" => h.after # "await"
    BY <1>0 DEF HandleOK
  <2>2. QED  BY <1>0, <2>1, AwaitFields DEF AwaitClose
<1>6. ~Kill
  <2>1. h.pc = "kill" => h.after # "await"
    BY <1>0 DEF HandleOK
  <2>2. QED  BY <1>0, <2>1, KillFields DEF Kill
<1>7. Spawn => /\ queue' = <<>> /\ signalled' = FALSE /\ h'.next = 1 /\ h'.waited = 0
               /\ h.spawn < MaxSpawns /\ h'.spawn = h.spawn + 1
               /\ stage' = [stage EXCEPT ![h.spawn + 1] = "boot"]
  BY <1>0, SpawnFields
<1>8. ReadStatus => MovedOn(Head(queue)) /\ Head(queue) = Messages[h.next]
  BY ReadEffect DEF Refused, Failed, Succeeded
<1>9. QED
  BY <1>1, <1>2, <1>3, <1>4, <1>5, <1>6, <1>7, <1>8 DEF Forced, Next, HandleNext

(* A message that the browser manager reports is the next one.             *)
NextReported(n) ==
    \E message \in Texts : /\ queue' = Append(queue, message) /\ message # "OK"
                           /\ Reported(stage[n]) \in 0 .. 5
                           /\ message = Messages[Reported(stage[n]) + 1]
                           /\ Reported(stage'[n]) = Reported(stage[n]) + 1
                           /\ stage'[n] \notin {"none", "ending", "gone"}

LEMMA ReportIsNext == ASSUME TypeOK, NEW n \in Spawns, Reports(n) PROVE NextReported(n)
<1>0. stage \in [Spawns -> Stages]
  BY DEF TypeOK, ProcessesOK
<1>1. ASSUME NEW from, NEW to, NEW message, Moves(n, from, to, <<message>>),
             message \in Texts, message # "OK", Reported(from) \in 0 .. 5,
             Reported(to) = Reported(from) + 1, message = Messages[Reported(from) + 1],
             to \notin {"none", "ending", "gone"}
      PROVE  NextReported(n)
  <2>1. queue' = Append(queue, message)
    BY <1>1, OneAdded DEF Moves
  <2>2. stage[n] = from /\ stage'[n] = to
    BY <1>0, <1>1 DEF Moves
  <2>3. QED  BY <1>1, <2>1, <2>2, Zenon DEF NextReported
<1>2. /\ Reported("boot") = 0 /\ Reported("created") = 1 /\ Reported("loaded") = 2
      /\ Reported("displayed") = 3 /\ Reported("attempted") = 4 /\ Reported("spawned") = 4
      /\ Reported("launched") = 5 /\ Reported("connected") = 5 /\ Reported("serving") = 6
  BY DEF Reported
<1>3. CASE Moves(n, "boot", "created", <<"Profile Created">>)
  <2>1. Reported("boot") \in 0 .. 5 /\ Reported("created") = Reported("boot") + 1
    BY <1>2
  <2>2. "Profile Created" = Messages[Reported("boot") + 1]
    <3>1. Reported("boot") + 1 = 1
      BY <1>2
    <3>2. QED  BY <3>1, MessageTexts, Zenon
  <2>3. /\ "Profile Created" \in Texts /\ "Profile Created" # "OK"
        /\ "created" \notin {"none", "ending", "gone"}
    BY DEF Texts
  <2>4. QED  BY <1>1, <1>3, <2>1, <2>2, <2>3, Zenon
<1>4. CASE Moves(n, "created", "loaded", <<"Profile Tar">>)
  <2>1. Reported("created") \in 0 .. 5 /\ Reported("loaded") = Reported("created") + 1
    BY <1>2
  <2>2. "Profile Tar" = Messages[Reported("created") + 1]
    <3>1. Reported("created") + 1 = 2
      BY <1>2
    <3>2. QED  BY <3>1, MessageTexts, Zenon
  <2>3. /\ "Profile Tar" \in Texts /\ "Profile Tar" # "OK"
        /\ "loaded" \notin {"none", "ending", "gone"}
    BY DEF Texts
  <2>4. QED  BY <1>1, <1>4, <2>1, <2>2, <2>3, Zenon
<1>5. CASE Moves(n, "loaded", "displayed", <<"Display">>)
  <2>1. Reported("loaded") \in 0 .. 5 /\ Reported("displayed") = Reported("loaded") + 1
    BY <1>2
  <2>2. "Display" = Messages[Reported("loaded") + 1]
    <3>1. Reported("loaded") + 1 = 3
      BY <1>2
    <3>2. QED  BY <3>1, MessageTexts, Zenon
  <2>3. /\ "Display" \in Texts /\ "Display" # "OK"
        /\ "displayed" \notin {"none", "ending", "gone"}
    BY DEF Texts
  <2>4. QED  BY <1>1, <1>5, <2>1, <2>2, <2>3, Zenon
<1>6. CASE Moves(n, "displayed", "attempted", <<"Launch Attempted">>)
  <2>1. Reported("displayed") \in 0 .. 5 /\ Reported("attempted") = Reported("displayed") + 1
    BY <1>2
  <2>2. "Launch Attempted" = Messages[Reported("displayed") + 1]
    <3>1. Reported("displayed") + 1 = 4
      BY <1>2
    <3>2. QED  BY <3>1, MessageTexts, Zenon
  <2>3. /\ "Launch Attempted" \in Texts /\ "Launch Attempted" # "OK"
        /\ "attempted" \notin {"none", "ending", "gone"}
    BY DEF Texts
  <2>4. QED  BY <1>1, <1>6, <2>1, <2>2, <2>3, Zenon
<1>7. CASE Moves(n, "spawned", "launched", <<"Browser Launched">>)
  <2>1. Reported("spawned") \in 0 .. 5 /\ Reported("launched") = Reported("spawned") + 1
    BY <1>2
  <2>2. "Browser Launched" = Messages[Reported("spawned") + 1]
    <3>1. Reported("spawned") + 1 = 5
      BY <1>2
    <3>2. QED  BY <3>1, MessageTexts, Zenon
  <2>3. /\ "Browser Launched" \in Texts /\ "Browser Launched" # "OK"
        /\ "launched" \notin {"none", "ending", "gone"}
    BY DEF Texts
  <2>4. QED  BY <1>1, <1>7, <2>1, <2>2, <2>3, Zenon
<1>8. CASE Moves(n, "connected", "serving", <<"Browser Ready">>)
  <2>1. Reported("connected") \in 0 .. 5 /\ Reported("serving") = Reported("connected") + 1
    BY <1>2
  <2>2. "Browser Ready" = Messages[Reported("connected") + 1]
    <3>1. Reported("connected") + 1 = 6
      BY <1>2
    <3>2. QED  BY <3>1, MessageTexts, Zenon
  <2>3. /\ "Browser Ready" \in Texts /\ "Browser Ready" # "OK"
        /\ "serving" \notin {"none", "ending", "gone"}
    BY DEF Texts
  <2>4. QED  BY <1>1, <1>8, <2>1, <2>2, <2>3, Zenon
<1>9. QED  BY <1>3, <1>4, <1>5, <1>6, <1>7, <1>8 DEF Reports

LEMMA SilentKeeps ==
    ASSUME TypeOK, NEW n \in Spawns, Silent(n)
    PROVE  /\ queue' = queue /\ Reported(stage'[n]) = Reported(stage[n])
           /\ stage'[n] \notin {"none", "ending", "gone"} /\ stage[n] \notin {"ending", "gone"}
<1>0. stage \in [Spawns -> Stages]
  BY DEF TypeOK, ProcessesOK
<1>1. queue' = queue
  BY NoneAdded DEF Silent, Moves
<1>2. \/ stage[n] = "attempted" /\ stage'[n] = "spawned"
      \/ stage[n] = "launched" /\ stage'[n] = "connected"
  BY <1>0 DEF Silent, Moves
<1>3. QED  BY <1>1, <1>2 DEF Reported

LEMMA FailureIsAdded ==
    ASSUME TypeOK, NEW n \in Spawns, Fails(n)
    PROVE  /\ stage'[n] = "gone"
           /\ \E message \in {"FAILED", "CRITICAL"} : queue' = Append(queue, message)
<1>0. stage \in [Spawns -> Stages]
  BY DEF TypeOK, ProcessesOK
<1>1. stage'[n] = "gone" /\ \/ queue' = queue \o <<"FAILED">>
                            \/ queue' = queue \o <<"CRITICAL">>
  BY <1>0 DEF Fails, Moves
<1>2. QED  BY <1>1, OneAdded DEF Texts

(* An element of the queue after one was added.                            *)
LEMMA AppendedTo ==
    ASSUME TypeOK, NEW message \in Texts, queue' = Append(queue, message)
    PROVE  /\ Len(queue) \in Nat /\ Len(queue') = Len(queue) + 1
           /\ \A i \in DOMAIN queue' : \/ i \in DOMAIN queue /\ queue'[i] = queue[i]
                                       \/ i = Len(queue) + 1 /\ queue'[i] = message
           /\ \A i \in DOMAIN queue : i \in DOMAIN queue' /\ queue'[i] = queue[i]
  BY DEF TypeOK, ProcessesOK

LEMMA QueueStep == ASSUME TypeOK, LiveOK, QueueOK, [Next]_vars PROVE QueueOK'
<1> SUFFICES ASSUME h'.pc = "await" PROVE QueueOK'
  BY DEF QueueOK
<1>0. /\ Shape /\ HandleOK /\ h.next \in 1 .. 6 /\ h.spawn \in 0 .. MaxSpawns
      /\ stage \in [Spawns -> Stages]
  BY ShapeOK DEF TypeOK, HandleOK, ProcessesOK
<1>1. CASE /\ Spawn /\ queue' = <<>> /\ signalled' = FALSE /\ h'.next = 1
           /\ h.spawn < MaxSpawns /\ h'.spawn = h.spawn + 1
           /\ stage' = [stage EXCEPT ![h.spawn + 1] = "boot"]
  <2>1. h'.spawn \in Spawns /\ h'.spawn # 0
    BY <1>0, <1>1, LaunchAssumption DEF Spawns
  <2>2. stage'[h'.spawn] = "boot"
    BY <1>0, <1>1, <2>1
  <2>3. Len(queue') = 0 /\ DOMAIN queue' = {}
    BY <1>1
  <2>4. Reported(stage'[h'.spawn]) = 0
    BY <2>2 DEF Reported
  <2>5. Len(queue') = Reported(stage'[h'.spawn]) + 1 - h'.next
    BY <1>1, <2>3, <2>4
  <2>6. QED  BY <1>1, <2>1, <2>2, <2>3, <2>5 DEF QueueOK
<1>2. CASE ReadStatus /\ MovedOn(Head(queue))
  <2>1. h.pc = "await" /\ queue # <<>> /\ queue' = Tail(queue) /\ UNCHANGED <<signalled, stage>>
    BY <1>2, ReadEffect
  <2>2. h'.next = h.next + 1 /\ h'.spawn = h.spawn
    BY <1>2, Kept DEF MovedOn
  <2>3. Len(queue') = Len(queue) - 1 /\ Len(queue) \in Nat
    BY <2>1, TakenFromQueue DEF TypeOK, ProcessesOK
  <2>4. ASSUME NEW i \in DOMAIN queue' PROVE Expected(i)'
    <3>1. i + 1 \in DOMAIN queue /\ queue'[i] = queue[i + 1] /\ i \in Nat
      BY <2>1, TakenFromQueue
    <3>2. Expected(i + 1)
      BY <2>1, <3>1 DEF QueueOK
    <3>3. h.next + (i + 1) - 1 = h'.next + i - 1
      BY <1>0, <2>2, <3>1
    <3>4. i + 1 = Len(queue) => i = Len(queue')
      BY <2>3, <3>1
    <3>5. QED  BY <2>1, <2>2, <3>1, <3>2, <3>3, <3>4 DEF Expected
  <2>5. stage[h.spawn] # "gone" => Len(queue') = Reported(stage[h.spawn]) + 1 - h'.next
    <3>1. SUFFICES ASSUME stage[h.spawn] # "gone"
                   PROVE  Len(queue') = Reported(stage[h.spawn]) + 1 - h'.next
      OBVIOUS
    <3>2. Len(queue) = Reported(stage[h.spawn]) + 1 - h.next
      BY <2>1, <3>1 DEF QueueOK
    <3>3. Reported(stage[h.spawn]) \in 0 .. 6
      BY DEF Reported
    <3>4. QED  BY <1>0, <2>2, <2>3, <3>2, <3>3
  <2>6. QED  BY <2>1, <2>2, <2>4, <2>5 DEF QueueOK
<1>3. CASE Tick \/ WatchdogScans \/ WatchdogReaps \/ UNCHANGED vars
  <2>1. UNCHANGED <<queue, signalled, stage>>
    BY <1>3 DEF Tick, WatchdogScans, WatchdogReaps, vars
  <2>2. h'.pc = h.pc /\ h'.next = h.next /\ h'.spawn = h.spawn
    <3>1. CASE Tick
      BY <1>0, <3>1, TickFields, Kept
    <3>2. CASE ~Tick
      BY <1>3, <3>2 DEF WatchdogScans, WatchdogReaps, vars
    <3>3. QED  BY <3>1, <3>2
  <2>3. QED  BY <2>1, <2>2, QueueSame
<1>4. CASE \E n \in Spawns : ProcessNext(n)
  <2>1. PICK n \in Spawns : ProcessNext(n)
    BY <1>4
  <2>2. n = h.spawn /\ h' = h /\ h.pc = "await" /\ signalled' = signalled /\ ~Dead(n)
    BY <2>1, ProcessEffect
  <2>3. /\ signalled = FALSE /\ h.spawn # 0 /\ stage[h.spawn] \notin {"none", "ending", "gone"}
        /\ \A i \in DOMAIN queue : Expected(i)
        /\ Len(queue) = Reported(stage[h.spawn]) + 1 - h.next
    BY <2>2 DEF QueueOK, Dead
  <2>4. Silent(n) \/ Reports(n) \/ Fails(n)
    <3>1. ~Ends(n)
      BY <2>2, <2>3 DEF Ends, Moves
    <3>2. QED  BY <2>1, <2>3, <3>1, ProcessEffect
  <2>5. \A i \in DOMAIN queue : h.next + i - 1 <= 6 /\ queue[i] = Messages[h.next + i - 1]
    BY <2>3 DEF Expected
  <2>6. CASE Silent(n)
    <3>1. /\ queue' = queue /\ Reported(stage'[n]) = Reported(stage[n])
          /\ stage'[n] \notin {"none", "ending", "gone"}
      BY <2>6, SilentKeeps
    <3>2. \A i \in DOMAIN queue' : Expected(i)'
      BY <2>2, <2>5, <3>1 DEF Expected
    <3>3. QED  BY <2>2, <2>3, <3>1, <3>2 DEF QueueOK
  <2>7. CASE Reports(n)
    <3>1. PICK message \in Texts :
            /\ queue' = Append(queue, message) /\ Reported(stage[n]) \in 0 .. 5
            /\ message = Messages[Reported(stage[n]) + 1]
            /\ Reported(stage'[n]) = Reported(stage[n]) + 1
            /\ stage'[n] \notin {"none", "ending", "gone"}
      BY <2>7, ReportIsNext DEF NextReported
    <3>2. Len(queue') = Len(queue) + 1 /\ Len(queue) \in Nat
      BY <3>1, AppendedTo
    <3>3. h.next + (Len(queue) + 1) - 1 = Reported(stage[n]) + 1
      BY <1>0, <2>2, <2>3, <3>1, <3>2
    <3>4. h.next + (Len(queue) + 1) - 1 <= 6
      BY <3>1, <3>3
    <3>5. ASSUME NEW i \in DOMAIN queue' PROVE Expected(i)'
      <4>1. \/ i \in DOMAIN queue /\ queue'[i] = queue[i]
            \/ i = Len(queue) + 1 /\ queue'[i] = message
        BY <3>1, AppendedTo
      <4>2. h.next + i - 1 <= 6 /\ queue'[i] = Messages[h.next + i - 1]
        BY <2>5, <3>1, <3>3, <3>4, <4>1
      <4>3. QED  BY <2>2, <4>2 DEF Expected
    <3>6. Len(queue') = Reported(stage'[n]) + 1 - h.next
      BY <1>0, <2>2, <2>3, <3>1, <3>2
    <3>7. QED  BY <2>2, <2>3, <3>1, <3>5, <3>6 DEF QueueOK
  <2>8. CASE Fails(n)
    <3>1. PICK message \in {"FAILED", "CRITICAL"} : queue' = Append(queue, message)
      BY <2>8, FailureIsAdded
    <3>2. stage'[n] = "gone"
      BY <2>8, FailureIsAdded
    <3>3. message \in Texts
      BY DEF Texts
    <3>4. Len(queue') = Len(queue) + 1
      BY <3>1, <3>3, AppendedTo
    <3>5. ASSUME NEW i \in DOMAIN queue' PROVE Expected(i)'
      <4>1. \/ i \in DOMAIN queue /\ queue'[i] = queue[i]
            \/ i = Len(queue) + 1 /\ queue'[i] = message
        BY <3>1, <3>3, AppendedTo
      <4>2. QED  BY <2>2, <2>5, <3>2, <3>4, <4>1 DEF Expected
    <3>6. QED  BY <2>2, <2>3, <3>2, <3>5 DEF QueueOK
  <2>9. QED  BY <2>4, <2>6, <2>7, <2>8
<1>5. CASE Forced
  <2>1. h' = h /\ UNCHANGED <<queue, signalled>>
    BY <1>5, ForceEffect
  <2>2. CASE stage' = stage
    BY <2>1, <2>2, QueueSame
  <2>3. CASE h.spawn # 0 /\ stage' = [stage EXCEPT ![h.spawn] = "gone"]
    <3>1. stage'[h.spawn] = "gone"
      BY <2>3, LastSpawn DEF TypeOK, ProcessesOK
    <3>2. QED  BY <2>1, <3>1 DEF QueueOK, Expected
  <2>4. QED  BY <1>5, <2>2, <2>3, ForceEffect
<1>6. QED  BY <1>1, <1>2, <1>3, <1>4, <1>5, AwaitAfter

-----------------------------------------------------------------------------
(* What OK means.                                                          *)
(* A step that adds no geckodriver and no OK, and lets no browser manager  *)
(* of an earlier stage come back.                                          *)
LEMMA AnswerKept ==
    ASSUME AnswerOK, h'.spawn = h.spawn,
           \A i \in DOMAIN queue' : queue'[i] = "OK" => \E j \in DOMAIN queue : queue[j] = "OK",
           \/ DOMAIN geckos' \subseteq DOMAIN geckos
           \/ stage[h.spawn] \notin {"ending", "gone"},
           stage[h.spawn] \in {"ending", "gone"} => stage'[h.spawn] \in {"ending", "gone"}
    PROVE  AnswerOK'
  BY DEF AnswerOK

LEMMA AnswerStep == ASSUME TypeOK, LiveOK, AnswerOK, QueueOK, [Next]_vars PROVE AnswerOK'
<1>0. /\ Shape /\ HandleOK /\ h.spawn \in 0 .. MaxSpawns
      /\ stage \in [Spawns -> Stages]
  BY ShapeOK DEF TypeOK, HandleOK, ProcessesOK
<1>1. ASSUME UNCHANGED <<stage, geckos>>, h'.spawn = h.spawn,
             queue' = queue \/ queue' = <<>> \/ (queue # <<>> /\ queue' = Tail(queue))
      PROVE  AnswerOK'
  <2>1. ASSUME NEW i \in DOMAIN queue', queue'[i] = "OK"
        PROVE  \E j \in DOMAIN queue : queue[j] = "OK"
    <3>1. CASE queue' = queue
      BY <2>1, <3>1
    <3>2. CASE queue' = <<>>
      BY <2>1, <3>2
    <3>3. CASE queue # <<>> /\ queue' = Tail(queue)
      BY <2>1, <3>3, TakenFromQueue
    <3>4. QED  BY <1>1, <3>1, <3>2, <3>3
  <2>2. QED  BY <1>1, <2>1, AnswerKept
<1>2. CASE UNCHANGED vars
  BY <1>1, <1>2 DEF vars, children
<1>3. CASE Spawn
  <2>1. CASE queue' = <<>>
    <3>1. DOMAIN queue' = {}
      BY <2>1
    <3>2. QED  BY <3>1 DEF AnswerOK
  <2>2. CASE SameBut({"pc"}) /\ UNCHANGED <<queue, stage>>
    BY <1>1, <1>3, <2>2, Kept DEF Spawn, children
  <2>3. QED  BY <1>0, <1>3, <2>1, <2>2, SpawnFields
<1>4. CASE ReadStatus
  <2>1. queue # <<>> /\ queue' = Tail(queue) /\ UNCHANGED <<stage, geckos>>
    BY <1>4, ReadEffect DEF children
  <2>2. h'.spawn = h.spawn
    <3>1. CASE Refused(Head(queue)) \/ Failed
      BY <3>1, Kept DEF Refused, Failed
    <3>2. CASE MovedOn(Head(queue))
      BY <3>2, Kept DEF MovedOn
    <3>3. CASE Succeeded(Head(queue))
      <4>1. SameBut({"pc", "path", "tempdir", "waited", "launched"})
        BY <3>3, Zenon DEF Succeeded
      <4>2. QED  BY <4>1, Kept
    <3>4. QED  BY <1>4, <3>1, <3>2, <3>3, ReadEffect
  <2>3. QED  BY <1>1, <2>1, <2>2
<1>5. CASE Launch \/ ClearProfile \/ ArchiveProfile \/ DiscardProfile
  <2>1. h'.spawn = h.spawn
    BY <1>0, <1>5, LaunchFields, ClearFields, ArchiveFields, DiscardFields, Kept
  <2>2. UNCHANGED <<queue, stage, geckos>>
    BY <1>5 DEF Launch, ClearProfile, ArchiveProfile, DiscardProfile, children
  <2>3. QED  BY <1>1, <2>1, <2>2
<1>6. CASE Use \/ SendShutdown \/ SpawnTimesOut
  <2>1. h'.spawn = h.spawn
    BY <1>0, <1>6, UseFields, SendFields, TimeOutFields, Kept DEF Failed
  <2>2. UNCHANGED <<queue, stage, geckos>>
    BY <1>6 DEF Use, SendShutdown, SpawnTimesOut, children
  <2>3. QED  BY <1>1, <2>1, <2>2
<1>7. CASE Restart \/ ShutdownBrowser
  <2>1. h'.spawn = h.spawn
    BY <1>0, <1>7, RestartFields, ShutdownFields, Kept
  <2>2. UNCHANGED <<queue, stage, geckos>>
    BY <1>7, Zenon DEF Restart, ShutdownBrowser, children
  <2>3. QED  BY <1>1, <2>1, <2>2
<1>8. CASE AwaitClose
  <2>1. h'.spawn = h.spawn
    BY <1>0, <1>8, AwaitFields, Kept
  <2>2. queue' = queue \/ queue' = <<>> \/ (queue # <<>> /\ queue' = Tail(queue))
    BY <1>8 DEF AwaitClose
  <2>3. UNCHANGED <<stage, geckos>>
    BY <1>8 DEF AwaitClose, children
  <2>4. QED  BY <1>1, <2>1, <2>2, <2>3
<1>9. CASE Kill
  <2>1. h'.spawn = h.spawn /\ queue' = queue /\ stage' = [stage EXCEPT ![h.spawn] = "gone"]
    BY <1>0, <1>9, KillFields, Kept DEF Kill, KillProcesses
  <2>2. DOMAIN geckos' \subseteq DOMAIN geckos
    <3>1. geckos' = Drop(geckos, {h.gecko})
      BY <1>9 DEF Kill, KillProcesses
    <3>2. QED  BY <3>1 DEF Drop
  <2>3. h.spawn \in Spawns => stage'[h.spawn] = "gone"
    BY <1>0, <2>1
  <2>4. h.spawn \notin Spawns => stage' = stage
    BY <1>0, <2>1
  <2>5. QED  BY <2>1, <2>2, <2>3, <2>4, AnswerKept
<1>10. CASE Tick
  <2>1. h'.spawn = h.spawn
    BY <1>0, <1>10, TickFields, Kept
  <2>2. DOMAIN geckos' = DOMAIN geckos /\ UNCHANGED <<queue, stage>>
    BY <1>10 DEF Tick, Older
  <2>3. QED  BY <2>1, <2>2, AnswerKept
<1>11. CASE WatchdogScans
  BY <1>1, <1>11 DEF WatchdogScans, children
<1>12. CASE WatchdogReaps
  <2>1. h' = h /\ UNCHANGED <<queue, stage>>
    BY <1>12 DEF WatchdogReaps
  <2>2. DOMAIN geckos' \subseteq DOMAIN geckos
    <3>1. geckos' = Drop(geckos, scan.geckos)
      BY <1>12 DEF WatchdogReaps
    <3>2. QED  BY <3>1 DEF Drop
  <2>3. QED  BY <2>1, <2>2, AnswerKept
<1>13. CASE \E n \in Spawns : ProcessNext(n)
  <2>1. PICK n \in Spawns : ProcessNext(n)
    BY <1>13
  <2>2. n = h.spawn /\ h' = h /\ stage[n] \notin {"none", "gone"} /\ n # 0
    <3>1. n = h.spawn /\ h' = h /\ ~Dead(n)
      BY <2>1, ProcessEffect
    <3>2. QED  BY <3>1 DEF Dead, Spawns
  <2>3. CASE Silent(n) \/ Reports(n)
    <3>1. stage[n] \notin {"ending", "gone"}
      BY <2>3 DEF Silent, Reports, Moves
    <3>2. ASSUME NEW i \in DOMAIN queue', queue'[i] = "OK"
          PROVE  \E j \in DOMAIN queue : queue[j] = "OK"
      <4>1. CASE Silent(n)
        BY <3>2, <4>1, SilentKeeps
      <4>2. CASE Reports(n)
        <5>1. PICK message \in Texts : queue' = Append(queue, message) /\ message # "OK"
          BY <4>2, ReportIsNext DEF NextReported
        <5>2. QED  BY <3>2, <5>1, AppendedTo
      <4>3. QED  BY <2>3, <4>1, <4>2
    <3>3. QED  BY <2>2, <3>1, <3>2, AnswerKept
  <2>4. CASE Fails(n)
    <3>1. stage[n] \notin {"ending", "gone"}
      BY <2>4 DEF Fails
    <3>2. ASSUME NEW i \in DOMAIN queue', queue'[i] = "OK"
          PROVE  \E j \in DOMAIN queue : queue[j] = "OK"
      <4>1. PICK message \in {"FAILED", "CRITICAL"} : queue' = Append(queue, message)
        BY <2>4, FailureIsAdded
      <4>2. message \in Texts /\ message # "OK"
        BY DEF Texts
      <4>3. QED  BY <3>2, <4>1, <4>2, AppendedTo
    <3>3. QED  BY <2>2, <3>1, <3>2, AnswerKept
  <2>5. CASE Answers(n)
    <3>1. stage[n] = "serving" /\ stage'[n] = "ending"
      BY <1>0, <2>5 DEF Answers, Moves
    <3>2. TakeShutdown(n)
      BY <2>1, <3>1, <1>0
         DEF ProcessNext, CreateProfile, LoadProfile, StartDisplay, AttemptLaunch, StartWebdriver,
             InstallExtension, ConnectExtension, BecomeReady, ProcessFails, TakeShutdown,
             EndProcess, Advance
    <3>3. n \notin DOMAIN geckos'
      <4>1. geckos' = Drop(geckos, {n})
        BY <3>2 DEF TakeShutdown
      <4>2. QED  BY <4>1 DEF Drop
    <3>4. QED  BY <2>2, <3>1, <3>3 DEF AnswerOK
  <2>6. CASE Ends(n)
    <3>1. stage[n] = "ending" /\ stage'[n] = "gone" /\ queue' = queue
      BY <1>0, <2>6, NoneAdded DEF Ends, Moves
    <3>2. EndProcess(n)
      BY <2>1, <3>1, <1>0
         DEF ProcessNext, CreateProfile, LoadProfile, StartDisplay, AttemptLaunch, StartWebdriver,
             InstallExtension, ConnectExtension, BecomeReady, ProcessFails, TakeShutdown,
             EndProcess, Advance
    <3>3. geckos' = geckos
      BY <3>2 DEF EndProcess
    <3>4. QED  BY <2>2, <3>1, <3>3, AnswerKept
  <2>7. QED  BY <2>1, <2>3, <2>4, <2>5, <2>6, ProcessEffect
<1>14. CASE Forced
  <2>1. h' = h /\ queue' = queue
    BY <1>14, ForceEffect
  <2>2. DOMAIN geckos' \subseteq DOMAIN geckos
    BY <1>14, ForceEffect DEF Drop
  <2>3. stage[h.spawn] \in {"ending", "gone"} => stage'[h.spawn] \in {"ending", "gone"}
    BY <1>0, <1>14, ForceEffect, LastSpawn
  <2>4. QED  BY <2>1, <2>2, <2>3, AnswerKept
<1>15. QED
  BY <1>2, <1>3, <1>4, <1>5, <1>6, <1>7, <1>8, <1>9, <1>10, <1>11, <1>12, <1>13, <1>14
     DEF Forced, Next, HandleNext

-----------------------------------------------------------------------------
(* Most steps change no more of the handle than where its thread is; they  *)
(* neither begin a launch nor end one with a browser.                      *)
Started ==
    /\ Spawn /\ h.pc = "spawn" /\ h.spawn < MaxSpawns
    /\ SameBut({"pc", "spawn", "next", "waited", "seen"})
    /\ h'.pc = "await" /\ h'.spawn = h.spawn + 1 /\ h'.next = 1 /\ h'.waited = 0
    /\ stage' = [stage EXCEPT ![h.spawn + 1] = "boot"] /\ queue' = <<>>
Progressed == ReadStatus /\ MovedOn(Head(queue)) /\ Head(queue) = Messages[h.next]
Ready == ReadStatus /\ Succeeded(Head(queue)) /\ Head(queue) = Messages[6]
Ended == \/ Spawn /\ SameBut({"pc"}) /\ h'.pc = "gaveUp" /\ UNCHANGED <<queue, stage>>
         \/ ReadStatus /\ (Refused(Head(queue)) \/ Failed) /\ stage[h.spawn] = "gone"
Turns == \/ SpawnTimesOut \/ DiscardProfile \/ Use \/ Restart \/ ShutdownBrowser
         \/ ArchiveProfile \/ SendShutdown \/ AwaitClose \/ Kill
Aside == \/ WatchdogScans \/ WatchdogReaps \/ Forced \/ UNCHANGED vars
         \/ \E n \in Spawns : ProcessNext(n)
Calm == Ended \/ Turns \/ Aside

LEMMA StepKinds ==
    ASSUME TypeOK, LiveOK, QueueOK, [Next]_vars
    PROVE  Launch \/ Started \/ Progressed \/ Ready \/ ClearProfile \/ Tick \/ Calm
<1>1. CASE Spawn
  <2>1. h.pc = "spawn"
    BY <1>1 DEF Spawn
  <2>2. QED  BY <1>1, <2>1, SpawnFields, ShapeOK DEF TypeOK, Started, Calm, Ended
<1>2. CASE ReadStatus
  BY <1>2, ReadEffect DEF Progressed, Ready, Calm, Ended
<1>3. QED  BY <1>1, <1>2 DEF Next, HandleNext, Calm, Turns, Aside, Forced

SameHandle ==
    /\ h'.next = h.next /\ h'.spawn = h.spawn /\ h'.waited = h.waited /\ h'.path = h.path
    /\ h'.recovery = h.recovery /\ h'.gecko = h.gecko /\ h'.display = h.display
    /\ h'.seedTar = h.seedTar

LEMMA CalmFields == ASSUME TypeOK, LiveOK, QueueOK, Calm PROVE SameHandle
<1>0. Shape /\ HandleOK
  BY ShapeOK DEF TypeOK
<1>1. ASSUME SameBut({"pc", "after", "tries", "fresh"}) PROVE SameHandle
  BY <1>1, Kept DEF SameHandle
<1>2. ASSUME NEW changed, SameBut(changed), changed \subseteq {"pc", "after", "tries", "fresh"}
      PROVE  SameHandle
  BY <1>1, <1>2 DEF SameBut
<1>3. CASE Ended
  BY <1>2, <1>3 DEF Ended, Refused, Failed
<1>4. CASE Turns
  BY <1>0, <1>2, <1>4, TimeOutFields, DiscardFields, UseFields, RestartFields, ShutdownFields,
     ArchiveFields, SendFields, AwaitFields, KillFields DEF Turns, Failed
<1>5. CASE Aside
  BY <1>5, ProcessEffect, ForceEffect DEF Aside, SameHandle, WatchdogScans, WatchdogReaps, vars
<1>6. QED  BY <1>3, <1>4, <1>5 DEF Calm

(* Where the thread is after such a step.                                  *)
Turned ==
    /\ Trying' => Trying
    /\ InLaunch' => InLaunch
    /\ h'.pc = "await" => h.pc = "await"
    /\ h'.pc = "idle" => h.pc = "idle"
    /\ h.pc = "off" => h'.pc = "off"
    /\ h.spawn # 0 /\ ~InLaunch' /\ stage'[h.spawn] # "gone" => ~InLaunch /\ stage[h.spawn] # "gone"

LEMMA CalmTurns == ASSUME TypeOK, LiveOK, QueueOK, Calm PROVE Turned
<1>0. Shape /\ HandleOK /\ stage \in [Spawns -> Stages]
  BY ShapeOK DEF TypeOK, ProcessesOK
<1>1. CASE Ended
  <2>1. CASE Spawn /\ h'.pc = "gaveUp" /\ UNCHANGED stage
    <3>1. h.pc = "spawn"
      BY <2>1 DEF Spawn
    <3>2. h.spawn # 0 => stage[h.spawn] = "gone"
      <4>1. \A n \in Spawns : Dead(n)
        BY <3>1, NoneAlive DEF Closing
      <4>2. QED  BY <4>1, LastSpawn DEF Dead, LiveOK
    <3>3. QED  BY <2>1, <3>1, <3>2 DEF Turned, Trying, InLaunch, Closing
  <2>2. CASE ReadStatus /\ (Refused(Head(queue)) \/ Failed) /\ stage[h.spawn] = "gone"
    <3>1. h.pc = "await" /\ stage' = stage
      BY <2>2, ReadEffect
    <3>2. h'.pc = "raised" \/ (h'.pc = "close" /\ h'.after = "discard")
      BY <2>2 DEF Refused, Failed
    <3>3. QED  BY <2>2, <3>1, <3>2 DEF Turned, Trying, InLaunch, Closing
  <2>3. QED  BY <1>1, <2>1, <2>2 DEF Ended
<1>2. CASE Aside
  <2>1. h' = h
    BY <1>2, ProcessEffect, ForceEffect DEF Aside, WatchdogScans, WatchdogReaps, vars
  <2>2. h.spawn # 0 /\ stage'[h.spawn] # "gone" => stage[h.spawn] # "gone"
    <3>1. CASE stage' = stage
      BY <3>1
    <3>2. ASSUME NEW n \in Spawns, ProcessNext(n) PROVE stage[h.spawn] # "gone"
      BY <3>2, ProcessEffect DEF Dead
    <3>3. ASSUME stage' = [stage EXCEPT ![h.spawn] = "gone"], h.spawn # 0
          PROVE  stage'[h.spawn] = "gone"
      BY <3>3, LastSpawn DEF TypeOK, ProcessesOK
    <3>4. QED  BY <1>2, <2>1, <3>1, <3>2, <3>3, ForceEffect
                  DEF Aside, WatchdogScans, WatchdogReaps, vars
  <2>3. QED  BY <2>1, <2>2 DEF Turned, Trying, InLaunch, Closing
<1>3. CASE SpawnTimesOut
  <2>1. h.pc = "await" /\ stage' = stage
    BY <1>3 DEF SpawnTimesOut
  <2>2. h'.pc = "close" /\ h'.after = "discard"
    BY <1>0, <1>3, TimeOutFields DEF Failed
  <2>3. QED  BY <2>1, <2>2 DEF Turned, Trying, InLaunch, Closing
<1>4. CASE DiscardProfile
  <2>1. h.pc = "discard" /\ stage' = stage /\ h'.pc = "spawn"
    BY <1>0, <1>4, DiscardFields DEF DiscardProfile
  <2>2. QED  BY <2>1 DEF Turned, Trying, InLaunch, Closing
<1>5. CASE Use
  <2>1. h.pc = "idle" /\ stage' = stage /\ h'.pc = "idle"
    BY <1>0, <1>5, UseFields, Kept DEF Use
  <2>2. QED  BY <2>1 DEF Turned, Trying, InLaunch, Closing
<1>6. CASE Restart \/ ShutdownBrowser
  <2>1. h.pc \in {"idle", "raised", "gaveUp"} /\ stage' = stage
    BY <1>6, Zenon DEF Restart, ShutdownBrowser
  <2>2. h'.pc = "close" /\ h'.after \in {"clear", "launch", "archive"}
    BY <1>0, <1>6, RestartFields, ShutdownFields
  <2>3. QED  BY <2>1, <2>2 DEF Turned, Trying, InLaunch, Closing
<1>7. CASE ArchiveProfile
  <2>1. h.pc = "archive" /\ stage' = stage /\ h'.pc = "off"
    BY <1>0, <1>7, ArchiveFields DEF ArchiveProfile
  <2>2. QED  BY <2>1 DEF Turned, Trying, InLaunch, Closing
<1>8. CASE SendShutdown
  <2>1. h.pc = "close" /\ stage' = stage /\ h'.pc = "closing" /\ h'.after = h.after
    BY <1>0, <1>8, SendFields, Kept DEF SendShutdown
  <2>2. QED  BY <2>1 DEF Turned, Trying, InLaunch, Closing
<1>9. CASE AwaitClose
  <2>1. h.pc = "closing" /\ stage' = stage /\ h'.after = h.after
    BY <1>0, <1>9, AwaitFields, Kept DEF AwaitClose
  <2>2. h'.pc \in {"kill", h.after} /\ h.after \in {"discard", "clear", "launch", "archive"}
    BY <1>0, <1>9, <2>1, AwaitFields DEF HandleOK
  <2>3. QED  BY <2>1, <2>2 DEF Turned, Trying, InLaunch, Closing
<1>10. CASE Kill
  <2>1. h.pc = "kill" /\ stage' = [stage EXCEPT ![h.spawn] = "gone"] /\ h'.after = h.after
    BY <1>0, <1>10, KillFields, Kept DEF Kill, KillProcesses
  <2>2. h'.pc = h.after /\ h.after \in {"discard", "clear", "launch", "archive"}
    BY <1>0, <1>10, <2>1, KillFields DEF HandleOK
  <2>3. h.spawn # 0 => stage'[h.spawn] = "gone"
    BY <1>0, <2>1, LastSpawn
  <2>4. QED  BY <2>1, <2>2, <2>3 DEF Turned, Trying, InLaunch, Closing
<1>11. QED
  BY <1>1, <1>2, <1>3, <1>4, <1>5, <1>6, <1>7, <1>8, <1>9, <1>10 DEF Calm, Turns

-----------------------------------------------------------------------------
(* The pids that the handle knows.                                         *)

(* A browser manager that has not reported READY is one of this launch.    *)
LEMMA Unready ==
    ASSUME TypeOK, LiveOK, h.spawn # 0, stage[h.spawn] \notin {"none", "serving", "ending", "gone"}
    PROVE  Trying
<1>1. ~Dead(h.spawn) /\ InLaunch
  BY DEF LiveOK, Dead
<1>2. h.pc # "spawn"
  BY <1>1, LastSpawn DEF LiveOK, Closing
<1>3. QED  BY <1>1, <1>2 DEF Trying

LEMMA GeckosEffect ==
    ASSUME TypeOK, LiveOK, QueueOK, [Next]_vars
    PROVE  \/ DOMAIN geckos' \subseteq DOMAIN geckos
           \/ /\ StartWebdriver(h.spawn) /\ h.spawn \in Spawns /\ h' = h
              /\ geckos' = With(geckos, h.spawn, 0)
              /\ DOMAIN geckos' = DOMAIN geckos \cup {h.spawn} /\ Trying
<1>1. ASSUME NEW S, geckos' = Drop(geckos, S) PROVE DOMAIN geckos' \subseteq DOMAIN geckos
  BY <1>1 DEF Drop
<1>2. CASE Tick
  BY <1>2 DEF Tick, Older
<1>3. ASSUME NEW n \in Spawns, StartWebdriver(n)
      PROVE  /\ StartWebdriver(h.spawn) /\ h.spawn \in Spawns /\ h' = h
             /\ geckos' = With(geckos, h.spawn, 0)
             /\ DOMAIN geckos' = DOMAIN geckos \cup {h.spawn} /\ Trying
  <2>1. ProcessNext(n)
    BY <1>3 DEF ProcessNext
  <2>2. n = h.spawn /\ h' = h
    BY <2>1, ProcessEffect
  <2>3. stage[n] = "attempted" /\ geckos' = With(geckos, n, 0)
    BY <1>3 DEF StartWebdriver, Advance
  <2>4. n # 0
    BY DEF Spawns
  <2>5. Trying
    BY <2>2, <2>3, <2>4, Unready
  <2>6. DOMAIN geckos' = DOMAIN geckos \cup {n}
    BY <2>3 DEF With
  <2>7. QED  BY <1>3, <2>2, <2>3, <2>5, <2>6
<1>4. CASE Forced
  <2>1. geckos' = geckos => DOMAIN geckos' \subseteq DOMAIN geckos
    OBVIOUS
  <2>2. QED  BY <1>1, <1>4, <2>1, ForceEffect
<1>5. QED
  BY <1>1, <1>2, <1>3, <1>4
     DEF Forced, Next, HandleNext, ProcessNext, Launch, Spawn, ReadStatus, SpawnTimesOut, DiscardProfile,
         Use, Restart, ClearProfile, ShutdownBrowser, ArchiveProfile, SendShutdown, AwaitClose,
         Kill, KillProcesses, CreateProfile, LoadProfile, StartDisplay, AttemptLaunch,
         InstallExtension, ConnectExtension, BecomeReady, ProcessFails, TakeShutdown, EndProcess,
         WatchdogScans, WatchdogReaps, vars, children

LEMMA PidsStep ==
    ASSUME TypeOK, LiveOK, QueueOK, KnownPids, [Next]_vars
    PROVE  KnownPids'
<1>0. /\ Shape /\ HandleOK /\ h.next \in 1 .. 6
  BY ShapeOK DEF TypeOK, HandleOK
<1>1. CASE Launch
  <2>1. h.pc = "launch" /\ stage' = stage /\ h'.pc \in {"spawn", "raised"} /\ h'.spawn = h.spawn
    BY <1>0, <1>1, LaunchFields, Kept DEF Launch
  <2>2. h.spawn # 0 => stage'[h.spawn] = "gone"
    <3>1. \A n \in Spawns : Dead(n)
      BY <2>1, NoneAlive DEF Closing
    <3>2. QED  BY <2>1, <3>1, LastSpawn DEF Dead, LiveOK
  <2>3. ~Known(6)' /\ ~Known(4)'
    BY <2>1, <2>2 DEF Known, Trying, InLaunch, Closing
  <2>4. QED  BY <2>3 DEF KnownPids
<1>2. CASE Started
  <2>1. h'.pc = "await" /\ h'.next = 1
    BY <1>2 DEF Started
  <2>2. ~(1 >= 6) /\ ~(1 >= 4)
    OBVIOUS
  <2>3. ~Known(6)' /\ ~Known(4)'
    BY <2>1, <2>2 DEF Known, InLaunch
  <2>4. QED  BY <2>3 DEF KnownPids
<1>3. CASE Progressed
  <2>1. h.pc = "await" /\ h'.pc = "await" /\ h'.spawn = h.spawn /\ h'.next = h.next + 1
    BY <1>3, ReadEffect, Kept DEF Progressed, MovedOn
  <2>2. Trying /\ InLaunch'
    BY <2>1 DEF Trying, InLaunch
  <2>3. Known(6)' => h'.gecko = h'.spawn
    <3>1. Known(6)' => h.next = 5
      BY <1>0, <1>3, <2>1, <2>2 DEF Known, Progressed, MovedOn
    <3>2. QED  BY <1>3, <2>1, <3>1 DEF Progressed, MovedOn
  <2>4. Known(4)' /\ Xvfb => h'.display = h'.spawn
    <3>1. Known(4)' => h.next = 3 \/ (h.next # 3 /\ Known(4))
      BY <1>0, <2>1, <2>2 DEF Known
    <3>2. h.next = 3 /\ Xvfb => h'.display = h.spawn
      BY <1>3 DEF Progressed, MovedOn
    <3>3. h.next # 3 => h'.display = h.display
      BY <1>3 DEF Progressed, MovedOn
    <3>4. QED  BY <2>1, <3>1, <3>2, <3>3 DEF KnownPids
  <2>5. QED  BY <2>3, <2>4 DEF KnownPids
<1>4. CASE Ready
  <2>1. h.pc = "await"
    BY <1>4, ReadEffect DEF Ready
  <2>2. SameBut({"pc", "path", "tempdir", "waited", "launched"}) /\ h.next = 6
    BY <1>4, Zenon DEF Ready, Succeeded
  <2>3. h'.gecko = h.gecko /\ h'.display = h.display /\ h'.spawn = h.spawn
    BY <2>2, Kept
  <2>4. 6 >= 6 /\ 6 >= 4
    OBVIOUS
  <2>5. Known(6) /\ Known(4)
    BY <2>1, <2>2, <2>4 DEF Known, Trying, InLaunch
  <2>6. QED  BY <2>3, <2>5 DEF KnownPids
<1>5. CASE ClearProfile
  <2>1. h.pc = "clear" /\ h'.pc = "launch" /\ stage' = stage
    BY <1>0, <1>5, ClearFields DEF ClearProfile
  <2>2. h'.gecko = h.gecko /\ h'.display = h.display /\ h'.spawn = h.spawn /\ h'.next = h.next
    BY <1>0, <1>5, ClearFields, Kept
  <2>3. (Known(6)' => Known(6)) /\ (Known(4)' => Known(4))
    BY <2>1, <2>2 DEF Known, Trying, InLaunch, Closing
  <2>4. QED  BY <2>2, <2>3 DEF KnownPids
<1>6. CASE Tick
  <2>1. /\ h'.gecko = h.gecko /\ h'.display = h.display /\ h'.spawn = h.spawn /\ h'.next = h.next
        /\ h'.pc = h.pc /\ h'.after = h.after /\ stage' = stage
    BY <1>0, <1>6, TickFields, Kept DEF Tick
  <2>2. (Known(6)' => Known(6)) /\ (Known(4)' => Known(4))
    BY <2>1 DEF Known, Trying, InLaunch, Closing
  <2>3. QED  BY <2>1, <2>2 DEF KnownPids
<1>7. CASE Calm
  <2>1. SameHandle /\ Turned
    BY <1>7, CalmFields, CalmTurns
  <2>2. (Known(6)' => Known(6)) /\ (Known(4)' => Known(4))
    BY <2>1 DEF Known, Turned, SameHandle
  <2>3. QED  BY <2>1, <2>2 DEF KnownPids, SameHandle
<1>8. QED  BY <1>1, <1>2, <1>3, <1>4, <1>5, <1>6, <1>7, StepKinds

(* An orderly close is one of a browser that has been quit.                *)
LEMMA QuitWhenClosed ==
    ASSUME TypeOK, AnswerOK, queue # <<>>, Head(queue) = "OK"
    PROVE  h.spawn \notin DOMAIN geckos
  BY TakenFromQueue DEF AnswerOK

LEMMA PathGeckoStep ==
    ASSUME TypeOK, LiveOK, QueueOK, AnswerOK, PathOK, KnownPids, PathGecko, [Next]_vars
    PROVE  PathGecko'
<1>0. /\ Shape /\ HandleOK
  BY ShapeOK DEF TypeOK
<1> SUFFICES ASSUME h'.path # NoPid, h'.path \in DOMAIN geckos'
             PROVE  /\ h'.path = h'.spawn /\ h'.gecko = h'.path /\ ~InLaunch'
                    /\ h'.pc = "idle" \/ Closing'
  BY DEF PathGecko
<1>a. h'.path = h.path =>
        h.path \in DOMAIN geckos /\ h.path # NoPid /\ h.path = h.spawn /\ h.gecko = h.path /\ ~InLaunch
        /\ (h.pc = "idle" \/ Closing)
  <2>1. Trying => h.path # h.spawn
    BY DEF PathOK, TypeOK, HandleOK
  <2>2. h'.path = h.path => h.path \in DOMAIN geckos
    BY <2>1, GeckosEffect
  <2>3. QED  BY <2>2 DEF PathGecko
<1>1. CASE Launch
  <2>1. h.pc = "launch" /\ h'.path = h.path
    BY <1>0, <1>1, LaunchFields, Kept DEF Launch
  <2>2. QED  BY <1>a, <2>1 DEF Closing
<1>2. CASE Started \/ Progressed
  <2>1. InLaunch /\ h'.path = h.path
    <3>1. CASE Started
      BY <3>1, Kept DEF Started, InLaunch
    <3>2. CASE Progressed
      BY <3>2, Kept, ReadEffect DEF Progressed, MovedOn, InLaunch
    <3>3. QED  BY <1>2, <3>1, <3>2
  <2>2. QED  BY <1>a, <2>1
<1>4. CASE Ready
  <2>1. h.pc = "await"
    BY <1>4, ReadEffect DEF Ready
  <2>2. /\ SameBut({"pc", "path", "tempdir", "waited", "launched"}) /\ h.next = 6 /\ h'.pc = "idle"
        /\ h'.path = h.spawn
    BY <1>4, Zenon DEF Ready, Succeeded
  <2>3. h'.gecko = h.gecko /\ h'.spawn = h.spawn
    BY <2>2, Kept
  <2>4. 6 >= 6
    OBVIOUS
  <2>5. Known(6)
    BY <2>1, <2>2, <2>4 DEF Known, Trying, InLaunch
  <2>6. QED  BY <2>2, <2>3, <2>5 DEF KnownPids, InLaunch, Closing
<1>5. CASE ClearProfile
  BY <1>0, <1>5, ClearFields
<1>6. CASE Tick
  <2>1. /\ h'.gecko = h.gecko /\ h'.spawn = h.spawn /\ h'.path = h.path
        /\ h'.pc = h.pc /\ h'.after = h.after
    BY <1>0, <1>6, TickFields, Kept
  <2>2. QED  BY <1>a, <2>1 DEF InLaunch, Closing
<1>7. CASE Calm
  <2>1. SameHandle /\ Turned
    BY <1>7, CalmFields, CalmTurns
  <2>2. /\ h'.path = h'.spawn /\ h'.gecko = h'.path /\ ~InLaunch' /\ h.path \in DOMAIN geckos
        /\ h.pc = "idle" \/ Closing
    BY <1>a, <2>1 DEF SameHandle, Turned
  <2>3. h'.pc = "idle" \/ Closing'
    <3>1. CASE Aside
      <4>1. h' = h
        BY <3>1, ProcessEffect, ForceEffect DEF Aside, WatchdogScans, WatchdogReaps, vars
      <4>2. QED  BY <2>2, <4>1 DEF Closing
    <3>2. CASE Use
      <4>1. h.pc = "idle" /\ h'.pc = h.pc
        BY <1>0, <3>2, UseFields, Kept DEF Use
      <4>2. QED  BY <4>1
    <3>3. CASE Restart \/ ShutdownBrowser \/ SendShutdown
      BY <1>0, <3>3, RestartFields, ShutdownFields, SendFields DEF Closing
    <3>4. CASE AwaitClose
      <4>1. ~(queue # <<>> /\ Head(queue) = "OK")
        BY <1>a, <2>1, QuitWhenClosed DEF SameHandle
      <4>2. QED  BY <1>0, <3>4, <4>1, AwaitFields DEF Closing
    <3>5. CASE Kill
      <4>1. geckos' = Drop(geckos, {h.gecko})
        BY <3>5 DEF Kill, KillProcesses
      <4>2. h.gecko \notin DOMAIN geckos'
        BY <4>1 DEF Drop
      <4>3. QED  BY <1>a, <2>1, <4>2 DEF SameHandle
    <3>6. CASE SpawnTimesOut \/ DiscardProfile \/ ArchiveProfile
      BY <2>2, <3>6 DEF SpawnTimesOut, DiscardProfile, ArchiveProfile, Closing
    <3>7. CASE Ended
      <4>1. h.pc = "spawn" \/ h.pc = "await"
        BY <3>7, ReadEffect DEF Ended, Spawn
      <4>2. QED  BY <2>2, <4>1 DEF Closing
    <3>8. QED  BY <1>7, <3>1, <3>2, <3>3, <3>4, <3>5, <3>6, <3>7 DEF Calm, Turns
  <2>4. QED  BY <2>2, <2>3
<1>8. QED  BY <1>1, <1>2, <1>4, <1>5, <1>6, <1>7, StepKinds

-----------------------------------------------------------------------------
(* The profile's directory.                                                *)
LEMMA NotAnnounced ==
    ASSUME TypeOK, NEW message \in Texts, queue' = queue \o <<message>>, h' = h,
           NEW k, message # Messages[k], Announced(k)'
    PROVE  Announced(k)
<1>1. queue' = Append(queue, message)
  BY OneAdded
<1>2. QED  BY <1>1, AppendedTo DEF Announced

(* What is announced after a step was announced before it, but for the     *)
(* profile when it has just been created or loaded.                        *)
LEMMA AnnouncedBefore ==
    ASSUME TypeOK, LiveOK, QueueOK, [Next]_vars, h'.pc = "await",
           NEW k \in {1, 2}, Announced(k)'
    PROVE  /\ h.pc = "await" /\ h'.spawn = h.spawn
           /\ \/ Announced(k)
              \/ k = 1 /\ CreateProfile(h.spawn)
              \/ k = 2 /\ LoadProfile(h.spawn)
<1>0. Shape /\ HandleOK /\ h.next \in 1 .. 6
  BY ShapeOK DEF TypeOK, HandleOK
<1>1. CASE queue' = <<>> /\ h'.next = 1
  <2>1. DOMAIN queue' = {} /\ ~(1 > 1) /\ ~(1 > 2)
    BY <1>1
  <2>2. QED  BY <1>1, <2>1 DEF Announced
<1>2. CASE ReadStatus /\ MovedOn(Head(queue)) /\ Head(queue) = Messages[h.next]
  <2>1. h.pc = "await" /\ queue # <<>> /\ queue' = Tail(queue)
    BY <1>2, ReadEffect
  <2>2. h'.next = h.next + 1 /\ h'.spawn = h.spawn
    BY <1>2, Kept DEF MovedOn
  <2>3. CASE h'.next > k
    <3>1. h.next > k \/ h.next = k
      BY <1>0, <2>2, <2>3
    <3>2. h.next = k => queue[1] = Messages[k] /\ 1 \in DOMAIN queue
      BY <1>2, <2>1, TakenFromQueue
    <3>3. QED  BY <2>1, <2>2, <3>1, <3>2 DEF Announced
  <2>4. ASSUME NEW i \in DOMAIN queue', queue'[i] = Messages[k] PROVE Announced(k)
    BY <2>1, <2>4, TakenFromQueue DEF Announced
  <2>5. QED  BY <2>1, <2>2, <2>3, <2>4 DEF Announced
<1>3. CASE Tick \/ WatchdogScans \/ WatchdogReaps \/ UNCHANGED vars
  <2>1. queue' = queue
    BY <1>3 DEF Tick, WatchdogScans, WatchdogReaps, vars
  <2>2. h'.pc = h.pc /\ h'.next = h.next /\ h'.spawn = h.spawn
    <3>1. CASE Tick
      BY <1>0, <3>1, TickFields, Kept
    <3>2. CASE ~Tick
      BY <1>3, <3>2 DEF WatchdogScans, WatchdogReaps, vars
    <3>3. QED  BY <3>1, <3>2
  <2>3. QED  BY <2>1, <2>2 DEF Announced
<1>4. CASE \E n \in Spawns : ProcessNext(n)
  <2>1. PICK n \in Spawns : ProcessNext(n)
    BY <1>4
  <2>2. n = h.spawn /\ h' = h
    BY <2>1, ProcessEffect
  <2>3. ASSUME NEW message \in Texts, queue' = queue \o <<message>>, message # Messages[k]
        PROVE  Announced(k)
    BY <2>2, <2>3, NotAnnounced
  <2>4. CASE queue' = queue
    BY <2>2, <2>4 DEF Announced
  <2>5. /\ Messages[k] \in {"Profile Created", "Profile Tar"}
        /\ k = 1 => Messages[k] = "Profile Created"
        /\ k = 2 => Messages[k] = "Profile Tar"
    BY MessageTexts
  <2>6. CASE CreateProfile(n) \/ LoadProfile(n)
    <3>1. CASE CreateProfile(n) /\ k = 2
      <4>1. queue' = queue \o <<"Profile Created">>
        BY <2>2, <3>1 DEF CreateProfile, Announce
      <4>2. "Profile Created" \in Texts /\ "Profile Created" # Messages[k]
        BY <2>5, <3>1 DEF Texts
      <4>3. QED  BY <2>2, <2>3, <4>1, <4>2
    <3>2. CASE LoadProfile(n) /\ k = 1
      <4>1. queue' = queue \o <<"Profile Tar">>
        BY <2>2, <3>2 DEF LoadProfile, Announce
      <4>2. "Profile Tar" \in Texts /\ "Profile Tar" # Messages[k]
        BY <2>5, <3>2 DEF Texts
      <4>3. QED  BY <2>2, <2>3, <4>1, <4>2
    <3>3. QED  BY <2>2, <2>6, <3>1, <3>2
  <2>7. CASE \/ StartDisplay(n) \/ AttemptLaunch(n) \/ InstallExtension(n) \/ BecomeReady(n)
             \/ ProcessFails(n) \/ TakeShutdown(n)
    <3>1. PICK message \in {"Display", "Launch Attempted", "Browser Launched", "Browser Ready",
                            "FAILED", "CRITICAL", "OK"} : queue' = queue \o <<message>>
      BY <2>2, <2>7 DEF StartDisplay, AttemptLaunch, InstallExtension, BecomeReady, ProcessFails,
                        TakeShutdown, Announce
    <3>2. message \in Texts /\ message # Messages[k]
      BY <2>5 DEF Texts
    <3>3. QED  BY <2>2, <2>3, <3>1, <3>2
  <2>8. CASE StartWebdriver(n) \/ ConnectExtension(n) \/ EndProcess(n)
    BY <2>4, <2>8 DEF StartWebdriver, ConnectExtension, EndProcess
  <2>9. Announced(k) \/ (k = 1 /\ CreateProfile(n)) \/ (k = 2 /\ LoadProfile(n))
    <3>1. CASE CreateProfile(n) \/ LoadProfile(n)
      <4>1. CASE CreateProfile(n) /\ k = 1
        BY <4>1
      <4>2. CASE LoadProfile(n) /\ k = 2
        BY <4>2
      <4>3. QED  BY <2>2, <2>6, <3>1, <4>1, <4>2
    <3>2. QED  BY <2>1, <2>7, <2>8, <2>2, <3>1 DEF ProcessNext
  <2>10. QED  BY <2>2, <2>9
<1>5. CASE Forced
  BY <1>5, ForceEffect DEF Announced
<1>6. QED  BY <1>1, <1>2, <1>3, <1>4, <1>5, AwaitAfter

(* Which directories a step makes or removes.                              *)
LEMMA DirsEffect ==
    ASSUME TypeOK, LiveOK, QueueOK, [Next]_vars
    PROVE  \/ dirs' = dirs
           \/ Ready /\ dirs' = dirs \ {h.path}
           \/ DiscardProfile /\ dirs' = dirs \ {h.spawn}
           \/ ClearProfile \/ ArchiveProfile
           \/ CreateProfile(h.spawn) /\ dirs' = dirs \cup {h.spawn}
           \/ Forced /\ forced' = "done" /\ dirs' = dirs \ {h.path}
<1>1. CASE ReadStatus
  <2>1. h'.pc # "idle" => dirs' = dirs
    BY <1>1, ReadEffect
  <2>2. h'.pc = "idle" => Ready /\ dirs' = dirs \ {h.path}
    <3>1. ~MovedOn(Head(queue)) \/ h'.pc # "idle"
      BY <1>1, Kept, ReadEffect DEF MovedOn
    <3>2. QED  BY <1>1, <3>1, ReadEffect DEF Ready, Refused, Failed
  <2>3. QED  BY <2>1, <2>2
<1>2. CASE \E n \in Spawns : ProcessNext(n)
  <2>1. PICK n \in Spawns : ProcessNext(n)
    BY <1>2
  <2>2. n = h.spawn
    BY <2>1, ProcessEffect
  <2>3. QED
    BY <2>1, <2>2
       DEF ProcessNext, CreateProfile, LoadProfile, StartDisplay, AttemptLaunch, StartWebdriver,
           InstallExtension, ConnectExtension, BecomeReady, ProcessFails, TakeShutdown, EndProcess,
           profiles
<1>3. CASE Forced
  BY <1>3, ForceEffect
<1>4. QED
  BY <1>1, <1>2, <1>3
     DEF Forced, Next, HandleNext, Launch, Spawn, SpawnTimesOut, DiscardProfile, Use, Restart,
         ShutdownBrowser, SendShutdown, AwaitClose, Kill, Tick, WatchdogScans, WatchdogReaps,
         vars, profiles

(* Only a forced close changes whether there was one.                      *)
LEMMA ForcedStays ==
    ASSUME TypeOK, LiveOK, QueueOK, [Next]_vars, ~Forced
    PROVE  forced' = forced
<1>1. CASE \E n \in Spawns : ProcessNext(n)
  BY <1>1 DEF ProcessNext, CreateProfile, LoadProfile, StartDisplay, AttemptLaunch,
              StartWebdriver, InstallExtension, ConnectExtension, BecomeReady, ProcessFails,
              TakeShutdown, EndProcess
<1>2. CASE Restart \/ ShutdownBrowser
  BY <1>2, Zenon DEF Restart, ShutdownBrowser
<1>3. QED
  BY <1>1, <1>2
     DEF Forced, Next, HandleNext, Launch, Spawn, ReadStatus, SpawnTimesOut, DiscardProfile, Use,
         ClearProfile, ArchiveProfile, SendShutdown, AwaitClose, Kill, Tick, WatchdogScans,
         WatchdogReaps, vars

LEMMA PathStep ==
    ASSUME TypeOK, LiveOK, QueueOK, PathOK, [Next]_vars
    PROVE  PathOK'
<1>0. /\ Shape /\ HandleOK /\ h.spawn \in 0 .. MaxSpawns /\ h.path \in 0 .. h.spawn
      /\ h.next \in 1 .. 6
  BY ShapeOK DEF TypeOK, HandleOK
<1>a. ASSUME h'.pc = "await", Announced(1)' PROVE h'.spawn \in dirs'
  <2>1. h.pc = "await" /\ h'.spawn = h.spawn /\ (Announced(1) \/ CreateProfile(h.spawn))
    BY <1>a, AnnouncedBefore
  <2>2. CASE CreateProfile(h.spawn)
    BY <2>1, <2>2 DEF CreateProfile
  <2>3. CASE Announced(1)
    <3>1. h.spawn \in dirs
      BY <2>1, <2>3 DEF PathOK
    <3>2. ~Ready
      BY <1>a, Zenon DEF Ready, Succeeded
    <3>3. ~DiscardProfile /\ ~ClearProfile /\ ~ArchiveProfile
      BY <2>1 DEF DiscardProfile, ClearProfile, ArchiveProfile
    <3>4. h.spawn # h.path
      BY <1>0, <2>1 DEF PathOK, Trying, InLaunch
    <3>5. QED  BY <2>1, <3>1, <3>2, <3>3, <3>4, DirsEffect
  <2>4. QED  BY <2>1, <2>2, <2>3
<1>b. forced' = forced \/ (Forced /\ (forced' = "done" \/ dirs' = dirs))
  BY ForcedStays, ForceEffect
<1>c. ASSUME h'.pc # h.pc \/ h'.next # h.next \/ h'.waited # h.waited PROVE forced' = forced
  BY <1>c, ForcedStays, ForceEffect
<1>1. CASE Launch
  <2>1. /\ h.pc = "launch" /\ h'.pc \in {"spawn", "raised"} /\ h'.path = h.path /\ dirs' = dirs
    BY <1>0, <1>1, LaunchFields, Kept DEF Launch
  <2>2. ~Trying'
    BY <2>1 DEF Trying, InLaunch, Closing
  <2>3. QED  BY <1>a, <1>c, <2>1, <2>2 DEF PathOK
<1>2. CASE Started
  <2>1. h'.path = h.path /\ h'.pc = "await" /\ h'.spawn = h.spawn + 1 /\ h.pc = "spawn"
    BY <1>2, Kept DEF Started
  <2>2. dirs' = dirs
    BY <1>2 DEF Started, Spawn, profiles
  <2>3. h'.path < h'.spawn
    BY <1>0, <2>1
  <2>4. QED  BY <1>a, <1>c, <2>1, <2>2, <2>3 DEF PathOK
<1>3. CASE Progressed
  <2>1. h.pc = "await" /\ h'.pc = "await" /\ h'.spawn = h.spawn /\ h'.path = h.path
    BY <1>3, ReadEffect, Kept DEF Progressed, MovedOn
  <2>2. dirs' = dirs /\ Trying
    BY <1>3, <2>1, ReadEffect DEF Progressed, Trying, InLaunch
  <2>3. h'.next # h.next
    BY <1>0, <1>3 DEF Progressed, MovedOn
  <2>4. QED  BY <1>a, <1>c, <2>1, <2>2, <2>3 DEF PathOK
<1>4. CASE Ready
  <2>1. h.pc = "await" /\ queue # <<>>
    BY <1>4, ReadEffect DEF Ready
  <2>2. /\ SameBut({"pc", "path", "tempdir", "waited", "launched"}) /\ h.next = 6 /\ h'.pc = "idle"
        /\ h'.path = h.spawn
    BY <1>4, Zenon DEF Ready, Succeeded
  <2>3. h'.spawn = h.spawn
    BY <2>2, Kept
  <2>4. 6 > 1
    OBVIOUS
  <2>5. h.spawn \in dirs /\ h.spawn # 0
    BY <2>1, <2>2, <2>4 DEF PathOK, Announced, QueueOK
  <2>6. h.path < h.spawn
    BY <2>1 DEF PathOK, Trying, InLaunch
  <2>7. dirs' = dirs \ {h.path}
    BY <1>4, <2>2, ReadEffect DEF Ready
  <2>8. h.spawn \in dirs'
    BY <1>0, <2>5, <2>6, <2>7
  <2>9. ~Trying'
    BY <2>2 DEF Trying, InLaunch, Closing
  <2>10. QED  BY <2>2, <2>3, <2>5, <2>8, <2>9 DEF PathOK
<1>5. CASE ClearProfile
  <2>1. h'.pc = "launch" /\ h'.path = NoPid
    BY <1>0, <1>5, ClearFields
  <2>2. QED  BY <2>1 DEF PathOK, Trying, InLaunch, Closing
<1>6. CASE Tick
  <2>1. /\ h'.spawn = h.spawn /\ h'.path = h.path /\ h'.pc = h.pc /\ h'.after = h.after
    BY <1>0, <1>6, TickFields, Kept
  <2>2. dirs' = dirs
    BY <1>6 DEF Tick, profiles
  <2>3. forced' = forced
    BY <1>6 DEF Tick
  <2>4. QED  BY <1>a, <2>1, <2>2, <2>3 DEF PathOK, Trying, InLaunch, Closing
<1>7. CASE Calm
  <2>1. SameHandle /\ Turned
    BY <1>7, CalmFields, CalmTurns
  <2>2. h.path # NoPid /\ h'.pc # "off" /\ forced' # "done" => h.path \in dirs'
    <3>1. SUFFICES ASSUME h.path # NoPid, h'.pc # "off", forced' # "done" PROVE h.path \in dirs'
      OBVIOUS
    <3>2. h.path \in dirs
      BY <1>b, <2>1, <3>1, ForceEffect DEF PathOK, Turned
    <3>3. ~Ready
      <4>1. Ready => h'.pc = "idle" /\ h.pc = "await"
        <5>1. Ready => h'.pc = "idle"
          BY Zenon DEF Ready, Succeeded
        <5>2. QED  BY <5>1, ReadEffect DEF Ready
      <4>2. QED  BY <2>1, <4>1 DEF Turned
    <3>4. ~ArchiveProfile
      BY <1>0, <3>1, ArchiveFields
    <3>5. ~ClearProfile
      BY <1>0, <2>1, <3>1, ClearFields DEF SameHandle
    <3>6. CASE DiscardProfile /\ dirs' = dirs \ {h.spawn}
      <4>1. Trying
        BY <3>6 DEF DiscardProfile, Trying, InLaunch
      <4>2. h.path < h.spawn
        BY <4>1 DEF PathOK
      <4>3. QED  BY <1>0, <3>2, <3>6, <4>2
    <3>7. QED  BY <3>1, <3>2, <3>3, <3>4, <3>5, <3>6, DirsEffect
  <2>3. QED  BY <1>a, <2>1, <2>2 DEF PathOK, SameHandle, Turned
<1>8. QED  BY <1>1, <1>2, <1>3, <1>4, <1>5, <1>6, <1>7, StepKinds

-----------------------------------------------------------------------------
(* What the profile and the archive hold.                                  *)
LEMMA HoldsEffect ==
    ASSUME TypeOK, LiveOK, QueueOK, [Next]_vars
    PROVE  /\ ~Use => content' = content \/ LoadProfile(h.spawn)
           /\ ~Use /\ ~ClearProfile => kept' = kept
           /\ ~Launch /\ ~Ready => archives' = archives
<1>1. CASE ReadStatus
  <2>1. content' = content /\ kept' = kept
    BY <1>1, ReadEffect
  <2>2. h'.pc # "idle" => archives' = archives
    BY <1>1, ReadEffect
  <2>3. h'.pc = "idle" => Ready
    <3>1. ~MovedOn(Head(queue)) \/ h'.pc # "idle"
      BY <1>1, Kept, ReadEffect DEF MovedOn
    <3>2. QED  BY <1>1, <3>1, ReadEffect DEF Ready, Refused, Failed
  <2>4. QED  BY <2>1, <2>2, <2>3
<1>2. CASE \E n \in Spawns : ProcessNext(n)
  <2>1. PICK n \in Spawns : ProcessNext(n)
    BY <1>2
  <2>2. n = h.spawn /\ kept' = kept /\ archives' = archives
    BY <2>1, ProcessEffect
  <2>3. content' = content \/ LoadProfile(n)
    BY <2>1
       DEF ProcessNext, CreateProfile, StartDisplay, AttemptLaunch, StartWebdriver,
           InstallExtension, ConnectExtension, BecomeReady, ProcessFails, TakeShutdown, EndProcess,
           profiles
  <2>4. QED  BY <2>2, <2>3
<1>3. CASE Restart \/ ShutdownBrowser
  <2>1. UNCHANGED profiles
    BY <1>3, Zenon DEF Restart, ShutdownBrowser
  <2>2. QED  BY <2>1 DEF profiles
<1>4. CASE Launch
  <2>1. content' = content /\ kept' = kept
    BY <1>4, Zenon DEF Launch
  <2>2. QED  BY <1>4, <2>1
<1>5. CASE ClearProfile
  <2>1. content' = content /\ archives' = archives
    BY <1>5, Zenon DEF ClearProfile
  <2>2. QED  BY <1>5, <2>1
<1>6. CASE Use
  <2>1. archives' = archives
    BY <1>6, Zenon DEF Use
  <2>2. QED  BY <1>6, <2>1
<1>7. CASE \/ Spawn \/ SpawnTimesOut \/ DiscardProfile \/ ArchiveProfile \/ SendShutdown
           \/ AwaitClose \/ Kill \/ Tick \/ WatchdogScans \/ WatchdogReaps \/ UNCHANGED vars
  <2>1. content' = content /\ kept' = kept /\ archives' = archives
    BY <1>7 DEF Spawn, SpawnTimesOut, DiscardProfile, ArchiveProfile, SendShutdown, AwaitClose,
                Kill, Tick, WatchdogScans, WatchdogReaps, vars, profiles
  <2>2. QED  BY <2>1
<1>8. CASE Forced
  BY <1>8, ForceEffect
<1>9. QED
  BY <1>1, <1>2, <1>3, <1>4, <1>5, <1>6, <1>7, <1>8 DEF Forced, Next, HandleNext

LEMMA SameTraces == ASSUME kept' = kept, h'.seedTar = h.seedTar PROVE Traces' = Traces
  BY Zenon DEF Traces

(* What a new browser loads is what the browsers before it have left.      *)
LEMMA LoadedTraces ==
    ASSUME TypeOK, TracesOK, InLaunch, NoPid = 0
    PROVE  LoadedProfile = Traces
<1>1. CASE h.path = NoPid
  <2>1. h.recovery = NoPid /\ kept = {}
    BY <1>1 DEF TracesOK
  <2>2. CASE h.seedTar
    <3>1. ProfileSource = "seed"
      BY <1>1, <2>2, Zenon DEF ProfileSource
    <3>2. Traces = {Seed}
      BY <2>1, <2>2 DEF Traces
    <3>3. QED  BY <3>1, <3>2 DEF LoadedProfile
  <2>3. CASE ~h.seedTar
    <3>1. ProfileSource = "none"
      BY <2>1, <2>3, Zenon DEF ProfileSource
    <3>2. Traces = {}
      BY <2>1, <2>3 DEF Traces
    <3>3. QED  BY <3>1, <3>2 DEF LoadedProfile
  <2>4. QED  BY <2>2, <2>3
<1>2. CASE h.path # NoPid
  <2>1. h.recovery # NoPid /\ archives[h.recovery] = Traces
    BY <1>2 DEF TracesOK
  <2>2. ProfileSource = "recovery"
    BY <1>2, <2>1, Zenon DEF ProfileSource
  <2>3. QED  BY <2>1, <2>2 DEF LoadedProfile
<1>3. QED  BY <1>1, <1>2

LEMMA TracesStep ==
    ASSUME TypeOK, LiveOK, QueueOK, PathOK, TracesOK, [Next]_vars
    PROVE  TracesOK'
<1>0. /\ Shape /\ HandleOK /\ h.spawn \in 0 .. MaxSpawns /\ h.path \in 0 .. h.spawn
      /\ h.next \in 1 .. 6 /\ NoPid = 0 /\ content = [n \in Spawns |-> content[n]]
  BY ShapeOK DEF TypeOK, HandleOK, ProcessesOK, NoPid
(* What has been loaded.                                                   *)
<1>a. ASSUME h'.pc = "await", Announced(2)', kept' = kept, h'.seedTar = h.seedTar, ~Use
      PROVE  content'[h'.spawn] = Traces'
  <2>1. h.pc = "await" /\ h'.spawn = h.spawn /\ (Announced(2) \/ LoadProfile(h.spawn))
    BY <1>a, AnnouncedBefore
  <2>2. Traces' = Traces
    BY <1>a, SameTraces
  <2>3. CASE LoadProfile(h.spawn)
    <3>1. content' = [content EXCEPT ![h.spawn] = LoadedProfile]
      BY <2>3 DEF LoadProfile
    <3>2. h.spawn \in Spawns
      BY <2>1, LastSpawn DEF QueueOK
    <3>3. content'[h.spawn] = LoadedProfile
      BY <1>0, <3>1, <3>2
    <3>4. LoadedProfile = Traces
      BY <1>0, <2>1, LoadedTraces DEF InLaunch
    <3>5. QED  BY <2>1, <2>2, <3>3, <3>4
  <2>4. CASE Announced(2) /\ ~LoadProfile(h.spawn)
    <3>1. content' = content
      BY <1>a, <2>4, HoldsEffect
    <3>2. QED  BY <2>1, <2>2, <2>4, <3>1 DEF TracesOK
  <2>5. QED  BY <2>1, <2>3, <2>4
(* What the profile of the last browser holds.                             *)
<1>b. ASSUME h.path # NoPid, ~Use PROVE content'[h.path] = content[h.path]
  <2>1. CASE LoadProfile(h.spawn)
    <3>1. content' = [content EXCEPT ![h.spawn] = LoadedProfile] /\ stage[h.spawn] = "created"
      BY <2>1 DEF LoadProfile, Advance
    <3>2. h.spawn # 0
      BY <1>0, <1>b
    <3>3. h.path < h.spawn
      BY <3>1, <3>2, Unready DEF PathOK
    <3>4. h.path \in Spawns /\ h.path # h.spawn
      BY <1>0, <1>b, <3>3, LaunchAssumption DEF Spawns
    <3>5. QED  BY <1>0, <3>1, <3>4
  <2>2. QED  BY <1>b, <2>1, HoldsEffect
<1>1. CASE Launch
  <2>1. /\ h.pc = "launch" /\ h'.path = h.path /\ h'.seedTar = h.seedTar
        /\ kept' = kept /\ content' = content /\ h'.pc \in {"spawn", "raised"}
    BY <1>0, <1>1, LaunchFields, Kept DEF Launch
  <2>2. Traces' = Traces
    BY <2>1, SameTraces
  <2>3. CASE h.path = NoPid
    <3>1. h'.recovery = h.recovery /\ h.recovery = NoPid /\ kept = {}
      BY <1>0, <1>1, <2>3, LaunchFields DEF TracesOK
    <3>2. QED  BY <2>1, <2>3, <3>1 DEF TracesOK
  <2>4. CASE h.path # NoPid
    <3>1. h.spawn # NoPid
      BY <1>0, <2>4
    <3>2. content[h.path] = Traces /\ archives' = DumpedProfile
      BY <1>0, <1>1, <2>4, LaunchFields DEF TracesOK
    <3>3. h.spawn \in DOMAIN archives' /\ archives'[h.spawn] = Traces
      BY <3>2 DEF DumpedProfile, With
    <3>4. CASE h'.pc = "spawn" /\ h'.recovery = h.spawn
      BY <2>1, <2>2, <2>4, <3>1, <3>2, <3>3, <3>4 DEF TracesOK
    <3>5. CASE h'.pc = "raised"
      <4>1. ~InLaunch'
        BY <3>5 DEF InLaunch, Closing
      <4>2. QED  BY <2>1, <2>2, <2>4, <3>2, <3>5, <4>1 DEF TracesOK
    <3>6. QED  BY <1>0, <1>1, <2>4, <3>4, <3>5, LaunchFields
  <2>5. QED  BY <2>3, <2>4
<1>2. CASE Started \/ Progressed
  <2>1. InLaunch /\ h'.path = h.path /\ h'.recovery = h.recovery /\ h'.seedTar = h.seedTar
    <3>1. CASE Started
      BY <3>1, Kept DEF Started, InLaunch
    <3>2. CASE Progressed
      BY <3>2, Kept, ReadEffect DEF Progressed, MovedOn, InLaunch
    <3>3. QED  BY <1>2, <3>1, <3>2
  <2>2. ~Use /\ ~ClearProfile /\ ~Launch
    BY <2>1 DEF InLaunch, Closing, Use, ClearProfile, Launch
  <2>3. ~Ready
    <3>1. h'.pc = "await"
      <4>1. CASE Progressed
        BY <4>1, Kept, ReadEffect DEF Progressed, MovedOn
      <4>2. CASE Started
        BY <4>2 DEF Started
      <4>3. QED  BY <1>2, <4>1, <4>2
    <3>2. Ready => h'.pc = "idle"
      BY Zenon DEF Ready, Succeeded
    <3>3. QED  BY <3>1, <3>2
  <2>4. kept' = kept /\ archives' = archives
    BY <2>2, <2>3, HoldsEffect
  <2>5. Traces' = Traces
    BY <2>1, <2>4, SameTraces
  <2>6. QED  BY <1>a, <1>b, <2>1, <2>2, <2>4, <2>5 DEF TracesOK
<1>3. CASE Ready
  <2>1. h.pc = "await" /\ kept' = kept /\ content' = content
    BY <1>3, ReadEffect DEF Ready
  <2>2. /\ SameBut({"pc", "path", "tempdir", "waited", "launched"}) /\ h.next = 6 /\ h'.pc = "idle"
        /\ h'.path = h.spawn
    BY <1>3, Zenon DEF Ready, Succeeded
  <2>3. h'.spawn = h.spawn /\ h'.seedTar = h.seedTar
    BY <2>2, Kept
  <2>4. 6 > 2
    OBVIOUS
  <2>5. content[h.spawn] = Traces /\ h.spawn # NoPid
    BY <1>0, <2>1, <2>2, <2>4 DEF TracesOK, Announced, QueueOK
  <2>6. Traces' = Traces
    BY <2>1, <2>3, SameTraces
  <2>7. ~InLaunch'
    BY <2>2 DEF InLaunch, Closing
  <2>8. QED  BY <2>1, <2>2, <2>3, <2>5, <2>6, <2>7 DEF TracesOK
<1>4. CASE ClearProfile
  <2>1. h'.pc = "launch" /\ h'.path = NoPid /\ kept' = {}
    BY <1>0, <1>4, ClearFields DEF ClearProfile
  <2>2. h'.recovery = NoPid
    BY <1>0, <1>4, ClearFields DEF TracesOK
  <2>3. ~InLaunch'
    BY <2>1 DEF InLaunch, Closing
  <2>4. QED  BY <2>1, <2>2, <2>3 DEF TracesOK
<1>5. CASE Use
  <2>1. /\ h.pc = "idle" /\ kept' = kept \cup {h.path} /\ archives' = archives
        /\ content' = [content EXCEPT ![h.path] = @ \cup {h.path}]
    BY <1>5, Zenon DEF Use
  <2>2. h.path = h.spawn /\ h.path # NoPid
    BY <1>0, <2>1 DEF PathOK
  <2>3. /\ h'.path = h.path /\ h'.pc = h.pc /\ h'.seedTar = h.seedTar
    BY <1>0, <1>5, UseFields, Kept
  <2>4. h.path \in Spawns
    BY <2>2, LastSpawn, <1>0
  <2>5. content'[h.path] = content[h.path] \cup {h.path}
    BY <1>0, <2>1, <2>4
  <2>6. Traces' = Traces \cup {h.path}
    BY <2>1, <2>3 DEF Traces
  <2>7. ~InLaunch'
    BY <2>1, <2>3 DEF InLaunch, Closing
  <2>8. QED  BY <2>1, <2>2, <2>3, <2>5, <2>6, <2>7 DEF TracesOK
<1>6. ASSUME h'.path = h.path, h'.recovery = h.recovery, h'.seedTar = h.seedTar,
             InLaunch' => InLaunch, ~Use, ~ClearProfile, ~Launch, ~Ready
      PROVE  TracesOK'
  <2>1. kept' = kept /\ archives' = archives
    BY <1>6, HoldsEffect
  <2>2. Traces' = Traces
    BY <1>6, <2>1, SameTraces
  <2>3. QED  BY <1>a, <1>b, <1>6, <2>1, <2>2 DEF TracesOK
<1>7. CASE Tick /\ ~Use /\ ~ClearProfile /\ ~Launch /\ ~Ready
  <2>1. /\ h'.path = h.path /\ h'.recovery = h.recovery /\ h'.seedTar = h.seedTar
        /\ h'.pc = h.pc /\ h'.after = h.after
    BY <1>0, <1>7, TickFields, Kept
  <2>2. InLaunch' => InLaunch
    BY <2>1 DEF InLaunch, Closing
  <2>3. QED  BY <1>6, <1>7, <2>1, <2>2
<1>8. CASE Calm /\ ~Use /\ ~ClearProfile /\ ~Launch /\ ~Ready
  BY <1>6, <1>8, CalmFields, CalmTurns DEF SameHandle, Turned
<1>9. QED  BY <1>1, <1>2, <1>3, <1>4, <1>5, <1>7, <1>8, StepKinds

-----------------------------------------------------------------------------
(* The children of the browser manager, and the watchdog.                  *)
LEMMA DisplaysEffect ==
    ASSUME TypeOK, LiveOK, QueueOK, [Next]_vars
    PROVE  \/ /\ DOMAIN displays' \subseteq DOMAIN displays
              /\ Tick \/ \A x \in DOMAIN displays' : displays'[x] = displays[x]
           \/ /\ StartDisplay(h.spawn) /\ h' = h /\ stage[h.spawn] = "loaded"
              /\ stage'[h.spawn] = "displayed" /\ Xvfb
              /\ displays' = With(displays, h.spawn, 0)
<1>1. ASSUME NEW S, displays' = Drop(displays, S)
      PROVE  /\ DOMAIN displays' \subseteq DOMAIN displays
             /\ \A x \in DOMAIN displays' : displays'[x] = displays[x]
  BY <1>1 DEF Drop
<1>2. CASE Tick
  BY <1>2 DEF Tick, Older
<1>3. CASE displays' = displays
  BY <1>3
<1>4. ASSUME NEW n \in Spawns, StartDisplay(n), Xvfb
      PROVE  /\ StartDisplay(h.spawn) /\ h' = h /\ stage[h.spawn] = "loaded"
             /\ stage'[h.spawn] = "displayed" /\ Xvfb
             /\ displays' = With(displays, h.spawn, 0)
  <2>1. ProcessNext(n)
    BY <1>4 DEF ProcessNext
  <2>2. n = h.spawn /\ h' = h
    BY <2>1, ProcessEffect
  <2>3. /\ stage[n] = "loaded" /\ displays' = With(displays, n, 0)
        /\ stage' = [stage EXCEPT ![n] = "displayed"]
    BY <1>4 DEF StartDisplay, Advance
  <2>4. stage'[n] = "displayed"
    BY <2>3 DEF TypeOK, ProcessesOK
  <2>5. QED  BY <1>4, <2>2, <2>3, <2>4
<1>5. ASSUME NEW n \in Spawns, StartDisplay(n), ~Xvfb PROVE displays' = displays
  BY <1>5 DEF StartDisplay
<1>6. CASE Forced
  BY <1>1, <1>3, <1>6, ForceEffect
<1>7. QED
  BY <1>1, <1>2, <1>3, <1>4, <1>5, <1>6
     DEF Forced, Next, HandleNext, ProcessNext, Launch, Spawn, ReadStatus, SpawnTimesOut, DiscardProfile,
         Use, Restart, ClearProfile, ShutdownBrowser, ArchiveProfile, SendShutdown, AwaitClose,
         Kill, KillProcesses, CreateProfile, LoadProfile, StartWebdriver, AttemptLaunch,
         InstallExtension, ConnectExtension, BecomeReady, ProcessFails, TakeShutdown, EndProcess,
         WatchdogScans, WatchdogReaps, vars, children

LEMMA DisplayOnlyStep ==
    ASSUME TypeOK, LiveOK, QueueOK, DisplayOnly, [Next]_vars
    PROVE  DisplayOnly'
  BY DisplaysEffect DEF DisplayOnly

(* The ages that a step leaves as they are.                                *)
LEMMA GeckosStay ==
    ASSUME TypeOK, LiveOK, QueueOK, [Next]_vars, ~Tick, ~StartWebdriver(h.spawn)
    PROVE  \A x \in DOMAIN geckos' : x \in DOMAIN geckos /\ geckos'[x] = geckos[x]
<1>1. ASSUME NEW S, geckos' = Drop(geckos, S)
      PROVE  \A x \in DOMAIN geckos' : x \in DOMAIN geckos /\ geckos'[x] = geckos[x]
  BY <1>1 DEF Drop
<1>2. CASE geckos' = geckos
  BY <1>2
<1>3. ASSUME NEW n \in Spawns, StartWebdriver(n) PROVE FALSE
  <2>1. ProcessNext(n)
    BY <1>3 DEF ProcessNext
  <2>2. QED  BY <1>3, <2>1, ProcessEffect
<1>4. CASE Forced
  BY <1>1, <1>2, <1>4, ForceEffect
<1>5. QED
  BY <1>1, <1>2, <1>3, <1>4
     DEF Forced, Next, HandleNext, ProcessNext, Launch, Spawn, ReadStatus, SpawnTimesOut, DiscardProfile,
         Use, Restart, ClearProfile, ShutdownBrowser, ArchiveProfile, SendShutdown, AwaitClose,
         Kill, KillProcesses, CreateProfile, LoadProfile, StartDisplay, AttemptLaunch,
         InstallExtension, ConnectExtension, BecomeReady, ProcessFails, TakeShutdown, EndProcess,
         WatchdogScans, WatchdogReaps, vars, children

(* Whoever is alive after a step was alive before, or has just been        *)
(* started.                                                                *)
LEMMA AliveBefore ==
    ASSUME TypeOK, LiveOK, QueueOK, [Next]_vars, ~Started, NEW n \in Spawns, ~Dead(n)'
    PROVE  ~Dead(n)
<1>0. stage \in [Spawns -> Stages]
  BY DEF TypeOK, ProcessesOK
<1>1. CASE stage' = stage
  BY <1>1 DEF Dead
<1>2. CASE Kill
  <2>1. stage' = [stage EXCEPT ![h.spawn] = "gone"]
    BY <1>2 DEF Kill, KillProcesses
  <2>2. QED  BY <1>0, <2>1 DEF Dead
<1>3. CASE \E m \in Spawns : ProcessNext(m)
  <2>1. PICK m \in Spawns : ProcessNext(m)
    BY <1>3
  <2>2. ~Dead(m) /\ WellMoved(m)
    BY <2>1, ProcessEffect, MoveEffect
  <2>3. QED  BY <2>2 DEF WellMoved, Dead
<1>4. CASE Spawn
  <2>1. h.pc = "spawn"
    BY <1>4 DEF Spawn
  <2>2. QED  BY <1>1, <1>4, <2>1, SpawnFields, ShapeOK DEF TypeOK, Started
<1>5. CASE Restart \/ ShutdownBrowser
  <2>1. stage' = stage
    BY <1>5, Zenon DEF Restart, ShutdownBrowser
  <2>2. QED  BY <1>1, <2>1
<1>6. CASE Forced
  BY <1>0, <1>1, <1>6, ForceEffect DEF Dead
<1>7. QED
  BY <1>1, <1>2, <1>3, <1>4, <1>5, <1>6
     DEF Forced, Next, HandleNext, Launch, ReadStatus, SpawnTimesOut, DiscardProfile, Use, ClearProfile,
         ArchiveProfile, SendShutdown, AwaitClose, Tick, WatchdogScans, WatchdogReaps, vars

LEMMA ScanStep ==
    ASSUME TypeOK, LiveOK, QueueOK, GeckoAge, DisplayAge, ScanOK, [Next]_vars
    PROVE  ScanOK'
<1>0. h.spawn \in 0 .. MaxSpawns /\ h'.spawn \in Nat /\ h.spawn <= h'.spawn /\ MaxSpawns \in Nat
  BY HandleStep, LaunchAssumption DEF TypeOK, HandleOK
<1>1. \A n \in 1 .. h.spawn : Dead(n) => Dead(n)'
  <2>1. SUFFICES ASSUME NEW n \in 1 .. h.spawn, Dead(n) PROVE Dead(n)'
    OBVIOUS
  <2>2. n \in Spawns
    BY <1>0 DEF Spawns
  <2>3. CASE Started
    <3>1. stage' = [stage EXCEPT ![h.spawn + 1] = "boot"] /\ n # h.spawn + 1
      BY <1>0, <2>3 DEF Started
    <3>2. stage'[n] = stage[n]
      BY <2>2, <3>1 DEF TypeOK, ProcessesOK
    <3>3. QED  BY <2>1, <3>2 DEF Dead
  <2>4. QED  BY <2>1, <2>2, <2>3, AliveBefore
<1>2. CASE scan' = scan
  <2>1. \A n \in 1 .. h.spawn : n \in 1 .. h'.spawn
    BY <1>0
  <2>2. QED  BY <1>1, <1>2, <2>1 DEF ScanOK
<1>3. CASE scan' = NoScan
  BY <1>3 DEF ScanOK, NoScan
<1>4. CASE WatchdogScans
  <2>1. h' = h /\ stage' = stage /\ scan' = Uncontrolled
    BY <1>4 DEF WatchdogScans
  <2>2. Ages(geckos, h.spawn) /\ Ages(displays, h.spawn)
    BY DEF TypeOK, ProcessesOK
  <2>3. ReapAge \in Nat /\ SpawnTimeout \in Nat /\ SpawnTimeout < ReapAge
        /\ h.waited \in 0 .. SpawnTimeout
    BY LaunchAssumption, ReapAssumption DEF TypeOK, HandleOK
  <2>4. ASSUME NEW n \in OldOnes(geckos) \ {h.gecko} PROVE n \in 1 .. h.spawn /\ Dead(n)
    <3>1. n \in DOMAIN geckos /\ geckos[n] >= ReapAge /\ h.gecko # n /\ n \in 1 .. h.spawn
          /\ geckos[n] \in Nat
      BY <2>2, <2>4 DEF OldOnes, Ages
    <3>2. n = h.spawn /\ ~Dead(n) => geckos[n] <= SpawnTimeout
      <4>1. CASE h.next = 5
        BY <1>0, <2>3, <3>1, <4>1 DEF GeckoAge
      <4>2. CASE h.next # 5
        BY <1>0, <2>3, <3>1, <4>2 DEF GeckoAge
      <4>3. QED  BY <4>1, <4>2
    <3>3. ~Dead(n) => n = h.spawn
      BY <1>0, <3>1 DEF LiveOK, Spawns
    <3>4. QED  BY <2>3, <3>1, <3>2, <3>3
  <2>5. ASSUME NEW n \in OldOnes(displays) \ {h.display} PROVE n \in 1 .. h.spawn /\ Dead(n)
    <3>1. n \in DOMAIN displays /\ displays[n] >= ReapAge /\ h.display # n /\ n \in 1 .. h.spawn
      BY <2>2, <2>5 DEF OldOnes, Ages
    <3>2. n = h.spawn /\ ~Dead(n) => displays[n] = 0
      BY <1>0, <3>1 DEF DisplayAge
    <3>3. ~Dead(n) => n = h.spawn
      BY <1>0, <3>1 DEF LiveOK, Spawns
    <3>4. QED  BY <2>3, <3>1, <3>2, <3>3
  <2>6. /\ scan' = [on |-> scan'.on, geckos |-> scan'.geckos, displays |-> scan'.displays]
        /\ scan'.geckos = OldOnes(geckos) \ {h.gecko}
        /\ scan'.displays = OldOnes(displays) \ {h.display}
    BY <2>1 DEF Uncontrolled
  <2>7. scan'.geckos \cup scan'.displays \subseteq {n \in 1 .. h.spawn : Dead(n)}
    BY <2>4, <2>5, <2>6
  <2>8. QED  BY <2>1, <2>6, <2>7 DEF ScanOK, Dead
<1>5. CASE Restart \/ ShutdownBrowser
  <2>1. scan' = scan
    BY <1>5, Zenon DEF Restart, ShutdownBrowser
  <2>2. QED  BY <1>2, <2>1
<1>6. CASE \E n \in Spawns : ProcessNext(n)
  BY <1>2, <1>6, ProcessEffect
<1>7. CASE Forced
  BY <1>2, <1>7, ForceEffect
<1>8. QED
  BY <1>2, <1>3, <1>4, <1>5, <1>6, <1>7
     DEF Forced, Next, HandleNext, Launch, Spawn, ReadStatus, SpawnTimesOut, DiscardProfile, Use,
         ClearProfile, ArchiveProfile, SendShutdown, AwaitClose, Kill, Tick, WatchdogReaps, vars

LEMMA GeckoAgeStep ==
    ASSUME TypeOK, LiveOK, QueueOK, KnownPids, GeckoAge, [Next]_vars
    PROVE  GeckoAge'
<1>0. /\ Shape /\ HandleOK /\ h.spawn \in 0 .. MaxSpawns /\ h.next \in 1 .. 6
      /\ h.waited \in 0 .. SpawnTimeout /\ SpawnTimeout \in Nat /\ Ages(geckos, h.spawn)
      /\ stage \in [Spawns -> Stages]
  BY ShapeOK, LaunchAssumption DEF TypeOK, HandleOK, ProcessesOK
<1> SUFFICES ASSUME h'.spawn # 0, stage'[h'.spawn] \notin {"none", "gone"},
                    h'.spawn \in DOMAIN geckos'
             PROVE  /\ stage'[h'.spawn] \in {"spawned", "launched", "connected", "serving"}
                    /\ h'.gecko # h'.spawn =>
                         geckos'[h'.spawn] <= IF h'.next = 5 THEN h'.waited ELSE 0
  BY DEF GeckoAge, Dead
<1>1. CASE StartWebdriver(h.spawn)
  <2>1. /\ stage[h.spawn] = "attempted" /\ stage' = [stage EXCEPT ![h.spawn] = "spawned"]
        /\ geckos' = With(geckos, h.spawn, 0) /\ h' = h
    BY <1>1 DEF StartWebdriver, Advance
  <2>2. stage'[h.spawn] = "spawned" /\ geckos'[h.spawn] = 0
    BY <1>0, <2>1, LastSpawn DEF With
  <2>3. 0 <= h.waited /\ 0 <= 0
    BY <1>0
  <2>4. QED  BY <2>1, <2>2, <2>3
<1>2. CASE Started
  <2>1. h'.spawn = h.spawn + 1
    BY <1>2 DEF Started
  <2>2. h'.spawn \notin DOMAIN geckos
    BY <1>0, <2>1 DEF Ages
  <2>3. ~Tick /\ ~StartWebdriver(h.spawn)
    <3>1. h'.spawn # h.spawn
      BY <1>0, <2>1
    <3>2. QED  BY <1>0, <3>1, TickFields, Kept DEF StartWebdriver
  <2>4. QED  BY <2>2, <2>3, GeckosStay
(* In every other step the same browser manager is alive.                  *)
<1> DEFINE s == h.spawn
<1>3. ASSUME ~Started, ~StartWebdriver(s), h'.spawn = s
      PROVE  /\ s # 0 /\ ~Dead(s) /\ s \in DOMAIN geckos
             /\ stage[s] \in {"spawned", "launched", "connected", "serving"}
             /\ stage'[s] \in {"spawned", "launched", "connected", "serving"}
             /\ h.gecko # s => geckos[s] <= IF h.next = 5 THEN h.waited ELSE 0
  <2>1. s # 0 /\ s \in Spawns
    BY <1>3, LastSpawn
  <2>2. ~Dead(s)
    <3>1. ~Dead(s)'
      BY <1>3 DEF Dead
    <3>2. QED  BY <1>3, <2>1, <3>1, AliveBefore
  <2>3. s \in DOMAIN geckos
    <3>1. CASE Tick
      BY <1>3, <3>1 DEF Tick, Older
    <3>2. CASE ~Tick
      BY <1>3, <3>2, GeckosStay
    <3>3. QED  BY <3>1, <3>2
  <2>4. /\ stage[s] \in {"spawned", "launched", "connected", "serving"}
        /\ h.gecko # s => geckos[s] <= IF h.next = 5 THEN h.waited ELSE 0
    BY <2>1, <2>2, <2>3 DEF GeckoAge
  <2>5. stage'[s] \in {"spawned", "launched", "connected", "serving"}
    <3>1. CASE stage' = stage
      BY <2>4, <3>1
    <3>2. CASE Kill
      <4>1. stage'[s] = "gone"
        BY <1>0, <2>1, <3>2 DEF Kill, KillProcesses
      <4>2. QED  BY <1>3, <4>1 DEF Dead
    <3>3. CASE \E n \in Spawns : ProcessNext(n)
      <4>1. PICK n \in Spawns : ProcessNext(n)
        BY <3>3
      <4>2. n = s
        BY <4>1, ProcessEffect
      <4>3. CASE TakeShutdown(n)
        <5>1. geckos' = Drop(geckos, {n})
          BY <4>3 DEF TakeShutdown
        <5>2. n \notin DOMAIN geckos'
          BY <5>1 DEF Drop
        <5>3. QED  BY <1>3, <4>2, <5>2
      <4>4. CASE ProcessFails(n)
        <5>1. stage'[n] = "gone"
          BY <1>0, <4>4 DEF ProcessFails
        <5>2. QED  BY <1>3, <4>2, <5>1 DEF Dead
      <4>5. CASE InstallExtension(n) \/ ConnectExtension(n) \/ BecomeReady(n)
        BY <1>0, <2>1, <4>2, <4>5 DEF InstallExtension, ConnectExtension, BecomeReady, Advance
      <4>6. stage[n] \notin {"boot", "created", "loaded", "displayed", "attempted", "ending"}
        BY <2>4, <4>2
      <4>7. QED
        BY <4>1, <4>3, <4>4, <4>5, <4>6
           DEF ProcessNext, CreateProfile, LoadProfile, StartDisplay, AttemptLaunch,
               StartWebdriver, EndProcess, Advance
    <3>4. CASE Spawn
      <4>1. stage' = stage
        BY <1>0, <1>3, <3>4, SpawnFields DEF Started, Spawn
      <4>2. QED  BY <2>4, <4>1
    <3>5. CASE Restart \/ ShutdownBrowser
      <4>1. stage' = stage
        BY <3>5, Zenon DEF Restart, ShutdownBrowser
      <4>2. QED  BY <2>4, <4>1
    <3>6. CASE Forced
      <4>1. ASSUME stage' = [stage EXCEPT ![h.spawn] = "gone"] PROVE stage'[h.spawn] = "gone"
        BY <1>0, <2>1, <4>1
      <4>2. QED  BY <1>3, <3>1, <3>6, <4>1, ForceEffect DEF Dead
    <3>7. QED
      BY <3>1, <3>2, <3>3, <3>4, <3>5, <3>6
         DEF Forced, Next, HandleNext, Launch, ReadStatus, SpawnTimesOut, DiscardProfile, Use,
             ClearProfile, ArchiveProfile, SendShutdown, AwaitClose, Tick, WatchdogScans,
             WatchdogReaps, vars
  <2>6. QED  BY <2>1, <2>2, <2>3, <2>4, <2>5
<1> HIDE DEF s
<1>4. ASSUME ~Started, ~StartWebdriver(h.spawn), ~Tick, h'.spawn = h.spawn,
             h'.gecko = h.gecko \/ h'.gecko = h.spawn,
             h.next # 5 \/ h'.gecko = h.spawn \/ (h'.next = h.next /\ h'.waited = h.waited),
             h'.waited \in Nat
      PROVE  /\ stage'[h'.spawn] \in {"spawned", "launched", "connected", "serving"}
             /\ h'.gecko # h'.spawn =>
                  geckos'[h'.spawn] <= IF h'.next = 5 THEN h'.waited ELSE 0
  <2>1. geckos'[h.spawn] = geckos[h.spawn] /\ geckos[h.spawn] \in Nat
    BY <1>0, <1>3, <1>4, GeckosStay DEF s, Ages
  <2>2. stage'[h.spawn] \in {"spawned", "launched", "connected", "serving"}
    BY <1>3, <1>4 DEF s
  <2>3. SUFFICES ASSUME h'.gecko # h.spawn
                 PROVE  geckos'[h'.spawn] <= IF h'.next = 5 THEN h'.waited ELSE 0
    BY <1>4, <2>2
  <2>4. h.gecko # h.spawn /\ (h.next # 5 \/ (h'.next = h.next /\ h'.waited = h.waited))
    BY <1>4, <2>3
  <2>5. geckos[h.spawn] <= IF h.next = 5 THEN h.waited ELSE 0
    BY <1>3, <1>4, <2>4 DEF s
  <2>6. CASE h.next = 5
    BY <1>0, <1>4, <2>1, <2>4, <2>5, <2>6
  <2>7. CASE h.next # 5
    <3>1. geckos[h.spawn] <= 0
      BY <2>5, <2>7
    <3>2. QED  BY <1>4, <2>1, <3>1
  <2>8. QED  BY <2>6, <2>7
<1>5. h'.waited \in Nat
  BY HandleStep, <1>0 DEF HandleOK
<1>6. CASE Launch \/ ClearProfile
  <2>1. /\ h'.spawn = h.spawn /\ h'.gecko = h.gecko /\ h'.next = h.next /\ h'.waited = h.waited
        /\ h'.pc # "await" /\ ~Tick
    <3>1. CASE Launch
      BY <1>0, <3>1, LaunchFields, Kept DEF Launch, Tick, AtBound
    <3>2. CASE ClearProfile
      BY <1>0, <3>2, ClearFields, Kept DEF ClearProfile, Tick, AtBound
    <3>3. QED  BY <1>6, <3>1, <3>2
  <2>2. ~Started
    BY <2>1 DEF Started
  <2>3. QED  BY <1>1, <1>4, <1>5, <2>1, <2>2
<1>7. CASE Progressed
  <2>1. /\ h.pc = "await" /\ queue # <<>> /\ h'.spawn = h.spawn
        /\ h'.gecko = (IF h.next = 5 THEN h.spawn ELSE h.gecko)
    BY <1>7, ReadEffect, Kept DEF Progressed, MovedOn
  <2>2. ~Tick /\ ~Started
    BY <2>1 DEF Tick, Started
  <2>3. QED  BY <1>1, <1>4, <1>5, <2>1, <2>2
<1>8. CASE Ready
  <2>1. h.pc = "await" /\ queue # <<>>
    BY <1>8, ReadEffect DEF Ready
  <2>2. SameBut({"pc", "path", "tempdir", "waited", "launched"}) /\ h.next = 6
    BY <1>8, Zenon DEF Ready, Succeeded
  <2>3. h'.spawn = h.spawn /\ h'.gecko = h.gecko /\ h.next # 5
    BY <2>2, Kept
  <2>4. ~Tick /\ ~Started
    BY <2>1 DEF Tick, Started
  <2>5. QED  BY <1>1, <1>4, <1>5, <2>3, <2>4
<1>9. CASE Tick
  <2>1. /\ h'.spawn = h.spawn /\ h'.gecko = h.gecko /\ h'.next = h.next /\ h'.pc = h.pc
        /\ h'.after = h.after
    BY <1>0, <1>9, TickFields, Kept
  <2>2. ~Started /\ ~StartWebdriver(h.spawn)
    <3>1. ~Started
      BY <1>0, <2>1 DEF Started
    <3>2. h' = h /\ StartWebdriver(h.spawn) => FALSE
      <4>1. stage' = stage
        BY <1>9 DEF Tick
      <4>2. h.spawn \in Spawns => ~Advance(h.spawn, "attempted", "spawned")
        BY <1>0, <4>1 DEF Advance
      <4>3. QED  BY <2>1, <4>2, LastSpawn DEF StartWebdriver
    <3>3. StartWebdriver(h.spawn) => h' = h
      BY DEF StartWebdriver
    <3>4. QED  BY <3>1, <3>2, <3>3
  <2>3. /\ h.spawn # 0 /\ ~Dead(h.spawn) /\ h.spawn \in DOMAIN geckos
        /\ stage[h.spawn] \in {"spawned", "launched", "connected", "serving"}
        /\ stage'[h.spawn] \in {"spawned", "launched", "connected", "serving"}
        /\ h.gecko # h.spawn => geckos[h.spawn] <= IF h.next = 5 THEN h.waited ELSE 0
    BY <1>3, <2>1, <2>2 DEF s
  <2>4. SUFFICES ASSUME h.gecko # h.spawn
                 PROVE  geckos'[h.spawn] <= IF h.next = 5 THEN h'.waited ELSE 0
    BY <2>1, <2>3
  <2>5. ~Known(6)
    BY <2>4 DEF KnownPids
  <2>6. h.pc = "await"
    <3>1. h.pc \in {"await", "idle", "raised", "gaveUp", "spawn"}
      BY <1>9 DEF Tick, AtBound
    <3>2. h.pc \in {"await", "idle"}
      BY <2>3, <3>1, LastSpawn DEF LiveOK, Closing
    <3>3. h.pc = "idle" => Known(6)
      BY <2>3 DEF Known, InLaunch, Closing
    <3>4. QED  BY <2>5, <3>2, <3>3
  <2>7. queue = <<>> /\ h'.waited = h.waited + 1
    BY <1>0, <1>9, <2>6, TickFields
  <2>8. h.next = 5
    <3>1. Len(queue) = Reported(stage[h.spawn]) + 1 - h.next /\ Len(queue) = 0
      BY <2>3, <2>6, <2>7 DEF QueueOK
    <3>2. Reported(stage[h.spawn]) \in {4, 5, 6}
      BY <2>3 DEF Reported
    <3>3. h.next \in {5, 6}
      BY <1>0, <3>1, <3>2
    <3>4. h.next = 6 => Known(6)
      <4>1. 6 >= 6
        OBVIOUS
      <4>2. QED  BY <2>6, <4>1 DEF Known, Trying, InLaunch
    <3>5. QED  BY <2>5, <3>3, <3>4
  <2>9. geckos'[h.spawn] <= geckos[h.spawn] + 1 /\ geckos[h.spawn] \in Nat
        /\ geckos'[h.spawn] \in Nat
    BY <1>0, <1>9, <2>3, OlderAges DEF Tick, Ages
  <2>10. geckos[h.spawn] <= h.waited
    BY <2>3, <2>4, <2>8
  <2>11. QED  BY <1>0, <2>7, <2>8, <2>9, <2>10
<1>10. CASE Calm
  <2>1. SameHandle
    BY <1>10, CalmFields
  <2>2. ~Started
    BY <1>0, <2>1 DEF Started, SameHandle
  <2>3. QED  BY <1>1, <1>4, <1>5, <1>9, <2>1, <2>2 DEF SameHandle
<1>11. QED  BY <1>2, <1>6, <1>7, <1>8, <1>9, <1>10, StepKinds

LEMMA DisplayAgeStep ==
    ASSUME TypeOK, LiveOK, QueueOK, KnownPids, DisplayOnly, DisplayAge, [Next]_vars
    PROVE  DisplayAge'
<1>0. /\ Shape /\ HandleOK /\ h.spawn \in 0 .. MaxSpawns /\ h.next \in 1 .. 6
      /\ Ages(displays, h.spawn) /\ stage \in [Spawns -> Stages]
  BY ShapeOK, LaunchAssumption DEF TypeOK, HandleOK, ProcessesOK
<1> SUFFICES ASSUME h'.spawn # 0, stage'[h'.spawn] \notin {"none", "gone"},
                    h'.spawn \in DOMAIN displays'
             PROVE  /\ stage'[h'.spawn] \notin {"boot", "created", "loaded"}
                    /\ h'.display # h'.spawn => displays'[h'.spawn] = 0
  BY DEF DisplayAge, Dead
<1>1. CASE StartDisplay(h.spawn) /\ h' = h /\ stage'[h.spawn] = "displayed"
           /\ displays' = With(displays, h.spawn, 0)
  BY <1>1 DEF With
<1> DEFINE Stays == /\ DOMAIN displays' \subseteq DOMAIN displays
                    /\ Tick \/ \A x \in DOMAIN displays' : displays'[x] = displays[x]
<1>2. CASE Started /\ Stays
  <2>1. h'.spawn = h.spawn + 1
    BY <1>2 DEF Started
  <2>2. h'.spawn \notin DOMAIN displays
    BY <1>0, <2>1 DEF Ages
  <2>3. QED  BY <1>2, <2>2
<1>3. ASSUME ~Started, Stays, h'.spawn = h.spawn
      PROVE  /\ h.spawn # 0 /\ ~Dead(h.spawn) /\ h.spawn \in DOMAIN displays
             /\ stage[h.spawn] \notin {"none", "boot", "created", "loaded"}
             /\ stage'[h.spawn] \notin {"boot", "created", "loaded"}
             /\ h.display # h.spawn => displays[h.spawn] = 0
  <2>1. h.spawn # 0 /\ h.spawn \in Spawns /\ h.spawn \in DOMAIN displays
    BY <1>3, LastSpawn
  <2>2. ~Dead(h.spawn)
    <3>1. PICK n \in Spawns : n = h.spawn
      BY <2>1
    <3>2. ~Dead(n)'
      BY <1>3, <3>1 DEF Dead
    <3>3. QED  BY <1>3, <3>1, <3>2, AliveBefore
  <2>3. /\ stage[h.spawn] \notin {"none", "boot", "created", "loaded"}
        /\ h.display # h.spawn => displays[h.spawn] = 0
    BY <2>1, <2>2 DEF DisplayAge, Dead
  <2>4. stage'[h.spawn] \notin {"boot", "created", "loaded"}
    <3>1. CASE stage' = stage
      BY <2>3, <3>1
    <3>2. CASE Kill
      <4>1. stage'[h.spawn] = "gone"
        BY <1>0, <2>1, <3>2 DEF Kill, KillProcesses
      <4>2. QED  BY <4>1
    <3>3. CASE \E n \in Spawns : ProcessNext(n)
      <4>1. PICK n \in Spawns : ProcessNext(n)
        BY <3>3
      <4>2. n = h.spawn
        BY <4>1, ProcessEffect
      <4>3. ~CreateProfile(n) /\ ~LoadProfile(n) /\ ~StartDisplay(n)
        BY <2>3, <4>2 DEF CreateProfile, LoadProfile, StartDisplay, Advance
      <4>4. stage'[n] \notin {"boot", "created", "loaded"}
        <5>1. CASE ProcessFails(n)
          BY <1>0, <5>1 DEF ProcessFails
        <5>2. CASE \/ AttemptLaunch(n) \/ StartWebdriver(n) \/ InstallExtension(n)
                   \/ ConnectExtension(n) \/ BecomeReady(n) \/ TakeShutdown(n) \/ EndProcess(n)
          BY <1>0, <5>2 DEF AttemptLaunch, StartWebdriver, InstallExtension, ConnectExtension,
                            BecomeReady, TakeShutdown, EndProcess, Advance
        <5>3. QED  BY <4>1, <4>3, <5>1, <5>2 DEF ProcessNext
      <4>5. QED  BY <4>2, <4>4
    <3>4. CASE Spawn
      <4>1. stage' = stage
        BY <1>0, <1>3, <3>4, SpawnFields DEF Started, Spawn
      <4>2. QED  BY <2>3, <4>1
    <3>5. CASE Restart \/ ShutdownBrowser
      <4>1. stage' = stage
        BY <3>5, Zenon DEF Restart, ShutdownBrowser
      <4>2. QED  BY <2>3, <4>1
    <3>6. CASE Forced
      <4>1. ASSUME stage' = [stage EXCEPT ![h.spawn] = "gone"] PROVE stage'[h.spawn] = "gone"
        BY <1>0, <2>1, <4>1
      <4>2. QED  BY <3>1, <3>6, <4>1, ForceEffect
    <3>7. QED
      BY <3>1, <3>2, <3>3, <3>4, <3>5, <3>6
         DEF Forced, Next, HandleNext, Launch, ReadStatus, SpawnTimesOut, DiscardProfile, Use,
             ClearProfile, ArchiveProfile, SendShutdown, AwaitClose, Tick, WatchdogScans,
             WatchdogReaps, vars
  <2>5. QED  BY <2>1, <2>2, <2>3, <2>4
<1>4. ASSUME ~Started, ~Tick, Stays, h'.spawn = h.spawn, h'.display \in {h.display, h.spawn}
      PROVE  /\ stage'[h'.spawn] \notin {"boot", "created", "loaded"}
             /\ h'.display # h'.spawn => displays'[h'.spawn] = 0
  BY <1>3, <1>4
<1>5. CASE Tick /\ Stays
  <2>1. /\ h'.spawn = h.spawn /\ h'.display = h.display
    BY <1>0, <1>5, TickFields, Kept
  <2>2. ~Started
    BY <1>0, <2>1 DEF Started
  <2>3. /\ h.spawn # 0 /\ ~Dead(h.spawn) /\ h.spawn \in DOMAIN displays
        /\ stage[h.spawn] \notin {"none", "boot", "created", "loaded"}
        /\ stage'[h.spawn] \notin {"boot", "created", "loaded"}
    BY <1>3, <1>5, <2>1, <2>2
  <2>4. Xvfb
    BY <2>3 DEF DisplayOnly
  <2>5. Known(4)
    <3>1. h.pc \in {"await", "idle", "raised", "gaveUp", "spawn"}
      BY <1>5 DEF Tick, AtBound
    <3>2. h.pc \in {"await", "idle"}
      BY <2>3, <3>1, LastSpawn DEF LiveOK, Closing
    <3>3. CASE h.pc = "idle"
      BY <2>3, <3>3 DEF Known, InLaunch, Closing, Dead
    <3>4. CASE h.pc = "await"
      <4>1. queue = <<>>
        BY <1>0, <1>5, <3>4, TickFields
      <4>2. Len(queue) = Reported(stage[h.spawn]) + 1 - h.next /\ Len(queue) = 0
        BY <2>3, <3>4, <4>1 DEF QueueOK, Dead
      <4>3. Reported(stage[h.spawn]) \in 3 .. 6
        BY <2>3 DEF Reported
      <4>4. h.next >= 4
        BY <1>0, <4>2, <4>3
      <4>5. QED  BY <3>4, <4>4 DEF Known, Trying, InLaunch
    <3>5. QED  BY <3>2, <3>3, <3>4
  <2>6. h.display = h.spawn
    BY <2>4, <2>5 DEF KnownPids
  <2>7. QED  BY <2>1, <2>3, <2>6
<1>6. CASE (Launch \/ ClearProfile) /\ Stays /\ ~Tick
  <2>1. h'.spawn = h.spawn /\ h'.display = h.display /\ h'.pc # "await"
    BY <1>0, <1>6, LaunchFields, ClearFields, Kept
  <2>2. ~Started
    BY <2>1 DEF Started
  <2>3. QED  BY <1>4, <1>6, <2>1, <2>2
<1>7. CASE Progressed /\ Stays /\ ~Tick
  <2>1. /\ h.pc = "await" /\ h'.spawn = h.spawn
        /\ h'.display = (IF h.next # 3 THEN h.display ELSE IF Xvfb THEN h.spawn ELSE NoPid)
    BY <1>7, ReadEffect, Kept DEF Progressed, MovedOn
  <2>2. Xvfb
    <3>1. DOMAIN displays # {}
      BY <1>7
    <3>2. QED  BY <3>1 DEF DisplayOnly
  <2>3. ~Started
    BY <2>1 DEF Started
  <2>4. h'.display \in {h.display, h.spawn}
    BY <2>1, <2>2
  <2>5. QED  BY <1>4, <1>7, <2>1, <2>3, <2>4
<1>8. CASE Ready /\ Stays /\ ~Tick
  <2>1. h.pc = "await"
    BY <1>8, ReadEffect DEF Ready
  <2>2. SameBut({"pc", "path", "tempdir", "waited", "launched"})
    BY <1>8, Zenon DEF Ready, Succeeded
  <2>3. h'.spawn = h.spawn /\ h'.display = h.display
    BY <2>2, Kept
  <2>4. ~Started
    BY <2>1 DEF Started
  <2>5. QED  BY <1>4, <1>8, <2>3, <2>4
<1>9. CASE Calm /\ Stays /\ ~Tick
  <2>1. SameHandle
    BY <1>9, CalmFields
  <2>2. ~Started
    BY <1>0, <2>1 DEF Started, SameHandle
  <2>3. QED  BY <1>4, <1>9, <2>1, <2>2 DEF SameHandle
<1>10. QED
  BY <1>1, <1>2, <1>5, <1>6, <1>7, <1>8, <1>9, StepKinds, DisplaysEffect

-----------------------------------------------------------------------------
(* The invariant, and the theorems.                                        *)
LaunchIndInv == TypeOK /\ LaunchInv /\ ProfileInv /\ WatchdogInv

LEMMA LaunchInit == Init => LaunchIndInv
<1> SUFFICES ASSUME Init PROVE LaunchIndInv
  OBVIOUS
<1>1. TypeOK /\ LiveOK
  BY TypesInit, InitLive
<1>2. PICK seedTar \in BOOLEAN :
        h = [pc |-> "launch", after |-> "none", next |-> 1, spawn |-> 0, tries |-> 0,
             waited |-> 0, path |-> NoPid, seen |-> FALSE, tempdir |-> NoPid,
             recovery |-> NoPid, gecko |-> NoPid, display |-> NoPid, fresh |-> TRUE,
             seedTar |-> seedTar, launched |-> FALSE]
  BY DEF Init
<1>3. h.pc = "launch" /\ h.spawn = 0 /\ h.path = NoPid /\ h.recovery = NoPid
  BY <1>2
<1>4. /\ queue = <<>> /\ kept = {} /\ geckos = <<>> /\ displays = <<>> /\ scan = NoScan
  BY DEF Init
<1>5. DOMAIN queue = {} /\ DOMAIN displays = {} /\ DOMAIN geckos = {}
  BY <1>4
<1>6. ~InLaunch /\ ~Trying
  BY <1>3 DEF InLaunch, Trying, Closing
<1>7. QueueOK /\ AnswerOK
  BY <1>3, <1>5 DEF QueueOK, AnswerOK
<1>8. PathOK /\ TracesOK
  BY <1>3, <1>4, <1>6 DEF PathOK, TracesOK
<1>9. KnownPids /\ PathGecko
  BY <1>3, <1>6 DEF KnownPids, PathGecko, Known
<1>10. DisplayOnly /\ GeckoAge /\ DisplayAge
  BY <1>3, <1>5 DEF DisplayOnly, GeckoAge, DisplayAge
<1>11. ScanOK
  BY <1>4 DEF ScanOK, NoScan
<1>12. QED
  BY <1>1, <1>7, <1>8, <1>9, <1>10, <1>11
     DEF LaunchIndInv, LaunchInv, ProfileInv, WatchdogInv

LEMMA LaunchStep == LaunchIndInv /\ [Next]_vars => LaunchIndInv'
<1> SUFFICES ASSUME LaunchIndInv, [Next]_vars PROVE LaunchIndInv'
  OBVIOUS
<1> USE DEF LaunchIndInv, LaunchInv, ProfileInv, WatchdogInv
<1>1. TypeOK'
  BY TypesStep
<1>2. LaunchInv'
  BY LiveStep, QueueStep, AnswerStep
<1>3. ProfileInv'
  BY PathStep, TracesStep, PidsStep, PathGeckoStep
<1>4. WatchdogInv'
  BY DisplayOnlyStep, GeckoAgeStep, DisplayAgeStep, ScanStep
<1>5. QED  BY <1>1, <1>2, <1>3, <1>4

(* The invariant of every launch, restart and shutdown of a browser.       *)
THEOREM LaunchInvariant == Spec => []LaunchIndInv
  BY LaunchInit, LaunchStep, PTL DEF Spec

(* The handle reads the messages of a launch in the order in which the     *)
(* browser manager reports them (launch_browser_manager): it never finds   *)
(* one that earlier attempts left, and never forgets a browser manager     *)
(* that runs.                                                              *)
THEOREM StatusIsInOrder == Spec => []StatusInOrder
<1>1. LaunchIndInv => StatusInOrder
  BY HeadExpected DEF LaunchIndInv, LaunchInv, StatusInOrder
<1>2. QED  BY <1>1, LaunchInvariant, PTL

(* A handle has at most one browser manager alive, and none when it starts *)
(* to launch one or has closed its own (launch_browser_manager,            *)
(* close_browser_manager, kill_browser_manager).                           *)
THEOREM OneManager == Spec => []OneBrowserManager
<1>1. LaunchIndInv => OneBrowserManager
  <2> SUFFICES ASSUME LaunchIndInv PROVE OneBrowserManager
    OBVIOUS
  <2>1. LiveOK
    BY DEF LaunchIndInv, LaunchInv
  <2> DEFINE alive == {n \in Spawns : ~Dead(n)}
  <2>2. alive \subseteq {h.spawn}
    BY <2>1 DEF LiveOK
  <2>3. IsFiniteSet({h.spawn}) /\ Cardinality({h.spawn}) = 1
    BY FS_Singleton
  <2>4. IsFiniteSet(alive) /\ Cardinality(alive) <= 1
    BY <2>2, <2>3, FS_Subset
  <2>5. h.pc \in {"launch", "archive", "off"} => \A n \in Spawns : Dead(n)
    BY <2>1 DEF LiveOK, Closing
  <2>6. QED  BY <2>4, <2>5 DEF OneBrowserManager
<1>2. QED  BY <1>1, LaunchInvariant, PTL

(* A profile is archived, by a restart or at the end, only when its        *)
(* browser is closed and its directory is there (dump_profile), as long as *)
(* the manager is not closed by force.                                     *)
THEOREM ArchivedWhenClosed == Spec => []ProfileIsClosedForArchive
<1>1. LaunchIndInv => ProfileIsClosedForArchive
  <2> SUFFICES ASSUME LaunchIndInv, h.pc \in {"launch", "archive"}, h.path # NoPid, forced = "no"
               PROVE  h.path \in dirs /\ Dead(h.path) /\ h.path \notin DOMAIN geckos
    BY DEF ProfileIsClosedForArchive
  <2> USE DEF LaunchIndInv, LaunchInv, ProfileInv
  <2>1. h.path \in dirs
    BY DEF PathOK
  <2>2. h.path \in Spawns
    BY LaunchAssumption DEF TypeOK, HandleOK, Spawns, NoPid
  <2>3. Dead(h.path)
    BY <2>2 DEF LiveOK, Closing
  <2>4. h.path \notin DOMAIN geckos
    BY DEF PathGecko, Closing
  <2>5. QED  BY <2>1, <2>3, <2>4
<1>2. QED  BY <1>1, LaunchInvariant, PTL

(* The archive that a new browser is told to recover from exists when it   *)
(* loads its profile, in every attempt (launch_browser_manager,            *)
(* load_profile).                                                          *)
THEOREM ArchiveToRecoverFrom == Spec => []RecoveryArchiveExists
<1>1. LaunchIndInv => RecoveryArchiveExists
  <2> SUFFICES ASSUME LaunchIndInv, NEW n \in Spawns, stage[n] = "created",
                      ProfileSource = "recovery"
               PROVE  h.recovery \in DOMAIN archives
    BY DEF RecoveryArchiveExists
  <2> USE DEF LaunchIndInv, LaunchInv, ProfileInv
  <2>1. n = h.spawn /\ n # 0
    BY DEF LiveOK, Dead, Spawns
  <2>2. InLaunch
    BY <2>1 DEF LiveOK
  <2>3. h.recovery # NoPid
    <3>1. ASSUME h.recovery = NoPid PROVE ProfileSource \in {"seed", "none"}
      BY <3>1, Zenon DEF ProfileSource
    <3>2. QED  BY <3>1
  <2>4. QED  BY <2>2, <2>3 DEF TracesOK
<1>2. QED  BY <1>1, LaunchInvariant, PTL

(* A browser in use has the traces of the browsers since the last reset,   *)
(* and the seed: no attempt or crash loses or adds one.                    *)
THEOREM TracesSinceReset == Spec => []ProfileSinceReset
<1>1. LaunchIndInv => ProfileSinceReset
  <2> SUFFICES ASSUME LaunchIndInv, h.pc = "idle"
               PROVE  (forced # "done" => h.path \in dirs) /\ content[h.path] = Traces
    BY Zenon DEF ProfileSinceReset, Traces
  <2> USE DEF LaunchIndInv, ProfileInv
  <2>1. h.path = h.spawn /\ h.path # NoPid
    BY DEF PathOK, NoPid
  <2>2. QED  BY <2>1 DEF PathOK, TracesOK
<1>2. QED  BY <1>1, LaunchInvariant, PTL

(* The process watchdog kills only what a dead browser manager left behind *)
(* (_manager_watchdog): what it is about to kill was dead when it looked,  *)
(* and stays so.                                                           *)
THEOREM LivingAreSpared == Spec => WatchdogSparesTheLiving
<1> DEFINE Spared == scan.on /\ ~scan'.on =>
                       \A n \in (DOMAIN geckos \ DOMAIN geckos')
                                \cup (DOMAIN displays \ DOMAIN displays') : Dead(n)
<1>1. LaunchIndInv /\ [Next]_vars => [Spared]_vars
  <2> SUFFICES ASSUME LaunchIndInv, [Next]_vars, scan.on, ~scan'.on PROVE Spared
    OBVIOUS
  <2> USE DEF LaunchIndInv, LaunchInv, WatchdogInv
  <2>1. scan' # scan
    OBVIOUS
  <2>2. WatchdogReaps
    <3>1. ~\E n \in Spawns : ProcessNext(n)
      BY <2>1, ProcessEffect
    <3>2. ~Restart /\ ~ShutdownBrowser
      BY <2>1, Zenon DEF Restart, ShutdownBrowser
    <3>3. ~WatchdogScans
      BY Zenon DEF WatchdogScans
    <3>4. ~(UNCHANGED vars)
      BY <2>1 DEF vars
    <3>5. ~Launch /\ ~Spawn /\ ~ReadStatus /\ ~SpawnTimesOut /\ ~DiscardProfile
      BY <2>1 DEF Launch, Spawn, ReadStatus, SpawnTimesOut, DiscardProfile
    <3>6. ~ClearProfile /\ ~SendShutdown /\ ~AwaitClose /\ ~Kill /\ ~ArchiveProfile /\ ~Use /\ ~Tick
      BY <2>1 DEF ClearProfile, SendShutdown, AwaitClose, Kill, ArchiveProfile, Use, Tick
    <3>7. ~Forced
      BY <2>1, ForceEffect
    <3>8. QED  BY <3>1, <3>2, <3>3, <3>4, <3>5, <3>6, <3>7 DEF Forced, Next, HandleNext
  <2>3. /\ geckos' = Drop(geckos, scan.geckos)
        /\ displays' = Drop(displays, scan.displays)
    BY <2>2 DEF WatchdogReaps
  <2>4. /\ DOMAIN geckos \ DOMAIN geckos' \subseteq scan.geckos
        /\ DOMAIN displays \ DOMAIN displays' \subseteq scan.displays
    BY <2>3 DEF Drop
  <2>5. \A n \in scan.geckos \cup scan.displays : Dead(n)
    BY DEF ScanOK
  <2>6. QED  BY <2>4, <2>5
<1>2. QED
  BY <1>1, LaunchInvariant, PTL DEF Spec, WatchdogSparesTheLiving
=============================================================================
