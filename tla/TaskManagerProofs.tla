------------------------- MODULE TaskManagerProofs -------------------------
(***************************************************************************)
(* The manager process, for any number of browsers, any command sequences  *)
(* and any configuration.                                                  *)
(***************************************************************************)
EXTENDS TaskManager, FiniteSetTheorems, TLAPS

Commands == [cs : CommandSequences, i : 0 .. FinalizeIndex]
AnyCommand == Commands \cup {NoCommand}
Statuses == [kind : {"OK", "CRITICAL", "FAILED"}, command : AnyCommand]
Finals == [visit : CommandSequences, success : BOOLEAN]

(* The stages of a command thread in which its sequence is at work.        *)
Working == {"start", "send", "wait", "record", "compare", "decide"}
ThreadStages == Working \cup {"off", "sleep", "close", "launch", "launched"}
MainStages == {"construct", "user", "pick", "join", "shutdown", "joinStorage",
               "joinCallbacks", "aborted", "raised"}

Mains == [pc : MainStages, cs : CommandSequences \cup {NoSequence}, browser : Nat,
          relaxed : BOOLEAN, init : {"running", "done", "gaveUp", "raised"}]
Threads == [pc : ThreadStages, cs : CommandSequences \cup {NoSequence}, i : 0 .. FinalizeIndex,
            answer : {"none", "timeout", "OK", "CRITICAL", "FAILED"}, reset : BOOLEAN]
Processes == [state : {"dead", "idle", "busy"}, gen : Nat, command : AnyCommand]

ManagerTyped ==
    /\ main \in Mains
    /\ main.pc = "pick" => main.cs \in CommandSequences
    /\ closing \in BOOLEAN
    /\ failureCount \in Nat
    /\ unsaved \subseteq CommandSequences
HandlesTyped ==
    /\ thread \in [Browsers -> Threads]
    /\ \A b \in Browsers : thread[b].pc \in Working => thread[b].cs \in CommandSequences
    /\ restartRequired \in [Browsers -> BOOLEAN]
    /\ profilePath \in [Browsers -> {"none", "dir"}]
ProcessesTyped ==
    /\ proc \in [Browsers -> Processes]
    /\ \A b \in Browsers : proc[b].state = "busy" => proc[b].command \in Commands
    /\ commandQueue \in [Browsers -> Seq(Commands)]
    /\ statusQueue \in [Browsers -> Seq(Statuses)]
    /\ inbox \in [Browsers -> Seq(CommandSequences)]
ControllerTyped ==
    /\ finals \in Seq(Finals)
    /\ completions \in Seq(Finals)
    /\ storage \in {"up", "stopping", "unfed", "down"}
HistoryTyped ==
    /\ issued \in Seq(CommandSequences)
    /\ touched \in SUBSET CommandSequences /\ IsFiniteSet(touched)
    /\ ranOn \in [CommandSequences -> SUBSET (Browsers \X Nat)]
    /\ succeeded \in [CommandSequences -> SUBSET Nat]
    /\ called \in [CommandSequences -> Seq(BOOLEAN)]
Typed ==
    /\ ManagerTyped /\ HandlesTyped /\ ProcessesTyped /\ ControllerTyped /\ HistoryTyped
    /\ callbackThread \in {"off", "poll"}

-----------------------------------------------------------------------------
(* Sets listed as sequences, and the first element of a sequence that has  *)
(* a property.                                                             *)

LEMMA InjectionIsOnto ==
  ASSUME NEW S, IsFiniteSet(S), NEW f \in [1 .. Cardinality(S) -> S],
         \A a, b \in DOMAIN f : f[a] = f[b] => a = b
  PROVE  \A x \in S : \E n \in DOMAIN f : f[n] = x
<1>. DEFINE D == 1 .. Cardinality(S)
<1>1. Cardinality(S) \in Nat
  BY FS_CardinalityType
<1>2. IsFiniteSet(D) /\ Cardinality(D) = Cardinality(S)
  BY <1>1, FS_Interval
<1>3. f \in Injection(D, S)
  BY DEF Injection, IsInjective
<1>4. f \in Surjection(D, S)
  <2>. HIDE DEF D
  <2>. QED BY <1>2, <1>3, FS_Injection
<1>. QED BY <1>4 DEF Surjection

(* SetToSeq lists every element of a finite set, and no other.             *)
LEMMA SetToSeqLists ==
  ASSUME NEW S, IsFiniteSet(S)
  PROVE  /\ SetToSeq(S) \in Seq(S)
         /\ \A x \in S : \E n \in DOMAIN SetToSeq(S) : SetToSeq(S)[n] = x
<1>. DEFINE D == 1 .. Cardinality(S)
            P(f) == \A a, b \in DOMAIN f : f[a] = f[b] => a = b
<1>1. Cardinality(S) \in Nat /\ ExistsBijection(D, S)
  BY FS_CardinalityType
<1>2. \E f \in [D -> S] : P(f)
  BY <1>1 DEF ExistsBijection, Bijection, Injection, Surjection, IsInjective
<1>3. SetToSeq(S) = CHOOSE f \in [D -> S] : P(f)
  BY DEF SetToSeq, IsInjective
<1>4. SetToSeq(S) \in [D -> S] /\ P(SetToSeq(S))
  BY <1>2, <1>3
<1>5. \A x \in S : \E n \in DOMAIN SetToSeq(S) : SetToSeq(S)[n] = x
  BY <1>4, InjectionIsOnto
<1>. QED BY <1>1, <1>4, <1>5

LEMMA FirstExists ==
  ASSUME NEW T, T \subseteq Nat, T # {}
  PROVE  \E n \in T : \A m \in T : n <= m
<1>. DEFINE I == {1 .. n : n \in T}
<1>1. IsWellFoundedOn(StrictSubsetOrdering(Nat), FiniteSubsetsOf(Nat))
  BY FS_StrictSubsetOrderingWellFounded
<1>2. \A n \in T : 1 .. n \in FiniteSubsetsOf(Nat)
  BY FS_Interval DEF FiniteSubsetsOf
<1>3. I \subseteq FiniteSubsetsOf(Nat) /\ I # {}
  BY <1>2
<1>4. PICK s \in I : \A t \in I : <<t, s>> \notin StrictSubsetOrdering(Nat)
  <2>. HIDE DEF I
  <2>. QED BY <1>1, <1>3, WFMin
<1>5. PICK n \in T : s = 1 .. n
  BY <1>4
<1>6. ASSUME NEW m \in T, m < n PROVE FALSE
  <2>1. 1 .. m \in I
    OBVIOUS
  <2>2. <<1 .. m, 1 .. n>> \notin StrictSubsetOrdering(Nat)
    BY <1>4, <1>5, <2>1
  <2>3. 1 .. m \subseteq 1 .. n /\ n \in 1 .. n /\ n \notin 1 .. m
    BY <1>6
  <2>4. 1 .. m \subseteq Nat /\ 1 .. n \subseteq Nat /\ 1 .. m # 1 .. n
    BY <2>3
  <2>. QED BY <2>2, <2>3, <2>4 DEF StrictSubsetOrdering
<1>. QED BY <1>6

-----------------------------------------------------------------------------
(* Every variable has its type; a thread at work has a sequence, a busy    *)
(* process a command.                                                      *)

LEMMA InitTyped == Init => Typed
<1>. SUFFICES ASSUME Init PROVE Typed
  OBVIOUS
<1>. USE ConstantsAssumption DEF Init, InitialHandles, StorageLaunched, Browsers, FinalizeIndex
<1>1. ManagerTyped
  BY DEF ManagerTyped, Mains, MainStages
<1>2. HandlesTyped
  BY DEF HandlesTyped, Threads, NoThread, ThreadStages, Working
<1>3. ProcessesTyped
  BY DEF ProcessesTyped, Processes, AnyCommand
<1>4. ControllerTyped
  BY DEF ControllerTyped
<1>5. HistoryTyped
  BY FS_EmptySet DEF HistoryTyped
<1>. QED BY <1>1, <1>2, <1>3, <1>4, <1>5 DEF Typed

(* Two fields of a record in a function are changed as the record is.      *)
LEMMA TwoAnswers ==
  ASSUME NEW S, NEW T, NEW f \in [S -> T], NEW b \in S, NEW x, NEW y, NEW g,
         g = [f EXCEPT ![b].pc = x, ![b].answer = y]
  PROVE  g = [f EXCEPT ![b] = [f[b] EXCEPT !.pc = x, !.answer = y]]
  OBVIOUS

LEMMA TwoResets ==
  ASSUME NEW S, NEW T, NEW f \in [S -> T], NEW b \in S, NEW x, NEW y, NEW g,
         g = [f EXCEPT ![b].pc = x, ![b].reset = y]
  PROVE  g = [f EXCEPT ![b] = [f[b] EXCEPT !.pc = x, !.reset = y]]
  OBVIOUS

LEMMA TwoStates ==
  ASSUME NEW S, NEW T, NEW f \in [S -> T], NEW b \in S, NEW x, NEW y, NEW g,
         g = [f EXCEPT ![b].state = x, ![b].command = y]
  PROVE  g = [f EXCEPT ![b] = [f[b] EXCEPT !.state = x, !.command = y]]
  OBVIOUS

(* A browser process changes its state and its command.                    *)
LEMMA ProcessMoves ==
  ASSUME ProcessesTyped, NEW b \in Browsers, NEW state \in {"dead", "idle", "busy"},
         NEW command \in AnyCommand, state = "busy" => command \in Commands,
         proc' = [proc EXCEPT ![b].state = state, ![b].command = command]
  PROVE  /\ proc' \in [Browsers -> Processes]
         /\ \A x \in Browsers : proc'[x].state = "busy" => proc'[x].command \in Commands
         /\ proc'[b].state = state /\ proc'[b].command = command
         /\ \A x \in Browsers : proc'[x].gen = proc[x].gen
         /\ \A x \in Browsers : x # b => proc'[x] = proc[x]
<1>. DEFINE new == [proc[b] EXCEPT !.state = state, !.command = command]
<1>1. proc \in [Browsers -> Processes]
  BY DEF ProcessesTyped
<1>2. proc' = [proc EXCEPT ![b] = new]
  BY <1>1, TwoStates
<1>3. new \in Processes /\ new.state = state /\ new.command = command /\ new.gen = proc[b].gen
  BY <1>1 DEF Processes
<1>. HIDE DEF new
<1>. QED BY <1>1, <1>2, <1>3 DEF ProcessesTyped

LEMMA FinalizeSent ==
  ASSUME finals \in Seq(Finals), NEW v \in CommandSequences, SendFinalize(v, FALSE)
  PROVE  finals' \in Seq(Finals)
  BY DEF SendFinalize, Final, Finals

LEMMA Frames ==
  ASSUME Typed
  PROVE  /\ UNCHANGED manager => ManagerTyped'
         /\ UNCHANGED handles => HandlesTyped'
         /\ UNCHANGED processes => ProcessesTyped'
         /\ UNCHANGED controller => ControllerTyped'
         /\ UNCHANGED history => HistoryTyped'
         /\ UNCHANGED callbackThread => callbackThread' \in {"off", "poll"}
<1>1. UNCHANGED manager => ManagerTyped'
  BY DEF Typed, ManagerTyped, manager
<1>2. UNCHANGED handles => HandlesTyped'
  BY DEF Typed, HandlesTyped, handles
<1>3. UNCHANGED processes => ProcessesTyped'
  BY DEF Typed, ProcessesTyped, processes
<1>4. UNCHANGED controller => ControllerTyped'
  BY DEF Typed, ControllerTyped, controller
<1>5. UNCHANGED history => HistoryTyped'
  BY DEF Typed, HistoryTyped, history
<1>. QED BY <1>1, <1>2, <1>3, <1>4, <1>5 DEF Typed

(* The user's thread moves on, or starts a shutdown.                       *)
LEMMA MainMoves ==
  ASSUME main \in Mains, NEW pc \in MainStages, main' = [main EXCEPT !.pc = pc]
  PROVE  main' \in Mains /\ main'.pc = pc /\ main'.cs = main.cs
  BY DEF Mains

LEMMA ShutdownMoves ==
  ASSUME main \in Mains, NEW relaxed \in BOOLEAN, BeginShutdown(relaxed)
  PROVE  main' \in Mains /\ main'.pc = "shutdown" /\ closing' = TRUE
  BY DEF Mains, BeginShutdown, MainStages

(* What the controller finalizes by itself when it stops.                  *)
LEMMA OwnFinals ==
  ASSUME Typed, StorageStops
  PROVE  \E own \in Seq(Finals) :
           /\ finals' = finals \o own /\ completions' = completions \o own
           /\ \A n \in DOMAIN own : own[n].visit \in touched /\ own[n].success = FALSE
<1>1. PICK left \in SUBSET touched :
        LET own == SetToSeq({Final(v, FALSE) : v \in left}) IN
          finals' = finals \o own /\ completions' = completions \o own
  BY DEF StorageStops
<1>. DEFINE F == {Final(v, FALSE) : v \in left}
            g == [v \in left |-> Final(v, FALSE)]
            own == SetToSeq(F)
<1>2. IsFiniteSet(left) /\ left \subseteq CommandSequences
  BY FS_Subset DEF Typed, HistoryTyped
<1>3. g \in Surjection(left, F)
  BY DEF Surjection
<1>4. F \subseteq Finals /\ \A f \in F : f.visit \in touched /\ f.success = FALSE
  <2>1. ASSUME NEW v \in left
        PROVE  /\ Final(v, FALSE) \in Finals /\ Final(v, FALSE).visit \in touched
               /\ Final(v, FALSE).success = FALSE
    BY <1>2 DEF Final, Finals
  <2>. QED BY <2>1, Zenon
<1>5. finals' = finals \o own /\ completions' = completions \o own
  BY <1>1
<1>. HIDE DEF F, g
<1>6. own \in Seq(F)
  BY <1>2, <1>3, FS_Surjection, SetToSeqLists
<1>. HIDE DEF own
<1>7. own \in Seq(Finals) /\ \A n \in DOMAIN own : own[n] \in F
  BY <1>4, <1>6
<1>. QED BY <1>4, <1>5, <1>7

LEMMA MainTyped ==
  ASSUME Typed, UserNext \/ MainNext
  PROVE  Typed'
<1>0. /\ ManagerTyped /\ HandlesTyped /\ ProcessesTyped /\ ControllerTyped /\ HistoryTyped
      /\ callbackThread \in {"off", "poll"}
      /\ main \in Mains
  BY DEF Typed, ManagerTyped
<1>b. \A b \in Browsers : b \in Nat /\ b + 1 \in Nat
  BY ConstantsAssumption DEF Browsers
<1>1. ASSUME NEW cs \in CommandSequences, ExecuteCommandSequence(cs) PROVE Typed'
  <2>. USE <1>1 DEF ExecuteCommandSequence
  <2>1. main' \in Mains /\ main'.cs = cs
    BY <1>0 DEF Mains, MainStages
  <2>2. ManagerTyped'
    BY <1>0, <2>1 DEF ManagerTyped
  <2>3. HistoryTyped'
    BY <1>0 DEF HistoryTyped
  <2>4. HandlesTyped' /\ ProcessesTyped' /\ ControllerTyped' /\ callbackThread' \in {"off", "poll"}
    BY Frames
  <2>. QED BY <2>2, <2>3, <2>4 DEF Typed
<1>2. ASSUME NEW relaxed \in BOOLEAN, Close(relaxed) PROVE Typed'
  <2>1. main' \in Mains /\ main'.pc = "shutdown" /\ closing' = TRUE
    BY <1>0, <1>2, ShutdownMoves DEF Close
  <2>2. ManagerTyped'
    BY <1>0, <1>2, <2>1 DEF ManagerTyped, Close
  <2>. QED BY <1>2, <2>2, Frames DEF Close, Typed
<1>3. ASSUME NEW b \in Browsers, Construct(b) PROVE Typed'
  <2>. USE <1>3 DEF Construct
  <2>1. main' \in Mains /\ main'.pc # "pick"
    BY <1>0, <1>b DEF Mains, MainStages, Launching
  <2>2. ManagerTyped'
    BY <1>0, <2>1 DEF ManagerTyped
  <2>3. HandlesTyped'
    BY <1>0 DEF HandlesTyped
  <2>4. proc' \in [Browsers -> Processes]
    BY <1>0 DEF ProcessesTyped, Processes
  <2>5. \A x \in Browsers : proc'[x].state = "busy" => proc'[x].command \in Commands
    BY <1>0 DEF ProcessesTyped, Processes
  <2>6. ProcessesTyped'
    BY <1>0, <2>4, <2>5 DEF ProcessesTyped
  <2>7. ControllerTyped' /\ HistoryTyped' /\ callbackThread' \in {"off", "poll"}
    BY <1>0, Frames
  <2>. QED BY <2>2, <2>3, <2>6, <2>7 DEF Typed
<1>4. ASSUME NEW b \in Browsers, ConstructionFails(b) PROVE Typed'
  <2>. USE <1>4 DEF ConstructionFails
  <2>1. main' \in Mains /\ main'.pc # "pick" /\ closing' = TRUE
    <3>1. PICK how \in {"gaveUp", "raised"} :
            main' = [main EXCEPT !.pc = "shutdown", !.browser = 1, !.init = how]
      OBVIOUS
    <3>2. main' \in Mains /\ main'.pc = "shutdown"
      BY <1>0, <3>1 DEF Mains, MainStages
    <3>. QED BY <3>2
  <2>2. ManagerTyped'
    BY <1>0, <2>1 DEF ManagerTyped
  <2>. QED BY <2>2, Frames DEF Typed
<1>5. ASSUME NEW b \in Browsers, StartThread(b) PROVE Typed'
  <2>0. main.cs \in CommandSequences
    BY <1>0, <1>5 DEF StartThread, Available, ManagerTyped
  <2>1. /\ main' \in Mains /\ main'.pc # "pick" /\ closing' \in BOOLEAN
        /\ unsaved' \subseteq CommandSequences
    <3>1. CASE closing
      BY <1>0, <1>5, <3>1, MainMoves DEF StartThread, MainStages, ManagerTyped
    <3>2. CASE ~closing /\ failureStatus # "none"
      BY <1>0, <1>5, <3>2, ShutdownMoves DEF StartThread, ManagerTyped
    <3>3. CASE ~closing /\ failureStatus = "none"
      <4>1. main' = [main EXCEPT !.pc = IF main.cs \in Blocking THEN "join" ELSE "user",
                                 !.browser = b]
        BY <1>5, <3>3 DEF StartThread
      <4>2. main' \in Mains /\ main'.pc # "pick"
        BY <1>0, <1>b, <4>1 DEF Mains, MainStages
      <4>. QED BY <1>0, <1>5, <2>0, <3>3, <4>2 DEF StartThread, ManagerTyped
    <3>. QED BY <1>0, <3>1, <3>2, <3>3 DEF ManagerTyped
  <2>2. ManagerTyped'
    BY <1>0, <1>5, <2>1 DEF ManagerTyped, StartThread
  <2>3. thread' \in [Browsers -> Threads]
        /\ \A x \in Browsers : thread'[x].pc \in Working => thread'[x].cs \in CommandSequences
    <3>1. thread' = thread
          \/ thread' = [thread EXCEPT ![b] = [NoThread EXCEPT !.pc = "start", !.cs = main.cs]]
      BY <1>5 DEF StartThread
    <3>2. [NoThread EXCEPT !.pc = "start", !.cs = main.cs] \in Threads
          /\ [NoThread EXCEPT !.pc = "start", !.cs = main.cs].cs = main.cs
      <4>1. NoThread \in Threads
        BY ConstantsAssumption DEF NoThread, Threads, ThreadStages, FinalizeIndex
      <4>. QED BY <2>0, <4>1 DEF Threads, ThreadStages, Working
    <3>. QED BY <1>0, <2>0, <3>1, <3>2 DEF HandlesTyped
  <2>4. HandlesTyped'
    BY <1>0, <1>5, <2>3 DEF HandlesTyped, StartThread
  <2>. QED BY <1>5, <2>2, <2>4, Frames DEF Typed, StartThread
<1>6. CASE JoinBlocking
  <2>1. main' \in Mains /\ main'.pc # "pick" /\ closing' \in BOOLEAN
    <3>1. CASE failureStatus # "none"
      BY <1>0, <1>6, <3>1, ShutdownMoves DEF JoinBlocking
    <3>2. CASE failureStatus = "none"
      BY <1>0, <1>6, <3>2, MainMoves DEF JoinBlocking, MainStages, ManagerTyped
    <3>. QED BY <3>1, <3>2
  <2>2. ManagerTyped'
    BY <1>0, <1>6, <2>1 DEF ManagerTyped, JoinBlocking
  <2>. QED BY <1>6, <2>2, Frames DEF JoinBlocking, Typed
<1>7. CASE ShutdownBrowser
  <2>0. main.browser \in Browsers
    BY <1>7 DEF ShutdownBrowser
  <2>1. main' \in Mains /\ main'.pc # "pick"
    BY <1>0, <1>b, <1>7, <2>0 DEF ShutdownBrowser, Mains, MainStages
  <2>2. ManagerTyped'
    BY <1>0, <1>7, <2>1 DEF ManagerTyped, ShutdownBrowser
  <2>3. CloseBrowserManager(main.browser) /\ UNCHANGED <<commandQueue, statusQueue>>
    BY <1>7 DEF ShutdownBrowser
  <2>4. ProcessesTyped'
    <3>1. /\ proc' \in [Browsers -> Processes]
          /\ \A x \in Browsers : proc'[x].state = "busy" => proc'[x].command \in Commands
      BY <1>0, <2>0, <2>3, ProcessMoves DEF CloseBrowserManager, AnyCommand
    <3>. QED BY <1>0, <2>3, <3>1 DEF ProcessesTyped, CloseBrowserManager
  <2>. QED BY <1>7, <2>2, <2>4, Frames DEF ShutdownBrowser, Typed
<1>8. CASE ShutdownStorage
  <2>1. main' \in Mains /\ main'.pc # "pick"
    BY <1>0, <1>8 DEF ShutdownStorage, Mains, MainStages
  <2>2. ManagerTyped'
    BY <1>0, <1>8, <2>1 DEF ManagerTyped, ShutdownStorage
  <2>3. ControllerTyped'
    BY <1>0, <1>8 DEF ControllerTyped, ShutdownStorage
  <2>. QED BY <1>8, <2>2, <2>3, Frames DEF ShutdownStorage, Typed
<1>9. CASE JoinStorage \/ JoinCallbackThread
  <2>1. main' \in Mains /\ main'.pc # "pick"
    BY <1>0, <1>9, MainMoves DEF JoinStorage, JoinCallbackThread, MainStages
  <2>2. ManagerTyped'
    BY <1>0, <1>9, <2>1 DEF ManagerTyped, JoinStorage, JoinCallbackThread
  <2>. QED BY <1>9, <2>2, Frames DEF JoinStorage, JoinCallbackThread, Typed
<1>. QED BY <1>1, <1>2, <1>3, <1>4, <1>5, <1>6, <1>7, <1>8, <1>9 DEF UserNext, MainNext

(* A command thread moves on.                                              *)
LEMMA ThreadMoves ==
  ASSUME HandlesTyped, NEW b \in Browsers, NEW pc \in ThreadStages, GoTo(b, pc),
         pc \in Working => thread[b].pc \in Working
  PROVE  /\ thread' \in [Browsers -> Threads]
         /\ \A x \in Browsers : thread'[x].pc \in Working => thread'[x].cs \in CommandSequences
<1>1. thread' \in [Browsers -> Threads]
  BY DEF HandlesTyped, GoTo, Threads
<1>2. ASSUME NEW x \in Browsers, thread'[x].pc \in Working
      PROVE  thread'[x].cs \in CommandSequences
  BY <1>2 DEF HandlesTyped, GoTo, Threads
<1>. QED BY <1>1, <1>2

LEMMA ThreadTyped ==
  ASSUME Typed, NEW b \in Browsers, ThreadNext(b)
  PROVE  Typed'
<1>. DEFINE Moved == /\ thread' \in [Browsers -> Threads]
                     /\ \A x \in Browsers : thread'[x].pc \in Working
                                              => thread'[x].cs \in CommandSequences
<1>0. /\ ManagerTyped /\ HandlesTyped /\ ProcessesTyped /\ ControllerTyped /\ HistoryTyped
      /\ thread \in [Browsers -> Threads]
      /\ thread[b].pc \in Working => thread[b].cs \in CommandSequences
  BY DEF Typed, HandlesTyped
<1>b. FinalizeIndex \in Nat
  BY ConstantsAssumption DEF FinalizeIndex
<1>c. ThreadStages = Working \cup {"off", "sleep", "close", "launch", "launched"}
  BY DEF ThreadStages
<1>1. ASSUME NEW pc, SocketError(b, pc) PROVE Typed'
  <2>1. Moved
    BY <1>0, <1>1, ThreadMoves DEF SocketError, ThreadStages, Working
  <2>2. HandlesTyped'
    BY <1>0, <1>1, <2>1 DEF SocketError, HandlesTyped
  <2>. QED BY <1>1, <2>2, Frames DEF SocketError, Typed
<1>2. ASSUME StartSequence(b), ~SocketError(b, "start") PROVE Typed'
  <2>. USE <1>2 DEF StartSequence, AtThread
  <2>1. Moved
    BY <1>0, ThreadMoves DEF ThreadStages, Working
  <2>2. HandlesTyped'
    BY <1>0, <2>1 DEF HandlesTyped
  <2>3. thread[b].cs \in CommandSequences
    BY <1>0 DEF Working
  <2>4. touched' \in SUBSET CommandSequences /\ IsFiniteSet(touched')
    <3>1. touched \in SUBSET CommandSequences /\ IsFiniteSet(touched)
      BY <1>0 DEF HistoryTyped
    <3>2. touched' = touched \cup {thread[b].cs}
      OBVIOUS
    <3>3. IsFiniteSet(touched \cup {thread[b].cs})
      BY <3>1, FS_AddElement
    <3>. QED BY <2>3, <3>1, <3>2, <3>3
  <2>5. HistoryTyped'
    BY <1>0, <2>4 DEF HistoryTyped
  <2>. QED BY <2>2, <2>5, Frames DEF Typed
<1>3. CASE SendCommand(b)
  <2>. USE <1>3 DEF SendCommand, AtThread
  <2>1. Moved
    BY <1>0, ThreadMoves DEF ThreadStages, Working
  <2>2. HandlesTyped'
    BY <1>0, <2>1 DEF HandlesTyped
  <2>3. [cs |-> thread[b].cs, i |-> thread[b].i] \in Commands
    BY <1>0 DEF Threads, Working, Commands
  <2>4. commandQueue' \in [Browsers -> Seq(Commands)]
    BY <1>0, <2>3 DEF ProcessesTyped
  <2>5. ProcessesTyped'
    BY <1>0, <2>4 DEF ProcessesTyped
  <2>. QED BY <2>2, <2>5, Frames DEF Typed
<1>4. CASE ReceiveStatus(b)
  <2>. DEFINE answer == Head(statusQueue[b])
  <2>1. /\ AtThread(b, "wait")
        /\ thread' = [thread EXCEPT ![b].pc = "record", ![b].answer = answer.kind]
        /\ statusQueue' = [statusQueue EXCEPT ![b] = Tail(@)]
        /\ statusQueue[b] # <<>>
        /\ succeeded' = succeeded
           \/ succeeded' = [succeeded EXCEPT ![thread[b].cs] = @ \cup {thread[b].i}]
        /\ UNCHANGED <<main, closing, failureCount, unsaved, restartRequired, profilePath, proc,
                   commandQueue, inbox, controller, callbackThread, issued, touched, ranOn,
                   called>>
    BY <1>4 DEF ReceiveStatus
  <2>2. answer \in Statuses /\ Tail(statusQueue[b]) \in Seq(Statuses)
    BY <1>0, <2>1 DEF ProcessesTyped
  <2>. HIDE DEF answer
  <2>20. answer.kind \in {"OK", "CRITICAL", "FAILED"}
    BY <2>2 DEF Statuses
  <2>3. thread' \in [Browsers -> Threads]
    <3>1. [thread[b] EXCEPT !.pc = "record", !.answer = answer.kind] \in Threads
      BY <1>0, <2>20 DEF Threads, ThreadStages, Working
    <3>2. thread' = [thread EXCEPT ![b] = [thread[b] EXCEPT !.pc = "record", !.answer = answer.kind]]
      BY <1>0, <2>1, TwoAnswers
    <3>. QED BY <1>0, <3>1, <3>2
  <2>4. \A x \in Browsers : thread'[x].pc \in Working => thread'[x].cs \in CommandSequences
    BY <1>0, <2>1 DEF AtThread, HandlesTyped, Threads, Working
  <2>5. HandlesTyped'
    BY <1>0, <2>1, <2>3, <2>4 DEF HandlesTyped
  <2>6. statusQueue' \in [Browsers -> Seq(Statuses)]
    BY <1>0, <2>1, <2>2 DEF ProcessesTyped
  <2>7. ProcessesTyped'
    BY <1>0, <2>1, <2>6 DEF ProcessesTyped
  <2>8. thread[b].i \in Nat
    BY <1>0, <1>b DEF Threads
  <2>9. succeeded' \in [CommandSequences -> SUBSET Nat]
    BY <1>0, <2>1, <2>8 DEF HistoryTyped
  <2>10. HistoryTyped'
    BY <1>0, <2>1, <2>9 DEF HistoryTyped
  <2>11. ManagerTyped'
    BY <1>0, <2>1 DEF ManagerTyped
  <2>. QED BY <2>1, <2>5, <2>7, <2>10, <2>11, Frames DEF Typed
<1>5. CASE CommandTimeout(b)
  <2>. USE <1>5 DEF CommandTimeout
  <2>1. thread' \in [Browsers -> Threads]
    <3>1. [thread[b] EXCEPT !.pc = "record", !.answer = "timeout"] \in Threads
      BY <1>0 DEF Threads, ThreadStages, Working
    <3>2. thread' = [thread EXCEPT ![b] = [thread[b] EXCEPT !.pc = "record", !.answer = "timeout"]]
      BY <1>0, TwoAnswers
    <3>. QED BY <1>0, <3>1, <3>2
  <2>2. \A x \in Browsers : thread'[x].pc \in Working => thread'[x].cs \in CommandSequences
    BY <1>0 DEF AtThread, HandlesTyped, Threads, Working
  <2>3. HandlesTyped'
    BY <1>0, <2>1, <2>2 DEF HandlesTyped
  <2>. QED BY <2>3, Frames DEF Typed
<1>6. ASSUME RecordOutcome(b), ~SocketError(b, "record") PROVE Typed'
  <2>1. /\ AtThread(b, "record")
        /\ GoTo(b, "off") \/ GoTo(b, "compare") \/ GoTo(b, "decide")
        /\ finals' = finals \/ SendFinalize(thread[b].cs, FALSE)
        /\ failureCount' \in {failureCount, failureCount + 1, 0}
        /\ UNCHANGED <<main, closing, unsaved, restartRequired, profilePath,
                       processes, completions, storage, callbackThread, history>>
    BY <1>6 DEF RecordOutcome
  <2>2. Moved
    BY <1>0, <2>1, ThreadMoves DEF AtThread, ThreadStages, Working
  <2>3. HandlesTyped'
    BY <1>0, <2>1, <2>2 DEF HandlesTyped
  <2>4. thread[b].cs \in CommandSequences
    BY <1>0, <2>1 DEF AtThread, Working
  <2>5. ControllerTyped'
    BY <1>0, <2>1, <2>4, FinalizeSent DEF ControllerTyped
  <2>6. ManagerTyped'
    BY <1>0, <2>1 DEF ManagerTyped
  <2>. QED BY <2>1, <2>3, <2>5, <2>6, Frames DEF Typed
<1>7. CASE CompareFailures(b)
  <2>1. /\ AtThread(b, "compare")
        /\ GoTo(b, "off") \/ GoTo(b, "decide")
        /\ restartRequired' = restartRequired \/ restartRequired' = [restartRequired EXCEPT ![b] = TRUE]
        /\ UNCHANGED <<main, closing, failureCount, unsaved, profilePath, processes, controller,
                       callbackThread, history>>
    BY <1>7 DEF CompareFailures
  <2>2. Moved
    BY <1>0, <2>1, ThreadMoves DEF AtThread, ThreadStages, Working
  <2>3. HandlesTyped'
    BY <1>0, <2>1, <2>2 DEF HandlesTyped
  <2>4. ManagerTyped'
    BY <1>0, <2>1 DEF ManagerTyped
  <2>. QED BY <2>1, <2>3, <2>4, Frames DEF Typed
<1>8. ASSUME NextCommand(b), ~(restartRequired[b] /\ SocketError(b, "decide")) PROVE Typed'
  <2>1. /\ AtThread(b, "decide")
        /\ \/ GoTo(b, "sleep")
           \/ /\ thread[b].i < FinalizeIndex
              /\ thread' = [thread EXCEPT ![b].pc = "send", ![b].i = @ + 1]
        /\ finals' = finals \/ SendFinalize(thread[b].cs, FALSE)
        /\ UNCHANGED <<manager, restartRequired, profilePath, processes, completions, storage,
                       callbackThread, history>>
    BY <1>8 DEF NextCommand
  <2>2. Moved
    <3>1. CASE GoTo(b, "sleep")
      BY <1>0, <2>1, <3>1, ThreadMoves DEF AtThread, ThreadStages, Working
    <3>2. CASE /\ thread[b].i < FinalizeIndex
               /\ thread' = [thread EXCEPT ![b].pc = "send", ![b].i = @ + 1]
      <4>1. thread[b].i + 1 \in 0 .. FinalizeIndex
        BY <1>0, <1>b, <3>2 DEF Threads
      <4>2. thread' \in [Browsers -> Threads]
        BY <1>0, <3>2, <4>1 DEF Threads, ThreadStages, Working
      <4>3. \A x \in Browsers : thread'[x].pc \in Working => thread'[x].cs \in CommandSequences
        BY <1>0, <2>1, <3>2 DEF AtThread, HandlesTyped, Threads, Working
      <4>. QED BY <4>2, <4>3
    <3>. QED BY <2>1, <3>1, <3>2
  <2>3. HandlesTyped'
    BY <1>0, <2>1, <2>2 DEF HandlesTyped
  <2>4. thread[b].cs \in CommandSequences
    BY <1>0, <2>1 DEF AtThread, Working
  <2>5. ControllerTyped'
    BY <1>0, <2>1, <2>4, FinalizeSent DEF ControllerTyped
  <2>. QED BY <2>1, <2>3, <2>5, Frames DEF Typed
<1>9. CASE AfterSequence(b)
  <2>0. ASSUME NEW reset \in ResetWanted(b) PROVE reset \in BOOLEAN
    <3>1. CASE ProfileLimited
      BY <3>1 DEF ResetWanted
    <3>2. CASE ~ProfileLimited
      BY <3>2 DEF ResetWanted
    <3>. QED BY <3>1, <3>2
  <2>1. /\ \/ GoTo(b, "off")
           \/ \E reset \in BOOLEAN : \E pc \in {"close", "off"} :
                thread' = [thread EXCEPT ![b].pc = pc, ![b].reset = reset]
        /\ UNCHANGED <<manager, restartRequired, profilePath, processes, controller,
                       callbackThread, history>>
    BY <1>9, <2>0 DEF AfterSequence
  <2>2. Moved
    <3>1. CASE GoTo(b, "off")
      BY <1>0, <3>1, ThreadMoves DEF ThreadStages, Working
    <3>2. ASSUME NEW reset \in BOOLEAN, NEW pc \in {"close", "off"},
                 thread' = [thread EXCEPT ![b].pc = pc, ![b].reset = reset]
          PROVE  Moved
      <4>1. thread' \in [Browsers -> Threads]
        <5>1. [thread[b] EXCEPT !.pc = pc, !.reset = reset] \in Threads
          BY <1>0, <3>2 DEF Threads, ThreadStages, Working
        <5>2. thread' = [thread EXCEPT ![b] = [thread[b] EXCEPT !.pc = pc, !.reset = reset]]
          BY <1>0, <3>2, TwoResets
        <5>. QED BY <1>0, <5>1, <5>2
      <4>2. \A x \in Browsers : thread'[x].pc \in Working => thread'[x].cs \in CommandSequences
        BY <1>0, <3>2 DEF HandlesTyped, Threads, Working
      <4>. QED BY <4>1, <4>2
    <3>. QED BY <2>1, <3>1, <3>2
  <2>3. HandlesTyped'
    BY <1>0, <2>1, <2>2 DEF HandlesTyped
  <2>. QED BY <2>1, <2>3, Frames DEF Typed
<1>10. CASE RestartClose(b)
  <2>1. /\ CloseBrowserManager(b)
        /\ \E queue \in QueueAfterClose(b) : statusQueue' = [statusQueue EXCEPT ![b] = queue]
        /\ profilePath' = profilePath \/ profilePath' = [profilePath EXCEPT ![b] = "none"]
        /\ GoTo(b, "launch")
        /\ UNCHANGED <<manager, restartRequired, commandQueue, controller, callbackThread, history>>
    BY <1>10 DEF RestartClose
  <2>2. Moved
    BY <1>0, <2>1, ThreadMoves DEF ThreadStages, Working
  <2>3. HandlesTyped'
    BY <1>0, <2>1, <2>2 DEF HandlesTyped
  <2>4. \A q \in QueueAfterClose(b) : q \in Seq(Statuses)
    <3>1. [kind |-> "OK", command |-> NoCommand] \in Statuses
      BY DEF Statuses, AnyCommand
    <3>2. statusQueue[b] \in Seq(Statuses)
      BY <1>0 DEF ProcessesTyped
    <3>3. Append(statusQueue[b], [kind |-> "OK", command |-> NoCommand]) \in Seq(Statuses)
      BY <3>1, <3>2
    <3>4. Append(statusQueue[b], [kind |-> "OK", command |-> NoCommand]) # <<>>
      BY <3>1, <3>2
    <3>. DEFINE answered == Append(statusQueue[b], [kind |-> "OK", command |-> NoCommand])
    <3>5. ASSUME NEW q \in QueueAfterClose(b)
          PROVE  q = <<>> \/ (statusQueue[b] # <<>> /\ q = Tail(statusQueue[b])) \/ q = Tail(answered)
      <4>. HIDE DEF answered
      <4>1. \/ q = IF statusQueue[b] = <<>> THEN <<>> ELSE Tail(statusQueue[b])
            \/ q \in IF proc[b].state = "dead" THEN {} ELSE {Tail(answered)}
        BY DEF QueueAfterClose, answered
      <4>. QED BY <4>1
    <3>6. statusQueue[b] # <<>> => Tail(statusQueue[b]) \in Seq(Statuses)
      BY <3>2
    <3>7. Tail(answered) \in Seq(Statuses)
      BY <3>3, <3>4
    <3>. HIDE DEF answered
    <3>8. <<>> \in Seq(Statuses)
      OBVIOUS
    <3>. QED BY <3>5, <3>6, <3>7, <3>8, Zenon
  <2>5. statusQueue' \in [Browsers -> Seq(Statuses)]
    BY <1>0, <2>1, <2>4 DEF ProcessesTyped
  <2>6. /\ proc' \in [Browsers -> Processes] /\ inbox' \in [Browsers -> Seq(CommandSequences)]
        /\ \A x \in Browsers : proc'[x].state = "busy" => proc'[x].command \in Commands
    <3>1. inbox' \in [Browsers -> Seq(CommandSequences)]
      BY <1>0, <2>1 DEF ProcessesTyped, CloseBrowserManager
    <3>. QED BY <1>0, <2>1, <3>1, ProcessMoves DEF CloseBrowserManager, AnyCommand
  <2>7. ProcessesTyped'
    BY <1>0, <2>1, <2>5, <2>6 DEF ProcessesTyped
  <2>. QED BY <2>1, <2>3, <2>7, Frames DEF Typed
<1>11. CASE LaunchSucceeds(b)
  <2>. USE <1>11 DEF LaunchSucceeds
  <2>1. Moved
    BY <1>0, ThreadMoves DEF ThreadStages, Working
  <2>2. HandlesTyped'
    BY <1>0, <2>1 DEF HandlesTyped
  <2>3. /\ proc' \in [Browsers -> Processes]
        /\ \A x \in Browsers : proc'[x].state = "busy" => proc'[x].command \in Commands
    <3>. DEFINE new == [proc[b] EXCEPT !.state = "idle", !.gen = @ + 1]
    <3>1. proc' = [proc EXCEPT ![b] = new]
      BY <1>0 DEF ProcessesTyped
    <3>2. new \in Processes /\ new.state = "idle"
      <4>1. proc[b] \in Processes /\ proc[b].gen + 1 \in Nat
        BY <1>0 DEF ProcessesTyped, Processes
      <4>. QED BY <4>1 DEF Processes
    <3>. HIDE DEF new
    <3>. QED BY <1>0, <3>1, <3>2 DEF ProcessesTyped
  <2>4. ProcessesTyped'
    BY <1>0, <2>3 DEF ProcessesTyped, FreshQueues
  <2>. QED BY <2>2, <2>4, Frames DEF Typed
<1>12. CASE LaunchFails(b)
  <2>. USE <1>12 DEF LaunchFails
  <2>1. Moved
    BY <1>0, ThreadMoves DEF ThreadStages, Working
  <2>2. HandlesTyped'
    BY <1>0, <2>1 DEF HandlesTyped
  <2>3. ProcessesTyped'
    BY <1>0 DEF ProcessesTyped, FreshQueues
  <2>4. ManagerTyped'
    BY <1>0 DEF ManagerTyped
  <2>. QED BY <2>2, <2>3, <2>4, Frames DEF Typed
<1>13. CASE DumpRaises(b) \/ RestartDone(b)
  <2>1. /\ GoTo(b, "off")
        /\ restartRequired' = restartRequired \/ restartRequired' = [restartRequired EXCEPT ![b] = FALSE]
        /\ UNCHANGED <<manager, profilePath, processes, controller, callbackThread, history>>
    BY <1>13 DEF DumpRaises, RestartDone
  <2>2. Moved
    BY <1>0, <2>1, ThreadMoves DEF ThreadStages, Working
  <2>3. HandlesTyped'
    BY <1>0, <2>1, <2>2 DEF HandlesTyped
  <2>. QED BY <2>1, <2>3, Frames DEF Typed
<1>. QED BY <1>1, <1>2, <1>3, <1>4, <1>5, <1>6, <1>7, <1>8, <1>9, <1>10, <1>11, <1>12, <1>13
         DEF ThreadNext

LEMMA AppendProperty ==
  ASSUME NEW S, NEW q \in Seq(S), NEW x, NEW n \in DOMAIN Append(q, x)
  PROVE  \/ n \in DOMAIN q /\ Append(q, x)[n] = q[n]
         \/ Append(q, x)[n] = x
  OBVIOUS

LEMMA AppendType ==
  ASSUME NEW S, NEW q \in Seq(S), NEW x \in S
  PROVE  Append(q, x) \in Seq(S)
  OBVIOUS

(* What becomes known of each visit when a batch of completions is read.   *)
LEMMA FirstOfBatch ==
  ASSUME NEW batch \in Seq(Finals), NEW v \in {batch[n].visit : n \in DOMAIN batch}
  PROVE  LET k == CHOOSE n \in DOMAIN batch :
                    batch[n].visit = v /\ \A m \in 1 .. n - 1 : batch[m].visit # v
         IN  k \in DOMAIN batch /\ batch[k].visit = v
<1>. DEFINE T == {n \in DOMAIN batch : batch[n].visit = v}
<1>1. T \subseteq Nat /\ T # {}
  OBVIOUS
<1>2. PICK n \in T : \A m \in T : n <= m
  <2>. HIDE DEF T
  <2>. QED BY <1>1, FirstExists
<1>3. \A m \in 1 .. n - 1 : batch[m].visit # v
  BY <1>2
<1>. QED BY <1>3

LEMMA OtherTyped ==
  ASSUME Typed,
         \/ StorageNext \/ CallbackNext
         \/ \E b \in Browsers : ProcessNext(b) \/ ExtensionFinalizes(b) \/ WatchdogFlags(b)
  PROVE  Typed'
<1>. USE DEF Typed
<1>0. /\ ManagerTyped /\ HandlesTyped /\ ProcessesTyped /\ ControllerTyped /\ HistoryTyped
      /\ proc \in [Browsers -> Processes]
  BY DEF ProcessesTyped
<1>1. ASSUME NEW b \in Browsers, TakeCommand(b) PROVE Typed'
  <2>. DEFINE command == Head(commandQueue[b])
  <2>1. /\ commandQueue[b] # <<>>
        /\ proc' = [proc EXCEPT ![b].state = "busy", ![b].command = command]
        /\ ranOn' = [ranOn EXCEPT ![command.cs] = @ \cup {<<b, proc[b].gen>>}]
        /\ commandQueue' = [commandQueue EXCEPT ![b] = Tail(@)]
        /\ UNCHANGED <<manager, handles, statusQueue, inbox, controller, callbackThread, issued,
                       touched, succeeded, called>>
    BY <1>1 DEF TakeCommand
  <2>2. command \in Commands /\ Tail(commandQueue[b]) \in Seq(Commands)
    BY <1>0, <2>1 DEF ProcessesTyped
  <2>. HIDE DEF command
  <2>3. /\ proc' \in [Browsers -> Processes]
        /\ \A x \in Browsers : proc'[x].state = "busy" => proc'[x].command \in Commands
    BY <1>0, <2>1, <2>2, ProcessMoves DEF AnyCommand
  <2>4. ProcessesTyped'
    BY <1>0, <2>1, <2>2, <2>3 DEF ProcessesTyped
  <2>5. command.cs \in CommandSequences /\ <<b, proc[b].gen>> \in Browsers \X Nat
    BY <1>0, <2>2 DEF Commands, Processes
  <2>6. HistoryTyped'
    BY <1>0, <2>1, <2>5 DEF HistoryTyped
  <2>. QED BY <2>1, <2>4, <2>6, Frames DEF Typed
<1>2. ASSUME NEW b \in Browsers, NEW outcome \in Outcomes, FinishCommand(b, outcome) PROVE Typed'
  <2>. DEFINE command == proc[b].command
              status == [kind |-> StatusOf(outcome), command |-> command]
              state == IF outcome \in {"ok", "failed"} THEN "idle" ELSE "dead"
  <2>1. /\ proc[b].state = "busy"
        /\ statusQueue' = [statusQueue EXCEPT ![b] = Append(@, status)]
        /\ proc' = [proc EXCEPT ![b].state = state, ![b].command = NoCommand]
        /\ inbox' = inbox \/ inbox' = [inbox EXCEPT ![b] = Append(@, command.cs)]
        /\ UNCHANGED <<manager, handles, commandQueue, controller, callbackThread, history>>
    BY <1>2 DEF FinishCommand
  <2>2. command \in Commands
    BY <1>0, <2>1 DEF ProcessesTyped
  <2>3. status \in Statuses
    BY <2>2 DEF Statuses, AnyCommand, StatusOf, Outcomes
  <2>4. state \in {"dead", "idle"}
    OBVIOUS
  <2>5. command.cs \in CommandSequences
    BY <2>2 DEF Commands
  <2>. HIDE DEF command, status, state
  <2>6. /\ proc' \in [Browsers -> Processes]
        /\ \A x \in Browsers : proc'[x].state = "busy" => proc'[x].command \in Commands
    BY <1>0, <2>1, <2>4, ProcessMoves DEF AnyCommand
  <2>7. statusQueue' \in [Browsers -> Seq(Statuses)]
    BY <1>0, <2>1, <2>3 DEF ProcessesTyped
  <2>8. inbox' \in [Browsers -> Seq(CommandSequences)]
    <3>1. inbox \in [Browsers -> Seq(CommandSequences)]
      BY <1>0 DEF ProcessesTyped
    <3>2. Append(inbox[b], command.cs) \in Seq(CommandSequences)
      BY <2>5, <3>1
    <3>. QED BY <2>1, <3>1, <3>2
  <2>9. ProcessesTyped'
    BY <1>0, <2>1, <2>6, <2>7, <2>8 DEF ProcessesTyped
  <2>. QED BY <2>1, <2>9, Frames DEF Typed
<1>3. ASSUME NEW b \in Browsers, ExtensionFinalizes(b) PROVE Typed'
  <2>. USE <1>3 DEF ExtensionFinalizes
  <2>1. /\ Head(inbox[b]) \in CommandSequences
        /\ Tail(inbox[b]) \in Seq(CommandSequences)
    BY DEF ProcessesTyped
  <2>2. ProcessesTyped'
    BY <2>1 DEF ProcessesTyped
  <2>3. Final(Head(inbox[b]), TRUE) \in Finals
    BY <2>1 DEF Final, Finals
  <2>4. ControllerTyped'
    BY <2>3 DEF ControllerTyped, SendFinalize, Final, Finals
  <2>5. ManagerTyped' /\ HandlesTyped' /\ HistoryTyped'
    BY DEF ManagerTyped, HandlesTyped, HistoryTyped, manager, handles, history
  <2>. QED BY <2>2, <2>4, <2>5
<1>4. ASSUME NEW b \in Browsers, WatchdogFlags(b) PROVE Typed'
  BY <1>4 DEF WatchdogFlags, ManagerTyped, HandlesTyped, ProcessesTyped, ControllerTyped,
              HistoryTyped, manager, processes, controller, history
<1>5. ASSUME NEW n \in DOMAIN finals, StorageReports(n) PROVE Typed'
  BY <1>5 DEF StorageReports, ManagerTyped, HandlesTyped, ProcessesTyped, ControllerTyped,
              HistoryTyped, manager, handles, processes, history
<1>6. CASE FeederReturns \/ StorageStops
  <2>1. UNCHANGED <<manager, handles, processes, callbackThread, history>>
    BY <1>6 DEF FeederReturns, StorageStops
  <2>2. storage' \in {"unfed", "down"}
    BY <1>6 DEF FeederReturns, StorageStops
  <2>3. finals' \in Seq(Finals) /\ completions' \in Seq(Finals)
    <3>1. CASE FeederReturns
      BY <1>0, <3>1 DEF FeederReturns, ControllerTyped
    <3>2. CASE StorageStops
      <4>1. PICK own \in Seq(Finals) : finals' = finals \o own /\ completions' = completions \o own
        BY <3>2, OwnFinals
      <4>2. finals \in Seq(Finals) /\ completions \in Seq(Finals)
        BY <1>0 DEF ControllerTyped
      <4>. QED BY <4>1, <4>2
    <3>. QED BY <1>6, <3>1, <3>2
  <2>4. ControllerTyped'
    BY <2>2, <2>3 DEF ControllerTyped
  <2>. QED BY <2>1, <2>4, Frames DEF Typed
<1>7. CASE CallbackThreadEnds
  BY <1>7 DEF CallbackThreadEnds, ManagerTyped, HandlesTyped, ProcessesTyped, ControllerTyped,
              HistoryTyped, manager, handles, processes, controller, history
<1>8. CASE InvokeCallbacks
  <2>. USE <1>8 DEF InvokeCallbacks
  <2>1. unsaved' \subseteq CommandSequences /\ called' \in [CommandSequences -> Seq(BOOLEAN)]
    <3>1. completions \in Seq(Finals)
      BY DEF ControllerTyped
    <3>2. unsaved \subseteq CommandSequences /\ called \in [CommandSequences -> Seq(BOOLEAN)]
      BY DEF ManagerTyped, HistoryTyped
    <3>3. \A k \in DOMAIN completions : completions[k].success \in BOOLEAN
      <4>1. \A f \in Finals : f.success \in BOOLEAN
        BY DEF Finals
      <4>. QED BY <3>1, <4>1
    <3>. DEFINE k(v) == CHOOSE n \in DOMAIN completions :
                    completions[n].visit = v /\ \A m \in 1 .. n - 1 : completions[m].visit # v
                visits == {completions[n].visit : n \in DOMAIN completions}
    <3>4. \A v \in visits : k(v) \in DOMAIN completions
      BY <3>1, FirstOfBatch
    <3>5. /\ unsaved' = unsaved \ (visits \cap unsaved)
          /\ called' = [v \in CommandSequences |->
                IF v \in visits \cap unsaved THEN Append(called[v], completions[k(v)].success)
                                             ELSE called[v]]
      BY DEF MarkDone
    <3>6. \A v \in visits : completions[k(v)].success \in BOOLEAN
      BY <3>3, <3>4
    <3>. HIDE DEF k, visits
    <3>7. \A v \in visits : \A q \in Seq(BOOLEAN) :
            Append(q, completions[k(v)].success) \in Seq(BOOLEAN)
      BY <3>6, AppendType
    <3>8. ASSUME NEW v \in CommandSequences
          PROVE  (IF v \in visits \cap unsaved THEN Append(called[v], completions[k(v)].success)
                                             ELSE called[v]) \in Seq(BOOLEAN)
      <4>1. called[v] \in Seq(BOOLEAN)
        BY <3>2
      <4>. QED BY <4>1, <3>7, Zenon
    <3>9. called' \in [CommandSequences -> Seq(BOOLEAN)]
      BY <3>5, <3>8, Zenon
    <3>. QED BY <3>2, <3>5, <3>9
  <2>2. ManagerTyped' /\ HistoryTyped'
    BY <2>1 DEF ManagerTyped, HistoryTyped
  <2>3. HandlesTyped' /\ ProcessesTyped' /\ ControllerTyped'
    BY DEF HandlesTyped, ProcessesTyped, ControllerTyped, handles, processes
  <2>. QED BY <2>2, <2>3
<1>. QED BY <1>1, <1>2, <1>3, <1>4, <1>5, <1>6, <1>7, <1>8
         DEF StorageNext, CallbackNext, ProcessNext

LEMMA StutterTyped == Typed /\ UNCHANGED vars => Typed'
  BY DEF Typed, ManagerTyped, HandlesTyped, ProcessesTyped, ControllerTyped, HistoryTyped,
         vars, manager, handles, processes, controller, history

(* No message, status or command is ever of another kind than its reader   *)
(* expects, and a thread at work has a sequence.                           *)
THEOREM StateIsWellFormed == Spec => []Typed
<1>1. Typed /\ [Next]_vars => Typed'
  BY MainTyped, ThreadTyped, OtherTyped, StutterTyped DEF Next
<1>. QED BY InitTyped, <1>1, PTL DEF Spec

-----------------------------------------------------------------------------
(* How the manager ends.                                                   *)

Gone(b) == thread[b].pc = "off" /\ proc[b].state = "dead"

(* The stages of the user's thread, and who is still there in them.        *)
StagesOK ==
    /\ main.browser >= 1
    /\ main.pc \in {"user", "pick", "join", "joinCallbacks"} => main.init = "done"
    /\ main.pc \in {"construct", "raised"} => main.init # "done"
    /\ main.pc \in {"construct", "join"} => ~closing
    /\ main.pc \in {"shutdown", "joinStorage", "joinCallbacks", "raised", "aborted"} => closing
StorageOK ==
    /\ ~closing \/ main.pc \in {"shutdown", "aborted"} => storage = "up"
    /\ main.pc = "joinStorage" => storage # "up"
    /\ main.pc = "joinCallbacks" \/ Closed => storage = "down"
BrowsersOK ==
    closing /\ main.relaxed =>
      \A b \in Browsers : \/ main.pc = "shutdown" /\ b >= main.browser
                          \/ main.pc = "aborted"
                          \/ Gone(b)
CallbacksOK ==
    /\ main.init # "done" => unsaved = {} /\ callbackThread = "off"
    /\ main.init = "done" /\ callbackThread = "off" => closing /\ unsaved = {}
    /\ Closed => callbackThread = "off"
ShutdownInv == StagesOK /\ StorageOK /\ BrowsersOK /\ CallbacksOK

LEMMA InitShutdown == Init => ShutdownInv
  BY DEF Init, StorageLaunched, ShutdownInv, StagesOK, StorageOK, BrowsersOK, CallbacksOK, Closed

(* What a command thread leaves alone: everything of the user's thread and *)
(* of the other browsers; a thread that ended takes no step.               *)
LEMMA ThreadSteps ==
  ASSUME Typed, NEW b \in Browsers, ThreadNext(b)
  PROVE  /\ thread[b].pc # "off"
         /\ UNCHANGED <<main, closing, unsaved, storage, callbackThread>>
         /\ \A x \in Browsers : x # b => thread'[x] = thread[x] /\ proc'[x] = proc[x]
<1>. USE DEF AtThread, GoTo, manager, handles, processes, controller, history
<1>0. thread \in [Browsers -> Threads] /\ proc \in [Browsers -> Processes]
  BY DEF Typed, HandlesTyped, ProcessesTyped
<1>4. ASSUME NEW pc \in Working, SocketError(b, pc) PROVE thread[b].pc # "off"
  BY <1>4 DEF SocketError, Working
<1>5. CASE StartSequence(b) \/ SendCommand(b) \/ CommandTimeout(b)
  BY <1>0, <1>5 DEF StartSequence, SocketError, SendCommand, CommandTimeout
<1>6. CASE ReceiveStatus(b)
  BY <1>0, <1>6 DEF ReceiveStatus
<1>7. CASE RecordOutcome(b)
  <2>1. GoTo(b, "off") \/ GoTo(b, "compare") \/ GoTo(b, "decide")
    BY <1>7 DEF RecordOutcome, SocketError
  <2>2. \A x \in Browsers : x # b => thread'[x] = thread[x]
    BY <1>0, <2>1
  <2>. QED BY <1>7, <2>2 DEF RecordOutcome, SocketError
<1>8. CASE CompareFailures(b) \/ AfterSequence(b) \/ RestartDone(b) \/ DumpRaises(b)
  BY <1>0, <1>8 DEF CompareFailures, AfterSequence, RestartDone, DumpRaises
<1>9. CASE NextCommand(b)
  <2>1. \A x \in Browsers : x # b => thread'[x] = thread[x]
    BY <1>0, <1>9 DEF NextCommand, SocketError
  <2>. QED BY <1>9, <2>1 DEF NextCommand, SocketError
<1>10. CASE RestartClose(b)
  BY <1>0, <1>10 DEF RestartClose, CloseBrowserManager
<1>11. CASE LaunchSucceeds(b) \/ LaunchFails(b)
  BY <1>0, <1>11 DEF LaunchSucceeds, LaunchFails, FreshQueues
<1>. QED BY <1>5, <1>6, <1>7, <1>8, <1>9, <1>10, <1>11 DEF ThreadNext

(* What the browser processes, their extensions, the watchdog, the storage *)
(* controller and the callback thread leave alone.                         *)
LEMMA OtherSteps ==
  ASSUME Typed,
         \/ StorageNext \/ CallbackNext
         \/ \E b \in Browsers : ProcessNext(b) \/ ExtensionFinalizes(b) \/ WatchdogFlags(b)
  PROVE  /\ UNCHANGED <<main, closing, thread, touched>>
         /\ \A x \in Browsers : proc[x].state = "dead" => proc'[x] = proc[x]
<1>. USE DEF manager, handles, processes, controller, history
<1>0. proc \in [Browsers -> Processes]
  BY DEF Typed, ProcessesTyped
<1>1. ASSUME NEW b \in Browsers, TakeCommand(b) \/ WatchdogFlags(b)
      PROVE  /\ UNCHANGED <<main, closing, thread, touched>>
             /\ \A x \in Browsers : proc[x].state = "dead" => proc'[x] = proc[x]
  BY <1>0, <1>1 DEF TakeCommand, WatchdogFlags
<1>2. ASSUME NEW b \in Browsers, NEW outcome \in Outcomes, FinishCommand(b, outcome)
      PROVE  /\ UNCHANGED <<main, closing, thread, touched>>
             /\ \A x \in Browsers : proc[x].state = "dead" => proc'[x] = proc[x]
  BY <1>0, <1>2 DEF FinishCommand
<1>3. ASSUME NEW b \in Browsers, ExtensionFinalizes(b)
      PROVE  UNCHANGED <<main, closing, thread, touched, proc>>
  BY <1>3 DEF ExtensionFinalizes
<1>4. CASE StorageNext \/ CallbackNext
  BY <1>4 DEF StorageNext, StorageReports, FeederReturns, StorageStops, CallbackNext,
              CallbackThreadEnds, InvokeCallbacks
<1>. QED BY <1>1, <1>2, <1>3, <1>4 DEF ProcessNext

LEMMA ThreadShutdown ==
  ASSUME Typed, ShutdownInv, NEW b \in Browsers, ThreadNext(b)
  PROVE  ShutdownInv'
<1>1. StagesOK' /\ CallbacksOK'
  BY ThreadSteps DEF ShutdownInv, StagesOK, CallbacksOK, Closed
<1>2. StorageOK'
  BY ThreadSteps DEF ShutdownInv, StorageOK, Closed
<1>3. BrowsersOK'
  BY ThreadSteps DEF ShutdownInv, BrowsersOK, Gone
<1>. QED BY <1>1, <1>2, <1>3 DEF ShutdownInv

LEMMA OtherShutdown ==
  ASSUME Typed, ShutdownInv,
         \/ StorageNext \/ CallbackNext
         \/ \E b \in Browsers : ProcessNext(b) \/ ExtensionFinalizes(b) \/ WatchdogFlags(b)
  PROVE  ShutdownInv'
<1>. USE DEF manager, handles, processes, controller, history
<1>0. /\ UNCHANGED <<main, closing, thread, touched>>
      /\ \A x \in Browsers : proc[x].state = "dead" => proc'[x] = proc[x]
  BY OtherSteps
<1>1. StagesOK'
  BY <1>0 DEF ShutdownInv, StagesOK
<1>2. BrowsersOK'
  BY <1>0 DEF ShutdownInv, BrowsersOK, Gone
<1>3. \/ UNCHANGED <<storage, unsaved, callbackThread>>
      \/ storage \in {"stopping", "unfed"} /\ storage' \in {"unfed", "down"}
         /\ UNCHANGED <<unsaved, callbackThread>>
      \/ closing /\ unsaved = {} /\ callbackThread = "poll" /\ callbackThread' = "off"
         /\ UNCHANGED <<unsaved, storage>>
      \/ callbackThread = "poll" /\ UNCHANGED <<storage, callbackThread>>
  BY DEF StorageNext, CallbackNext, ProcessNext, StorageReports, FeederReturns, StorageStops,
         CallbackThreadEnds, CallbacksDone, InvokeCallbacks, TakeCommand, FinishCommand, ExtensionFinalizes,
         WatchdogFlags
<1>4. StorageOK'
  BY <1>0, <1>3 DEF ShutdownInv, StorageOK, Closed
<1>5. CallbacksOK'
  BY <1>0, <1>3 DEF ShutdownInv, CallbacksOK, Closed
<1>. QED BY <1>1, <1>2, <1>4, <1>5 DEF ShutdownInv

(* A shutdown begins where none was.                                       *)
LEMMA ShutdownBegins ==
  ASSUME Typed, ShutdownInv, NEW relaxed \in BOOLEAN, BeginShutdown(relaxed), ~closing,
         main.init = "done",
         UNCHANGED <<unsaved, storage, touched, finals, callbackThread>>
  PROVE  ShutdownInv'
<1>1. /\ main'.pc = "shutdown" /\ main'.browser = 1 /\ main'.relaxed = relaxed
      /\ main'.init = main.init /\ closing'
  BY DEF BeginShutdown, Typed, ManagerTyped, Mains
<1>2. \A b \in Browsers : b >= 1
  BY DEF Browsers
<1>. QED BY <1>1, <1>2
         DEF ShutdownInv, StagesOK, StorageOK, BrowsersOK, CallbacksOK, Closed

LEMMA MainShutdown ==
  ASSUME Typed, ShutdownInv, UserNext \/ MainNext
  PROVE  ShutdownInv'
<1>. USE DEF manager, handles, processes, controller, history
<1>0. /\ main \in Mains
      /\ thread \in [Browsers -> Threads] /\ proc \in [Browsers -> Processes]
  BY DEF Typed, ManagerTyped, HandlesTyped, ProcessesTyped
<1>c. Browsers = 1 .. NumBrowsers /\ NumBrowsers \in Nat \ {0}
  BY ConstantsAssumption DEF Browsers
<1>1. ASSUME NEW cs \in CommandSequences, ExecuteCommandSequence(cs) PROVE ShutdownInv'
  <2>1. /\ main.pc = "user" /\ main'.pc = "pick" /\ main'.browser = main.browser
        /\ main'.relaxed = main.relaxed /\ main'.init = main.init
        /\ UNCHANGED <<closing, unsaved, storage, touched, finals, callbackThread, thread, proc>>
    BY <1>0, <1>1 DEF ExecuteCommandSequence, Mains
  <2>. QED BY <2>1
           DEF ShutdownInv, StagesOK, StorageOK, BrowsersOK, CallbacksOK, Closed, Gone
<1>2. ASSUME NEW relaxed \in BOOLEAN, Close(relaxed) PROVE ShutdownInv'
  BY <1>2, ShutdownBegins DEF Close, ShutdownInv, StagesOK
<1>3. ASSUME NEW b \in Browsers, Construct(b) PROVE ShutdownInv'
  <2>1. /\ main.pc = "construct" /\ main.browser = b
        /\ \/ b = NumBrowsers /\ main' = [main EXCEPT !.pc = "user", !.init = "done"]
              /\ callbackThread' = "poll"
           \/ main' = [main EXCEPT !.browser = b + 1] /\ UNCHANGED callbackThread
        /\ UNCHANGED <<closing, unsaved, storage, touched, finals>>
    BY <1>3 DEF Construct, Launching
  <2>2. \/ main'.pc = "user" /\ main'.init = "done" /\ main'.browser = b /\ callbackThread' = "poll"
        \/ main'.pc = "construct" /\ main'.init = main.init /\ main'.browser = b + 1
           /\ UNCHANGED callbackThread
    BY <1>0, <2>1 DEF Mains
  <2>. QED BY <1>c, <2>1, <2>2
           DEF ShutdownInv, StagesOK, StorageOK, BrowsersOK, CallbacksOK, Closed
<1>4. ASSUME NEW b \in Browsers, ConstructionFails(b) PROVE ShutdownInv'
  <2>1. PICK how \in {"gaveUp", "raised"} :
          main' = [main EXCEPT !.pc = "shutdown", !.browser = 1, !.init = how]
    BY <1>4 DEF ConstructionFails
  <2>2. /\ main.pc = "construct" /\ main'.pc = "shutdown" /\ main'.browser = 1
        /\ main'.init # "done" /\ closing'
        /\ UNCHANGED <<unsaved, storage, touched, finals, callbackThread, thread, proc>>
    BY <1>0, <1>4, <2>1 DEF ConstructionFails, Launching, Mains
  <2>3. main.init # "done"
    BY <2>2 DEF ShutdownInv, StagesOK
  <2>30. StagesOK'
    BY <2>2 DEF StagesOK
  <2>4. BrowsersOK'
    <3>1. \A b2 \in Browsers : b2 >= 1
      BY <1>c
    <3>. QED BY <2>2, <3>1 DEF BrowsersOK
  <2>5. StorageOK'
    BY <2>2 DEF ShutdownInv, StagesOK, StorageOK, Closed
  <2>6. CallbacksOK'
    BY <2>2, <2>3 DEF ShutdownInv, CallbacksOK, Closed
  <2>. QED BY <2>30, <2>4, <2>5, <2>6 DEF ShutdownInv
<1>5. ASSUME NEW b \in Browsers, StartThread(b) PROVE ShutdownInv'
  <2>1. /\ main.pc = "pick" /\ main.init = "done"
        /\ UNCHANGED <<storage, touched, finals, callbackThread, proc>>
    BY <1>5 DEF StartThread, Available, ShutdownInv, StagesOK
  <2>2. CASE closing
    <3>1. /\ main'.pc = "user" /\ main'.browser = main.browser /\ main'.init = main.init
          /\ main'.relaxed = main.relaxed /\ UNCHANGED <<closing, unsaved, thread>>
      BY <1>0, <1>5, <2>2 DEF StartThread, Mains
    <3>. QED BY <2>1, <2>2, <3>1
             DEF ShutdownInv, StagesOK, StorageOK, BrowsersOK, CallbacksOK, Closed, Gone
  <2>3. CASE ~closing /\ failureStatus # "none"
    BY <1>5, <2>1, <2>3, ShutdownBegins DEF StartThread
  <2>4. CASE ~closing /\ failureStatus = "none"
    <3>1. /\ main'.pc \in {"join", "user"} /\ main'.browser = b /\ main'.init = "done"
          /\ UNCHANGED closing
      BY <1>0, <1>5, <2>1, <2>4 DEF StartThread, Mains
    <3>2. callbackThread # "off"
      BY <2>1, <2>4 DEF ShutdownInv, CallbacksOK
    <3>. QED BY <1>c, <2>1, <2>4, <3>1, <3>2
             DEF ShutdownInv, StagesOK, StorageOK, BrowsersOK, CallbacksOK, Closed
  <2>. QED BY <2>2, <2>3, <2>4
<1>6. CASE JoinBlocking
  <2>1. /\ main.pc = "join" /\ main.init = "done" /\ ~closing
        /\ UNCHANGED <<unsaved, storage, touched, finals, callbackThread, thread, proc>>
    BY <1>6 DEF JoinBlocking, ShutdownInv, StagesOK
  <2>2. CASE failureStatus # "none"
    BY <1>6, <2>1, <2>2, ShutdownBegins DEF JoinBlocking
  <2>3. CASE failureStatus = "none"
    <3>1. /\ main'.pc = "user" /\ main'.browser = main.browser /\ main'.init = "done"
          /\ UNCHANGED closing
      BY <1>0, <1>6, <2>1, <2>3 DEF JoinBlocking, Mains
    <3>. QED BY <2>1, <3>1
             DEF ShutdownInv, StagesOK, StorageOK, BrowsersOK, CallbacksOK, Closed
  <2>. QED BY <2>2, <2>3
<1>7. CASE ShutdownBrowser
  <2>1. /\ main.pc = "shutdown" /\ main.browser \in Browsers
        /\ main.relaxed => thread[main.browser].pc = "off"
        /\ CloseBrowserManager(main.browser)
        /\ \/ main' = [main EXCEPT !.pc = "aborted"]
           \/ main' = [main EXCEPT !.browser = main.browser + 1]
        /\ UNCHANGED <<closing, unsaved, storage, touched, finals, callbackThread, thread>>
    BY <1>7 DEF ShutdownBrowser, ThreadJoined
  <2>2. /\ main'.init = main.init /\ main'.relaxed = main.relaxed
        /\ \/ main'.pc = "aborted" /\ main'.browser = main.browser
           \/ main'.pc = "shutdown" /\ main'.browser = main.browser + 1
    BY <1>0, <2>1 DEF Mains
  <2>3. /\ proc'[main.browser].state = "dead"
        /\ \A x \in Browsers : x # main.browser => proc'[x] = proc[x]
    BY <1>0, <2>1, ProcessMoves DEF CloseBrowserManager, AnyCommand, Typed
  <2>4. BrowsersOK'
    BY <1>c, <2>1, <2>2, <2>3 DEF ShutdownInv, BrowsersOK, Gone
  <2>5. StagesOK' /\ CallbacksOK'
    BY <1>c, <2>1, <2>2 DEF ShutdownInv, StagesOK, CallbacksOK, Closed
  <2>6. StorageOK'
    BY <2>1, <2>2 DEF ShutdownInv, StagesOK, StorageOK, Closed
  <2>. QED BY <2>4, <2>5, <2>6 DEF ShutdownInv
<1>8. CASE ShutdownStorage
  <2>1. /\ main.pc = "shutdown" /\ main.browser \notin Browsers
        /\ main'.pc = "joinStorage" /\ main'.browser = main.browser /\ main'.init = main.init
        /\ main'.relaxed = main.relaxed /\ storage' = "stopping"
        /\ UNCHANGED <<closing, unsaved, callbackThread, thread, proc>>
    BY <1>0, <1>8 DEF ShutdownStorage, Mains
  <2>4. StorageOK'
    BY <2>1 DEF ShutdownInv, StagesOK, StorageOK, Closed
  <2>5. BrowsersOK'
    <3>1. main.browser \in Nat /\ main.browser >= 1
      BY <1>0 DEF Mains, ShutdownInv, StagesOK
    <3>2. \A b \in Browsers : ~(b >= main.browser)
      BY <1>c, <2>1, <3>1
    <3>. QED BY <2>1, <3>2 DEF ShutdownInv, BrowsersOK, Gone
  <2>6. StagesOK' /\ CallbacksOK'
    BY <2>1 DEF ShutdownInv, StagesOK, CallbacksOK, Closed
  <2>. QED BY <2>4, <2>5, <2>6 DEF ShutdownInv
<1>9. CASE JoinStorage
  <2>1. /\ main.pc = "joinStorage" /\ storage = "down"
        /\ main'.pc = IF main.init = "done" THEN "joinCallbacks" ELSE "raised"
        /\ main'.browser = main.browser /\ main'.init = main.init /\ main'.relaxed = main.relaxed
        /\ UNCHANGED <<closing, unsaved, storage, touched, finals, callbackThread, thread, proc>>
    BY <1>0, <1>9 DEF JoinStorage, Mains
  <2>. QED BY <2>1
           DEF ShutdownInv, StagesOK, StorageOK, BrowsersOK, CallbacksOK, Closed, Gone
<1>10. CASE JoinCallbackThread
  <2>1. /\ main.pc = "joinCallbacks" /\ callbackThread = "off" /\ main'.pc = "user"
        /\ main'.browser = main.browser /\ main'.init = main.init /\ main'.relaxed = main.relaxed
        /\ UNCHANGED <<closing, unsaved, storage, touched, finals, callbackThread, thread, proc>>
    BY <1>0, <1>10 DEF JoinCallbackThread, Mains
  <2>. QED BY <2>1
           DEF ShutdownInv, StagesOK, StorageOK, BrowsersOK, CallbacksOK, Closed, Gone
<1>. QED BY <1>1, <1>2, <1>3, <1>4, <1>5, <1>6, <1>7, <1>8, <1>9, <1>10 DEF UserNext, MainNext

LEMMA StutterShutdown == Typed /\ ShutdownInv /\ UNCHANGED vars => ShutdownInv'
  BY DEF ShutdownInv, StagesOK, StorageOK, BrowsersOK, CallbacksOK, Closed, Gone, vars, manager, handles, processes, controller, history

(* A close takes its stages in order: the storage controller is only asked *)
(* to shut down when no thread will finalize a visit any more.             *)
THEOREM ShutdownIsOrderly == Spec => []ShutdownInv
<1>1. Typed /\ ShutdownInv /\ [Next]_vars => ShutdownInv'
  BY MainShutdown, ThreadShutdown, OtherShutdown, StutterShutdown DEF Next
<1>. QED BY InitShutdown, <1>1, StateIsWellFormed, PTL DEF Spec

(* A relaxed close leaves no thread, process, controller or callback.      *)
THEOREM NothingIsLeft == Spec => []CloseLeavesNothing
<1>1. ShutdownInv => CloseLeavesNothing
  BY DEF ShutdownInv, StagesOK, StorageOK, BrowsersOK, CallbacksOK, CloseLeavesNothing, Closed,
         Gone, AtThread
<1>. QED BY <1>1, ShutdownIsOrderly, PTL

-----------------------------------------------------------------------------
(* Which browser process a visit belongs to.                               *)

(* The command thread of b works on visit v, or a command of v waits for   *)
(* its browser process.                                                    *)
Holds(b, v) ==
    \/ thread[b].pc \in Working /\ thread[b].cs = v
    \/ \E n \in DOMAIN commandQueue[b] : commandQueue[b][n].cs = v

(* A visit is held by one browser only, and has only run on the process    *)
(* that browser has now; what has not been handed out has not run.         *)
RanOK == \A v \in CommandSequences : \E p \in Browsers \X Nat : ranOn[v] \subseteq {p}
HoldsOK ==
    \A b \in Browsers : \A v \in CommandSequences : Holds(b, v) =>
      /\ v \in Range(issued)
      /\ ranOn[v] \subseteq {<<b, proc[b].gen>>}
      /\ \A x \in Browsers : Holds(x, v) => x = b
Unused(v) == ranOn[v] = {} /\ \A b \in Browsers : ~Holds(b, v)
UnusedOK ==
    /\ \A v \in CommandSequences :
         v \notin Range(issued) \/ (main.pc = "pick" /\ main.cs = v) => Unused(v)
    /\ main.pc = "pick" => main.cs \in Range(issued)
    /\ main.pc = "construct" => \A v \in CommandSequences : Unused(v)
VisitsInv == RanOK /\ HoldsOK /\ UnusedOK

LEMMA InitVisits == Init => VisitsInv
<1>. SUFFICES ASSUME Init PROVE VisitsInv
  OBVIOUS
<1>1. \A v \in CommandSequences : \A b \in Browsers : ~Holds(b, v)
  BY DEF Init, InitialHandles, NoThread, Holds, Working
<1>2. \A v \in CommandSequences : ranOn[v] = {}
  BY DEF Init
<1>3. <<1, 0>> \in Browsers \X Nat
  BY ConstantsAssumption DEF Browsers
<1>4. main.pc = "construct"
  BY DEF Init
<1>. QED BY <1>1, <1>2, <1>3, <1>4 DEF VisitsInv, RanOK, HoldsOK, UnusedOK, Unused

(* Most steps hand out no visit and execute no command.                    *)
LEMMA HoldsShrink ==
  ASSUME VisitsInv,
         \A b \in Browsers : \A v \in CommandSequences :
           Holds(b, v)' => Holds(b, v) /\ proc'[b].gen = proc[b].gen,
         UNCHANGED <<ranOn, issued>>,
         main'.pc = "pick" => main.pc = "pick" /\ main'.cs = main.cs,
         main'.pc = "construct" => main.pc = "construct"
  PROVE  VisitsInv'
<1>1. RanOK'
  BY DEF VisitsInv, RanOK
<1>2. HoldsOK'
  BY DEF VisitsInv, HoldsOK
<1>3. \A v \in CommandSequences : Unused(v) => Unused(v)'
  BY DEF Unused
<1>4. UnusedOK'
  BY <1>3 DEF VisitsInv, UnusedOK
<1>. QED BY <1>1, <1>2, <1>4 DEF VisitsInv

(* What the steps of a command thread do to what its browser holds.        *)
LEMMA ThreadHolds ==
  ASSUME Typed, NEW b \in Browsers, ThreadNext(b)
  PROVE  /\ thread'[b].pc \in Working => thread[b].pc \in Working /\ thread'[b].cs = thread[b].cs
         /\ \/ commandQueue' = commandQueue /\ proc'[b].gen = proc[b].gen
            \/ /\ thread[b].pc = "send"
               /\ commandQueue' = [commandQueue EXCEPT ![b] =
                                     Append(@, [cs |-> thread[b].cs, i |-> thread[b].i])]
               /\ proc' = proc
            \/ /\ commandQueue' = [commandQueue EXCEPT ![b] = <<>>]
               /\ thread'[b].pc \notin Working
         /\ \A x \in Browsers : x # b => thread'[x] = thread[x] /\ proc'[x] = proc[x]
         /\ UNCHANGED <<main, issued, ranOn>>
<1>. USE DEF AtThread, GoTo, manager, handles, processes, controller, history
<1>0. thread \in [Browsers -> Threads] /\ proc \in [Browsers -> Processes]
  BY DEF Typed, HandlesTyped, ProcessesTyped
<1>1. \A x \in Browsers : x # b => thread'[x] = thread[x] /\ proc'[x] = proc[x]
  BY ThreadSteps
<1>2. CASE StartSequence(b) \/ CommandTimeout(b)
  BY <1>0, <1>1, <1>2 DEF StartSequence, SocketError, CommandTimeout, Working, Threads
<1>3. CASE SendCommand(b) \/ ReceiveStatus(b)
  BY <1>0, <1>1, <1>3 DEF SendCommand, ReceiveStatus, Working, Threads
<1>4. CASE RecordOutcome(b)
  <2>1. GoTo(b, "off") \/ GoTo(b, "compare") \/ GoTo(b, "decide")
    BY <1>4 DEF RecordOutcome, SocketError
  <2>2. thread[b].pc = "record" /\ UNCHANGED <<main, issued, ranOn, commandQueue, proc>>
    BY <1>4 DEF RecordOutcome, SocketError
  <2>. QED BY <1>0, <1>1, <2>1, <2>2 DEF Working, Threads
<1>5. CASE CompareFailures(b)
  BY <1>0, <1>1, <1>5 DEF CompareFailures, Working, Threads
<1>6. CASE NextCommand(b)
  BY <1>0, <1>1, <1>6 DEF NextCommand, SocketError, Working, Threads
<1>70. CASE AfterSequence(b)
  <2>1. UNCHANGED <<main, issued, ranOn, commandQueue, proc>>
    BY <1>70 DEF AfterSequence
  <2>2. \/ GoTo(b, "off")
        \/ \E reset \in ResetWanted(b) : \E pc \in {"close", "off"} :
             thread' = [thread EXCEPT ![b].pc = pc, ![b].reset = reset]
    BY <1>70 DEF AfterSequence
  <2>3. thread'[b].pc \in {"off", "close"}
    BY <1>0, <2>2 DEF Threads
  <2>. QED BY <1>1, <2>1, <2>3 DEF Working
<1>7. CASE RestartDone(b) \/ DumpRaises(b)
  BY <1>0, <1>1, <1>7 DEF RestartDone, DumpRaises, Working, Threads
<1>8. CASE RestartClose(b)
  <2>1. proc'[b].gen = proc[b].gen
    BY <1>8, ProcessMoves DEF RestartClose, CloseBrowserManager, AnyCommand, Typed
  <2>. QED BY <1>0, <1>1, <1>8, <2>1 DEF RestartClose, Working, Threads
<1>9. CASE LaunchSucceeds(b) \/ LaunchFails(b)
  BY <1>0, <1>1, <1>9 DEF LaunchSucceeds, LaunchFails, FreshQueues, Working, Threads
<1>. QED BY <1>2, <1>3, <1>4, <1>5, <1>6, <1>70, <1>7, <1>8, <1>9 DEF ThreadNext

LEMMA ThreadVisits ==
  ASSUME Typed, VisitsInv, NEW b \in Browsers, ThreadNext(b)
  PROVE  VisitsInv'
<1>0. commandQueue \in [Browsers -> Seq(Commands)]
  BY DEF Typed, ProcessesTyped
<1>1. ASSUME NEW x \in Browsers, NEW v \in CommandSequences, Holds(x, v)'
      PROVE  Holds(x, v) /\ proc'[x].gen = proc[x].gen
  <2>1. CASE x # b
    <3>1. commandQueue'[x] = commandQueue[x]
      BY <1>0, <2>1, ThreadHolds
    <3>. QED BY <1>1, <2>1, <3>1, ThreadHolds DEF Holds
  <2>2. CASE x = b /\ commandQueue' = commandQueue
    <3>1. Holds(b, v)
      BY <1>1, <2>2, ThreadHolds DEF Holds
    <3>2. CASE proc'[b].gen = proc[b].gen
      BY <2>2, <3>1, <3>2
    <3>3. CASE proc'[b].gen # proc[b].gen
      <4>1. commandQueue' = [commandQueue EXCEPT ![b] = <<>>] /\ thread'[b].pc \notin Working
        BY <3>3, ThreadHolds
      <4>2. commandQueue'[b] = <<>>
        BY <1>0, <4>1
      <4>. QED BY <1>1, <2>2, <4>1, <4>2 DEF Holds
    <3>. QED BY <3>2, <3>3
  <2>3. CASE /\ x = b /\ thread[b].pc = "send" /\ proc' = proc
             /\ commandQueue' = [commandQueue EXCEPT ![b] =
                                   Append(@, [cs |-> thread[b].cs, i |-> thread[b].i])]
    <3>1. \A n \in DOMAIN commandQueue'[b] :
            commandQueue'[b][n].cs = thread[b].cs
            \/ (n \in DOMAIN commandQueue[b] /\ commandQueue'[b][n] = commandQueue[b][n])
      BY <1>0, <2>3
    <3>2. thread[b].pc \in Working /\ (thread'[b].pc \in Working => thread'[b].cs = thread[b].cs)
      BY <2>3, ThreadHolds DEF Working
    <3>3. Holds(b, v)'
      BY <1>1, <2>3
    <3>4. v = thread[b].cs \/ \E n \in DOMAIN commandQueue[b] : commandQueue[b][n].cs = v
      BY <3>1, <3>2, <3>3 DEF Holds
    <3>5. Holds(b, v)
      BY <3>2, <3>4 DEF Holds
    <3>. QED BY <2>3, <3>5
  <2>4. CASE /\ x = b /\ thread'[b].pc \notin Working
             /\ commandQueue' = [commandQueue EXCEPT ![b] = <<>>]
    <3>1. commandQueue'[b] = <<>>
      BY <1>0, <2>4
    <3>. QED BY <1>1, <2>4, <3>1 DEF Holds
  <2>. QED BY <2>1, <2>2, <2>3, <2>4, ThreadHolds
<1>2. UNCHANGED <<ranOn, issued, main>>
  BY ThreadHolds
<1>. QED BY <1>1, <1>2, HoldsShrink

LEMMA TakeCommandVisits ==
  ASSUME Typed, VisitsInv, NEW b \in Browsers, TakeCommand(b)
  PROVE  VisitsInv'
<1>. DEFINE command == Head(commandQueue[b])
            w == command.cs
<1>1. /\ commandQueue[b] # <<>>
      /\ proc' = [proc EXCEPT ![b].state = "busy", ![b].command = command]
      /\ ranOn' = [ranOn EXCEPT ![w] = @ \cup {<<b, proc[b].gen>>}]
      /\ commandQueue' = [commandQueue EXCEPT ![b] = Tail(@)]
      /\ UNCHANGED <<main, thread, issued>>
  BY DEF TakeCommand, manager, handles
<1>2. commandQueue \in [Browsers -> Seq(Commands)] /\ ranOn \in [CommandSequences -> SUBSET (Browsers \X Nat)]
  BY DEF Typed, ProcessesTyped, HistoryTyped
<1>3. command \in Commands /\ w \in CommandSequences
  <2>1. command \in Commands
    BY <1>1, <1>2
  <2>. HIDE DEF command
  <2>. QED BY <2>1 DEF Commands
<1>4. Holds(b, w)
  BY <1>1, <1>2 DEF Holds
<1>. HIDE DEF command, w
<1>5. \A x \in Browsers : proc'[x].gen = proc[x].gen
  BY <1>1, <1>3, ProcessMoves DEF AnyCommand, Typed
<1>6. ASSUME NEW x \in Browsers, NEW v \in CommandSequences, Holds(x, v)' PROVE Holds(x, v)
  <2>1. \A n \in DOMAIN commandQueue'[x] :
          \E m \in DOMAIN commandQueue[x] : commandQueue[x][m] = commandQueue'[x][n]
    <3>1. CASE x = b
      <4>1. \A n \in DOMAIN Tail(commandQueue[b]) :
              n + 1 \in DOMAIN commandQueue[b] /\ Tail(commandQueue[b])[n] = commandQueue[b][n + 1]
        BY <1>1, <1>2
      <4>. QED BY <1>1, <1>2, <3>1, <4>1
    <3>2. CASE x # b
      BY <1>1, <1>2, <3>2
    <3>. QED BY <3>1, <3>2
  <2>. QED BY <1>1, <1>6, <2>1 DEF Holds
<1>7. /\ ranOn'[w] = ranOn[w] \cup {<<b, proc[b].gen>>}
      /\ \A v \in CommandSequences : v # w => ranOn'[v] = ranOn[v]
  BY <1>1, <1>2, <1>3
<1>8. ranOn'[w] = {<<b, proc[b].gen>>}
  BY <1>3, <1>4, <1>7 DEF VisitsInv, HoldsOK
<1>9. proc[b].gen \in Nat
  BY DEF Typed, ProcessesTyped, Processes
<1>10. RanOK'
  BY <1>7, <1>8, <1>9 DEF VisitsInv, RanOK
<1>11. HoldsOK'
  <2>. SUFFICES ASSUME NEW x \in Browsers, NEW v \in CommandSequences, Holds(x, v)'
                PROVE  /\ v \in Range(issued)' /\ ranOn'[v] \subseteq {<<x, proc'[x].gen>>}
                       /\ \A y \in Browsers : Holds(y, v)' => y = x
    BY DEF HoldsOK
  <2>1. Holds(x, v) /\ \A y \in Browsers : Holds(y, v)' => Holds(y, v)
    BY <1>6
  <2>2. v \in Range(issued)' /\ \A y \in Browsers : Holds(y, v)' => y = x
    BY <1>1, <2>1 DEF VisitsInv, HoldsOK
  <2>3. CASE v = w
    <3>1. x = b
      BY <1>4, <2>1, <2>3 DEF VisitsInv, HoldsOK
    <3>. QED BY <1>5, <1>8, <2>2, <2>3, <3>1
  <2>4. CASE v # w
    BY <1>5, <1>7, <2>1, <2>2, <2>4 DEF VisitsInv, HoldsOK
  <2>. QED BY <2>3, <2>4
<1>12. ~Unused(w)
  BY <1>4 DEF Unused
<1>13. \A v \in CommandSequences : Unused(v) => Unused(v)'
  BY <1>6, <1>7, <1>12 DEF Unused
<1>14. UnusedOK'
  BY <1>1, <1>13 DEF VisitsInv, UnusedOK
<1>. QED BY <1>10, <1>11, <1>14 DEF VisitsInv

LEMMA OtherVisits ==
  ASSUME Typed, VisitsInv,
         \/ StorageNext \/ CallbackNext
         \/ \E b \in Browsers : ProcessNext(b) \/ ExtensionFinalizes(b) \/ WatchdogFlags(b)
  PROVE  VisitsInv'
<1>. USE DEF manager, handles, processes, controller, history
<1>1. ASSUME UNCHANGED <<main, thread, commandQueue, proc, ranOn, issued>> PROVE VisitsInv'
  BY <1>1, HoldsShrink DEF Holds
<1>2. ASSUME NEW b \in Browsers, NEW outcome \in Outcomes, FinishCommand(b, outcome)
      PROVE  VisitsInv'
  <2>1. UNCHANGED <<main, thread, commandQueue, ranOn, issued>>
    BY <1>2 DEF FinishCommand
  <2>2. \A x \in Browsers : proc'[x].gen = proc[x].gen
    BY <1>2, ProcessMoves DEF FinishCommand, AnyCommand, Typed
  <2>. QED BY <2>1, <2>2, HoldsShrink DEF Holds
<1>3. ASSUME NEW b \in Browsers, ExtensionFinalizes(b) \/ WatchdogFlags(b) PROVE VisitsInv'
  BY <1>1, <1>3 DEF ExtensionFinalizes, WatchdogFlags
<1>4. CASE StorageNext \/ CallbackNext
  BY <1>1, <1>4 DEF StorageNext, StorageReports, FeederReturns, StorageStops, CallbackNext,
                    CallbackThreadEnds, InvokeCallbacks
<1>. QED BY <1>2, <1>3, <1>4, TakeCommandVisits DEF ProcessNext

LEMMA MainVisits ==
  ASSUME Typed, VisitsInv, UserNext \/ MainNext
  PROVE  VisitsInv'
<1>. USE DEF manager, handles, processes, controller, history
<1>0. /\ main \in Mains /\ thread \in [Browsers -> Threads] /\ proc \in [Browsers -> Processes]
      /\ issued \in Seq(CommandSequences)
  BY DEF Typed, ManagerTyped, HandlesTyped, ProcessesTyped, HistoryTyped
<1>1. ASSUME UNCHANGED <<thread, commandQueue, proc, ranOn, issued>>,
             main'.pc # "pick" /\ main'.pc # "construct"
      PROVE  VisitsInv'
  BY <1>1, HoldsShrink DEF Holds
<1>2. ASSUME NEW cs \in CommandSequences, ExecuteCommandSequence(cs) PROVE VisitsInv'
  <2>1. /\ main'.pc = "pick" /\ main'.cs = cs /\ cs \notin Range(issued)
        /\ issued' = Append(issued, cs)
        /\ UNCHANGED <<thread, commandQueue, proc, ranOn>>
    BY <1>0, <1>2 DEF ExecuteCommandSequence, Mains
  <2>2. Range(issued') = Range(issued) \cup {cs}
    BY <1>0, <2>1 DEF Range
  <2>3. \A b \in Browsers : \A v \in CommandSequences : Holds(b, v)' <=> Holds(b, v)
    BY <2>1 DEF Holds
  <2>4. \A v \in CommandSequences : Unused(v)' <=> Unused(v)
    BY <2>1, <2>3 DEF Unused
  <2>5. HoldsOK'
    BY <2>1, <2>2, <2>3 DEF VisitsInv, HoldsOK
  <2>6. UnusedOK'
    BY <2>1, <2>2, <2>4 DEF VisitsInv, UnusedOK
  <2>. QED BY <2>1, <2>5, <2>6 DEF VisitsInv, RanOK
<1>3. ASSUME NEW relaxed \in BOOLEAN, Close(relaxed) PROVE VisitsInv'
  BY <1>0, <1>1, <1>3, ShutdownMoves DEF Close
<1>4. ASSUME NEW b \in Browsers, Construct(b) PROVE VisitsInv'
  <2>1. /\ main.pc = "construct" /\ main'.pc # "pick"
        /\ UNCHANGED <<thread, commandQueue, ranOn, issued>>
    BY <1>0, <1>4 DEF Construct, Launching, Mains
  <2>2. \A x \in Browsers : \A v \in CommandSequences : ~Holds(x, v)
    BY <2>1 DEF VisitsInv, UnusedOK, Unused
  <2>3. \A x \in Browsers : \A v \in CommandSequences : Holds(x, v)' <=> Holds(x, v)
    BY <2>1 DEF Holds
  <2>. QED BY <2>1, <2>2, <2>3, HoldsShrink
<1>5. ASSUME NEW b \in Browsers, ConstructionFails(b) PROVE VisitsInv'
  <2>1. PICK how \in {"gaveUp", "raised"} :
          main' = [main EXCEPT !.pc = "shutdown", !.browser = 1, !.init = how]
    BY <1>5 DEF ConstructionFails
  <2>2. main'.pc = "shutdown"
    BY <1>0, <2>1 DEF Mains
  <2>. QED BY <1>1, <1>5, <2>2 DEF ConstructionFails
<1>6. ASSUME NEW b \in Browsers, StartThread(b) PROVE VisitsInv'
  <2>1. main.pc = "pick" /\ main.cs \in CommandSequences /\ thread[b].pc = "off"
        /\ UNCHANGED <<commandQueue, proc, ranOn, issued>>
    BY <1>6 DEF StartThread, Available, Ready, Typed, ManagerTyped
  <2>2. CASE closing
    BY <1>0, <1>1, <1>6, <2>2, MainMoves DEF StartThread, MainStages
  <2>3. CASE ~closing /\ failureStatus # "none"
    BY <1>0, <1>1, <1>6, <2>3, ShutdownMoves DEF StartThread
  <2>4. CASE ~closing /\ failureStatus = "none"
    <3>. DEFINE new == [NoThread EXCEPT !.pc = "start", !.cs = main.cs]
    <3>1. thread' = [thread EXCEPT ![b] = new] /\ main'.pc \in {"join", "user"}
      BY <1>0, <1>6, <2>4 DEF StartThread, Mains
    <3>2. new.cs = main.cs
      BY DEF NoThread
    <3>. HIDE DEF new
    <3>3. thread'[b].cs = main.cs /\ \A x \in Browsers : x # b => thread'[x] = thread[x]
      BY <1>0, <3>1, <3>2
    <3>4. \A x \in Browsers : \A v \in CommandSequences :
            Holds(x, v)' => Holds(x, v) \/ (x = b /\ v = main.cs)
      BY <2>1, <3>3 DEF Holds
    <3>5. Unused(main.cs) /\ main.cs \in Range(issued)
      BY <2>1 DEF VisitsInv, UnusedOK
    <3>6. HoldsOK'
      BY <2>1, <3>4, <3>5 DEF VisitsInv, HoldsOK, Unused
    <3>7. \A v \in CommandSequences : v # main.cs /\ Unused(v) => Unused(v)'
      BY <2>1, <3>4 DEF Unused
    <3>8. UnusedOK'
      BY <2>1, <3>1, <3>5, <3>7 DEF VisitsInv, UnusedOK
    <3>. QED BY <2>1, <3>6, <3>8 DEF VisitsInv, RanOK
  <2>. QED BY <2>2, <2>3, <2>4
<1>7. CASE JoinBlocking
  <2>1. main'.pc # "pick" /\ main'.pc # "construct"
    <3>1. CASE failureStatus # "none"
      BY <1>0, <1>7, <3>1, ShutdownMoves DEF JoinBlocking
    <3>2. CASE failureStatus = "none"
      BY <1>0, <1>7, <3>2, MainMoves DEF JoinBlocking, MainStages
    <3>. QED BY <3>1, <3>2
  <2>. QED BY <1>1, <1>7, <2>1 DEF JoinBlocking
<1>8. CASE ShutdownBrowser
  <2>1. /\ main.browser \in Browsers /\ CloseBrowserManager(main.browser)
        /\ main'.pc # "pick" /\ main'.pc # "construct"
        /\ UNCHANGED <<thread, commandQueue, ranOn, issued>>
    BY <1>0, <1>8 DEF ShutdownBrowser, Mains
  <2>2. \A x \in Browsers : proc'[x].gen = proc[x].gen
    BY <2>1, ProcessMoves DEF CloseBrowserManager, AnyCommand, Typed
  <2>. QED BY <2>1, <2>2, HoldsShrink DEF Holds
<1>9. CASE ShutdownStorage \/ JoinStorage \/ JoinCallbackThread
  <2>1. main'.pc # "pick" /\ main'.pc # "construct"
    BY <1>0, <1>9 DEF ShutdownStorage, JoinStorage, JoinCallbackThread, Mains
  <2>. QED BY <1>1, <1>9, <2>1 DEF ShutdownStorage, JoinStorage, JoinCallbackThread
<1>. QED BY <1>2, <1>3, <1>4, <1>5, <1>6, <1>7, <1>8, <1>9 DEF UserNext, MainNext

LEMMA StutterVisits == VisitsInv /\ UNCHANGED vars => VisitsInv'
  BY HoldsShrink DEF Holds, vars, manager, handles, processes, controller, history

(* A visit is held by one browser at a time and only ever ran on the       *)
(* process that browser has now.                                           *)
THEOREM VisitsStayWithTheirBrowser == Spec => []VisitsInv
<1>1. Typed /\ VisitsInv /\ [Next]_vars => VisitsInv'
  BY MainVisits, ThreadVisits, OtherVisits, StutterVisits DEF Next
<1>. QED BY InitVisits, <1>1, StateIsWellFormed, PTL DEF Spec

(* All commands of a visit are executed by one browser process.            *)
THEOREM VisitsRunOnOneProcess == Spec => []OneProcessPerVisit
<1>1. Typed /\ VisitsInv => OneProcessPerVisit
  <2>. SUFFICES ASSUME Typed, VisitsInv, NEW v \in CommandSequences
                PROVE  Cardinality(ranOn[v]) <= 1
    BY DEF OneProcessPerVisit
  <2>1. PICK p \in Browsers \X Nat : ranOn[v] \subseteq {p}
    BY DEF VisitsInv, RanOK
  <2>2. IsFiniteSet({p}) /\ Cardinality({p}) = 1
    BY FS_Singleton
  <2>3. Cardinality(ranOn[v]) <= Cardinality({p})
    BY <2>1, <2>2, FS_Subset
  <2>. QED BY <2>2, <2>3
<1>. QED BY <1>1, VisitsStayWithTheirBrowser, StateIsWellFormed, PTL

-----------------------------------------------------------------------------
(* Success, from the answers of the commands to the callback.              *)

Complete(v) == 0 .. UserCommands \subseteq succeeded[v]
Successful(s) == \A n \in DOMAIN s : s[n].success = TRUE => Complete(s[n].visit)

(* The commands a thread has got past were answered OK.                    *)
ProgressOK(b) ==
    /\ thread[b].pc \in Working =>
         \A j \in Nat : j < thread[b].i => j \in succeeded[thread[b].cs]
    /\ \/ thread[b].pc = "record" /\ thread[b].answer = "OK"
       \/ thread[b].pc = "decide" /\ ~restartRequired[b]
       => thread[b].i \in succeeded[thread[b].cs]

(* Finalize is only sent, executed and passed on to the extension for a    *)
(* visit whose other commands were answered OK.                            *)
QueuedOK(b) ==
    \A n \in DOMAIN commandQueue[b] :
      commandQueue[b][n].i = FinalizeIndex => Complete(commandQueue[b][n].cs)
ExecutedOK(b) ==
    proc[b].state = "busy" /\ proc[b].command.i = FinalizeIndex => Complete(proc[b].command.cs)
AnnouncedOK(b) == \A n \in DOMAIN inbox[b] : Complete(inbox[b][n])
CalledOK == \A v \in CommandSequences : \A n \in DOMAIN called[v] : called[v][n] = TRUE => Complete(v)
SuccessInv ==
    /\ \A b \in Browsers : ProgressOK(b) /\ QueuedOK(b) /\ ExecutedOK(b) /\ AnnouncedOK(b)
    /\ Successful(finals) /\ Successful(completions) /\ CalledOK

LEMMA InitSuccess == Init => SuccessInv
<1>. SUFFICES ASSUME Init PROVE SuccessInv
  OBVIOUS
<1>. USE DEF Init, InitialHandles, StorageLaunched
<1>1. \A b \in Browsers : ProgressOK(b) /\ QueuedOK(b) /\ ExecutedOK(b) /\ AnnouncedOK(b)
  BY DEF ProgressOK, QueuedOK, ExecutedOK, AnnouncedOK, NoThread, Working
<1>2. Successful(finals) /\ Successful(completions) /\ CalledOK
  BY DEF Successful, CalledOK
<1>. QED BY <1>1, <1>2 DEF SuccessInv

(* An answered command stays answered, so each part is only disturbed by   *)
(* the steps that change the variables it is about.                        *)
LEMMA SuccessFrames ==
  ASSUME Typed, \A v \in CommandSequences : succeeded[v] \subseteq succeeded'[v]
  PROVE  /\ \A v \in CommandSequences : Complete(v) => Complete(v)'
         /\ \A b \in Browsers :
              /\ ProgressOK(b) /\ thread'[b] = thread[b] /\ (restartRequired[b] => restartRequired'[b])
                   => ProgressOK(b)'
              /\ QueuedOK(b) /\ commandQueue'[b] = commandQueue[b] => QueuedOK(b)'
              /\ QueuedOK(b) /\ commandQueue'[b] = <<>> => QueuedOK(b)'
              /\ ExecutedOK(b) /\ proc'[b] = proc[b] => ExecutedOK(b)'
              /\ proc'[b].state # "busy" => ExecutedOK(b)'
              /\ AnnouncedOK(b) /\ inbox'[b] = inbox[b] => AnnouncedOK(b)'
              /\ inbox'[b] = <<>> => AnnouncedOK(b)'
         /\ Successful(finals) /\ finals' = finals => Successful(finals)'
         /\ Successful(completions) /\ completions' = completions => Successful(completions)'
         /\ CalledOK /\ called' = called => CalledOK'
<1>0. /\ thread \in [Browsers -> Threads]
      /\ \A b \in Browsers : thread[b].pc \in Working => thread[b].cs \in CommandSequences
      /\ proc \in [Browsers -> Processes] /\ commandQueue \in [Browsers -> Seq(Commands)]
      /\ \A b \in Browsers : proc[b].state = "busy" => proc[b].command \in Commands
      /\ inbox \in [Browsers -> Seq(CommandSequences)]
      /\ finals \in Seq(Finals) /\ completions \in Seq(Finals)
  BY DEF Typed, HandlesTyped, ProcessesTyped, ControllerTyped
<1>1. \A v \in CommandSequences : Complete(v) => Complete(v)'
  BY DEF Complete
<1>2. ASSUME NEW b \in Browsers, ProgressOK(b), thread'[b] = thread[b],
             restartRequired[b] => restartRequired'[b]
      PROVE  ProgressOK(b)'
  BY <1>0, <1>2 DEF ProgressOK, Working
<1>3. ASSUME NEW b \in Browsers, QueuedOK(b), commandQueue'[b] = commandQueue[b]
      PROVE  QueuedOK(b)'
  <2>1. \A n \in DOMAIN commandQueue[b] : commandQueue[b][n].cs \in CommandSequences
    <3>1. \A c \in Commands : c.cs \in CommandSequences
      BY DEF Commands
    <3>. QED BY <1>0, <3>1
  <2>. QED BY <1>1, <1>3, <2>1 DEF QueuedOK
<1>4. ASSUME NEW b \in Browsers, ExecutedOK(b), proc'[b] = proc[b] PROVE ExecutedOK(b)'
  <2>1. proc[b].state = "busy" => proc[b].command.cs \in CommandSequences
    BY <1>0 DEF Commands
  <2>. QED BY <1>1, <1>4, <2>1 DEF ExecutedOK
<1>5. ASSUME NEW b \in Browsers, AnnouncedOK(b), inbox'[b] = inbox[b] PROVE AnnouncedOK(b)'
  BY <1>0, <1>1, <1>5 DEF AnnouncedOK
<1>6. ASSUME NEW s \in Seq(Finals), NEW n \in DOMAIN s PROVE s[n].visit \in CommandSequences
  <2>1. \A f \in Finals : f.visit \in CommandSequences
    BY DEF Finals
  <2>. QED BY <2>1
<1>7. Successful(finals) /\ finals' = finals => Successful(finals)'
  BY <1>0, <1>1, <1>6 DEF Successful
<1>8. Successful(completions) /\ completions' = completions => Successful(completions)'
  BY <1>0, <1>1, <1>6 DEF Successful
<1>9. CalledOK /\ called' = called => CalledOK'
  BY <1>1 DEF CalledOK
<1>10. \A b \in Browsers : /\ commandQueue'[b] = <<>> => QueuedOK(b)'
                           /\ proc'[b].state # "busy" => ExecutedOK(b)'
                           /\ inbox'[b] = <<>> => AnnouncedOK(b)'
  BY DEF QueuedOK, ExecutedOK, AnnouncedOK
<1>. QED BY <1>1, <1>2, <1>3, <1>4, <1>5, <1>7, <1>8, <1>9, <1>10

LEMMA Unsuccessful ==
  ASSUME Typed, Successful(finals), NEW v \in CommandSequences, SendFinalize(v, FALSE),
         succeeded' = succeeded
  PROVE  Successful(finals)'
<1>1. finals \in Seq(Finals)
  BY DEF Typed, ControllerTyped
<1>2. \A n \in DOMAIN finals' :
        \/ n \in DOMAIN finals /\ finals'[n] = finals[n]
        \/ finals'[n].success = FALSE
  BY <1>1 DEF SendFinalize, Final
<1>. QED BY <1>2 DEF Successful, Complete

LEMMA GoToKeeps ==
  ASSUME Typed, NEW b \in Browsers, NEW pc, GoTo(b, pc)
  PROVE  /\ thread'[b].pc = pc /\ thread'[b].i = thread[b].i
         /\ thread'[b].cs = thread[b].cs /\ thread'[b].answer = thread[b].answer
  BY DEF Typed, HandlesTyped, Threads, GoTo

(* A thread that ends, or goes on without the answer it asked for, has no  *)
(* new answer to remember.                                                 *)
LEMMA ProgressKept ==
  ASSUME Typed, NEW b \in Browsers, ProgressOK(b), NEW pc, GoTo(b, pc), succeeded' = succeeded,
         pc \in Working => thread[b].pc \in Working,
         pc # "record",
         pc = "decide" /\ ~restartRequired'[b] => thread[b].pc = "record" /\ thread[b].answer = "OK"
  PROVE  ProgressOK(b)'
<1>1. /\ thread'[b].pc = pc /\ thread'[b].i = thread[b].i
      /\ thread'[b].cs = thread[b].cs /\ thread'[b].answer = thread[b].answer
  BY GoToKeeps
<1>. QED BY <1>1 DEF ProgressOK

(* The steps of a command thread but one leave the answers alone.          *)
LEMMA ThreadSuccess ==
  ASSUME Typed, SuccessInv, NEW b \in Browsers, ThreadNext(b)
  PROVE  SuccessInv'
<1>. USE DEF AtThread, GoTo, manager, handles, processes, controller, history
<1>0. /\ thread \in [Browsers -> Threads] /\ proc \in [Browsers -> Processes]
      /\ commandQueue \in [Browsers -> Seq(Commands)]
      /\ succeeded \in [CommandSequences -> SUBSET Nat]
      /\ restartRequired \in [Browsers -> BOOLEAN]
      /\ inbox \in [Browsers -> Seq(CommandSequences)]
      /\ \A x \in Browsers : thread[x].pc \in Working => thread[x].cs \in CommandSequences
  BY DEF Typed, HandlesTyped, ProcessesTyped, HistoryTyped
<1>o. \A x \in Browsers : x # b => thread'[x] = thread[x] /\ proc'[x] = proc[x]
  BY ThreadSteps
<1>i. \A x \in Browsers : thread[x].i \in Nat
  BY <1>0, ConstantsAssumption DEF Threads, FinalizeIndex
<1>f. ASSUME \A v \in CommandSequences : succeeded[v] \subseteq succeeded'[v],
             ProgressOK(b)', QueuedOK(b)', ExecutedOK(b)', AnnouncedOK(b)',
             Successful(finals)', UNCHANGED <<completions, called>>,
             \A x \in Browsers : x # b => restartRequired'[x] = restartRequired[x]
                                          /\ commandQueue'[x] = commandQueue[x]
                                          /\ inbox'[x] = inbox[x]
      PROVE  SuccessInv'
  <2>1. ASSUME NEW x \in Browsers, x # b
        PROVE  ProgressOK(x)' /\ QueuedOK(x)' /\ ExecutedOK(x)' /\ AnnouncedOK(x)'
    BY <1>o, <1>f, <2>1, SuccessFrames DEF SuccessInv
  <2>2. Successful(completions)' /\ CalledOK'
    BY <1>f, SuccessFrames DEF SuccessInv
  <2>. QED BY <1>f, <2>1, <2>2 DEF SuccessInv
(* Steps that neither send nor receive.                                    *)
<1>g. ASSUME ProgressOK(b)', UNCHANGED <<commandQueue, proc, inbox, completions, called, succeeded>>,
             Successful(finals)',
             \A x \in Browsers : x # b => restartRequired'[x] = restartRequired[x]
      PROVE  SuccessInv'
  BY <1>f, <1>g, SuccessFrames DEF SuccessInv
<1>h. finals' = finals /\ succeeded' = succeeded => Successful(finals)'
  BY SuccessFrames DEF SuccessInv
<1>p. ProgressOK(b)
  BY DEF SuccessInv
<1>1. CASE StartSequence(b)
  <2>1. GoTo(b, "off") \/ (thread[b].pc = "start" /\ GoTo(b, "send"))
    BY <1>1 DEF StartSequence, SocketError
  <2>2. UNCHANGED <<commandQueue, proc, inbox, completions, called, succeeded, finals,
                    restartRequired>>
    BY <1>1 DEF StartSequence, SocketError
  <2>3. CASE GoTo(b, "off")
    <3>1. ProgressOK(b)'
      BY <1>p, <2>2, <2>3, ProgressKept DEF Working
    <3>. QED BY <1>g, <1>h, <2>2, <3>1
  <2>4. CASE thread[b].pc = "start" /\ GoTo(b, "send")
    <3>1. ProgressOK(b)'
      BY <1>p, <2>2, <2>4, ProgressKept DEF Working
    <3>. QED BY <1>g, <1>h, <2>2, <3>1
  <2>. QED BY <2>1, <2>3, <2>4
<1>2. CASE SendCommand(b)
  <2>. DEFINE command == [cs |-> thread[b].cs, i |-> thread[b].i]
  <2>1. /\ thread[b].pc = "send" /\ GoTo(b, "wait")
        /\ commandQueue' = [commandQueue EXCEPT ![b] = Append(@, command)]
        /\ UNCHANGED <<proc, inbox, completions, called, succeeded, finals, restartRequired>>
    BY <1>2 DEF SendCommand
  <2>2. ProgressOK(b)'
    BY <1>0, <1>p, <2>1 DEF ProgressOK, Threads, Working
  <2>3. thread[b].i = FinalizeIndex => Complete(thread[b].cs)
    BY <1>p, <2>1, ConstantsAssumption DEF ProgressOK, Working, Complete, FinalizeIndex
  <2>4. QueuedOK(b)'
    <3>1. \A n \in DOMAIN commandQueue'[b] :
            \/ n \in DOMAIN commandQueue[b] /\ commandQueue'[b][n] = commandQueue[b][n]
            \/ commandQueue'[b][n] = command
      BY <1>0, <2>1
    <3>. QED BY <2>1, <2>3, <3>1 DEF QueuedOK, Complete, SuccessInv
  <2>5. ExecutedOK(b)' /\ AnnouncedOK(b)' /\ Successful(finals)'
    BY <2>1, SuccessFrames DEF SuccessInv
  <2>. QED BY <1>0, <1>f, <2>1, <2>2, <2>4, <2>5
<1>3. CASE ReceiveStatus(b)
  <2>. DEFINE answer == Head(statusQueue[b])
  <2>1. /\ thread[b].pc = "wait"
        /\ thread' = [thread EXCEPT ![b].pc = "record", ![b].answer = answer.kind]
        /\ succeeded' = IF answer.kind = "OK"
                         THEN [succeeded EXCEPT ![thread[b].cs] = @ \cup {thread[b].i}]
                         ELSE succeeded
        /\ UNCHANGED <<commandQueue, proc, inbox, completions, called, finals, restartRequired>>
    BY <1>3 DEF ReceiveStatus
  <2>. HIDE DEF answer
  <2>2. thread[b].cs \in CommandSequences
    BY <1>0, <2>1 DEF Working
  <2>3. \A v \in CommandSequences : succeeded[v] \subseteq succeeded'[v]
    BY <1>0, <2>1, <2>2
  <2>4. answer.kind = "OK" => thread[b].i \in succeeded'[thread[b].cs]
    BY <1>0, <2>1, <2>2
  <2>5. /\ thread'[b].pc = "record" /\ thread'[b].answer = answer.kind
        /\ thread'[b].i = thread[b].i /\ thread'[b].cs = thread[b].cs
    <3>1. thread' = [thread EXCEPT ![b] = [thread[b] EXCEPT !.pc = "record", !.answer = answer.kind]]
      BY <1>0, <2>1, TwoAnswers
    <3>. QED BY <1>0, <3>1 DEF Threads
  <2>6. ProgressOK(b)'
    BY <1>p, <2>1, <2>2, <2>3, <2>4, <2>5 DEF ProgressOK, Working
  <2>7. QueuedOK(b)' /\ ExecutedOK(b)' /\ AnnouncedOK(b)' /\ Successful(finals)'
    BY <2>1, <2>3, SuccessFrames DEF SuccessInv
  <2>. QED BY <1>f, <2>1, <2>3, <2>6, <2>7
<1>4. CASE CommandTimeout(b)
  <2>1. /\ thread[b].pc = "wait"
        /\ thread' = [thread EXCEPT ![b].pc = "record", ![b].answer = "timeout"]
        /\ UNCHANGED <<commandQueue, proc, inbox, completions, called, succeeded, finals,
                       restartRequired>>
    BY <1>4 DEF CommandTimeout
  <2>2. /\ thread'[b].pc = "record" /\ thread'[b].answer = "timeout"
        /\ thread'[b].i = thread[b].i /\ thread'[b].cs = thread[b].cs
    <3>1. thread' = [thread EXCEPT ![b] = [thread[b] EXCEPT !.pc = "record", !.answer = "timeout"]]
      BY <1>0, <2>1, TwoAnswers
    <3>. QED BY <1>0, <3>1 DEF Threads
  <2>3. ProgressOK(b)'
    BY <1>p, <2>1, <2>2 DEF ProgressOK, Working
  <2>. QED BY <1>g, <1>h, <2>1, <2>3
<1>5. CASE RecordOutcome(b)
  <2>1. /\ thread[b].pc = "record"
        /\ \/ GoTo(b, "off") \/ GoTo(b, "compare")
           \/ thread[b].answer = "OK" /\ GoTo(b, "decide")
        /\ finals' = finals \/ SendFinalize(thread[b].cs, FALSE)
        /\ UNCHANGED <<commandQueue, proc, inbox, completions, called, succeeded, restartRequired>>
    BY <1>5 DEF RecordOutcome, SocketError
  <2>2. ProgressOK(b)'
    <3>1. ASSUME NEW pc \in {"off", "compare"}, GoTo(b, pc) PROVE ProgressOK(b)'
      BY <1>p, <2>1, <3>1, ProgressKept DEF Working
    <3>2. CASE thread[b].answer = "OK" /\ GoTo(b, "decide")
      BY <1>p, <2>1, <3>2, ProgressKept DEF Working
    <3>. QED BY <2>1, <3>1, <3>2
  <2>3. thread[b].cs \in CommandSequences
    BY <1>0, <2>1 DEF Working
  <2>4. Successful(finals)'
    BY <1>h, <2>1, <2>3, Unsuccessful DEF SuccessInv
  <2>. QED BY <1>g, <2>1, <2>2, <2>4
<1>6. CASE CompareFailures(b)
  <2>1. /\ thread[b].pc = "compare"
        /\ \/ GoTo(b, "off") /\ UNCHANGED restartRequired
           \/ GoTo(b, "decide") /\ restartRequired' = [restartRequired EXCEPT ![b] = TRUE]
        /\ UNCHANGED <<commandQueue, proc, inbox, completions, called, succeeded, finals>>
    BY <1>6 DEF CompareFailures
  <2>2. ProgressOK(b)'
    <3>1. CASE GoTo(b, "off")
      BY <1>p, <2>1, <3>1, ProgressKept DEF Working
    <3>2. CASE GoTo(b, "decide") /\ restartRequired'[b]
      BY <1>p, <2>1, <3>2, ProgressKept DEF Working
    <3>. QED BY <1>0, <2>1, <3>1, <3>2
  <2>. QED BY <1>0, <1>g, <1>h, <2>1, <2>2
<1>7. CASE NextCommand(b)
  <2>1. /\ thread[b].pc = "decide"
        /\ \/ GoTo(b, "off") \/ GoTo(b, "sleep")
           \/ /\ ~restartRequired[b]
              /\ thread' = [thread EXCEPT ![b].pc = "send", ![b].i = @ + 1]
        /\ finals' = finals \/ SendFinalize(thread[b].cs, FALSE)
        /\ UNCHANGED <<commandQueue, proc, inbox, completions, called, succeeded, restartRequired>>
    BY <1>7 DEF NextCommand, SocketError
  <2>2. ProgressOK(b)'
    <3>1. CASE GoTo(b, "off") \/ GoTo(b, "sleep")
      BY <1>0, <3>1 DEF ProgressOK, Threads, Working
    <3>2. CASE /\ ~restartRequired[b]
               /\ thread' = [thread EXCEPT ![b].pc = "send", ![b].i = @ + 1]
      <4>1. thread'[b].pc = "send" /\ thread'[b].i = thread[b].i + 1 /\ thread'[b].cs = thread[b].cs
        BY <1>0, <3>2 DEF Threads
      <4>2. thread[b].i \in succeeded[thread[b].cs]
        BY <1>p, <2>1, <3>2 DEF ProgressOK
      <4>3. \A j \in Nat : j < thread[b].i + 1 => j \in succeeded[thread[b].cs]
        BY <1>i, <1>p, <2>1, <4>2 DEF ProgressOK, Working
      <4>. QED BY <2>1, <4>1, <4>3 DEF ProgressOK
    <3>. QED BY <2>1, <3>1, <3>2
  <2>3. thread[b].cs \in CommandSequences
    BY <1>0, <2>1 DEF Working
  <2>4. Successful(finals)'
    BY <1>h, <2>1, <2>3, Unsuccessful DEF SuccessInv
  <2>. QED BY <1>g, <2>1, <2>2, <2>4
<1>8. CASE AfterSequence(b)
  <2>1. UNCHANGED <<commandQueue, proc, inbox, completions, called, succeeded, finals, restartRequired>>
    BY <1>8 DEF AfterSequence
  <2>2. \/ GoTo(b, "off")
        \/ \E reset \in ResetWanted(b) : \E pc \in {"close", "off"} :
             thread' = [thread EXCEPT ![b].pc = pc, ![b].reset = reset]
    BY <1>8 DEF AfterSequence
  <2>3. thread'[b].pc \in {"off", "close"}
    BY <1>0, <2>2 DEF Threads
  <2>4. ProgressOK(b)'
    BY <2>3 DEF ProgressOK, Working
  <2>. QED BY <1>g, <1>h, <2>1, <2>4
<1>9. CASE RestartClose(b)
  <2>1. /\ GoTo(b, "launch") /\ CloseBrowserManager(b)
        /\ UNCHANGED <<commandQueue, completions, called, succeeded, finals, restartRequired>>
    BY <1>9 DEF RestartClose
  <2>2. ProgressOK(b)'
    BY <1>0, <2>1 DEF ProgressOK, Threads, Working
  <2>3. proc'[b].state = "dead"
    BY <2>1, ProcessMoves DEF CloseBrowserManager, AnyCommand, Typed
  <2>4. inbox'[b] = <<>> /\ \A x \in Browsers : x # b => inbox'[x] = inbox[x]
    BY <1>0, <2>1 DEF CloseBrowserManager
  <2>5. QueuedOK(b)' /\ ExecutedOK(b)' /\ AnnouncedOK(b)' /\ Successful(finals)'
    BY <2>1, <2>3, <2>4, SuccessFrames DEF SuccessInv
  <2>. QED BY <1>f, <2>1, <2>2, <2>4, <2>5
<1>10. CASE LaunchSucceeds(b) \/ LaunchFails(b)
  <2>1. /\ GoTo(b, "launched") \/ GoTo(b, "off")
        /\ FreshQueues(b)
        /\ proc' = proc \/ proc' = [proc EXCEPT ![b].state = "idle", ![b].gen = @ + 1]
        /\ UNCHANGED <<inbox, completions, called, succeeded, finals, restartRequired>>
    BY <1>10 DEF LaunchSucceeds, LaunchFails
  <2>2. ProgressOK(b)'
    BY <1>0, <2>1 DEF ProgressOK, Threads, Working
  <2>3. proc'[b] = proc[b] \/ proc'[b].state # "busy"
    BY <1>0, <2>1 DEF Processes
  <2>4. commandQueue'[b] = <<>> /\ \A x \in Browsers : x # b => commandQueue'[x] = commandQueue[x]
    BY <1>0, <2>1 DEF FreshQueues
  <2>5. QueuedOK(b)' /\ ExecutedOK(b)' /\ AnnouncedOK(b)' /\ Successful(finals)'
    BY <2>1, <2>3, <2>4, SuccessFrames DEF SuccessInv
  <2>. QED BY <1>f, <2>1, <2>2, <2>4, <2>5
<1>11. CASE DumpRaises(b) \/ RestartDone(b)
  <2>1. /\ GoTo(b, "off")
        /\ restartRequired' = restartRequired \/ restartRequired' = [restartRequired EXCEPT ![b] = FALSE]
        /\ UNCHANGED <<commandQueue, proc, inbox, completions, called, succeeded, finals>>
    BY <1>11 DEF DumpRaises, RestartDone
  <2>2. ProgressOK(b)'
    BY <1>0, <2>1 DEF ProgressOK, Threads, Working
  <2>. QED BY <1>0, <1>g, <1>h, <2>1, <2>2
<1>. QED BY <1>1, <1>2, <1>3, <1>4, <1>5, <1>6, <1>7, <1>8, <1>9, <1>10, <1>11 DEF ThreadNext

LEMMA FailuresAppended ==
  ASSUME NEW f \in Seq(Finals), NEW own \in Seq(Finals), Successful(f), succeeded' = succeeded,
         \A n \in DOMAIN own : own[n].success = FALSE
  PROVE  Successful(f \o own)'
<1>1. \A n \in DOMAIN (f \o own) :
        \/ n \in DOMAIN f /\ (f \o own)[n] = f[n]
        \/ (f \o own)[n].success = FALSE
  OBVIOUS
<1>. QED BY <1>1 DEF Successful, Complete

LEMMA OtherSuccess ==
  ASSUME Typed, SuccessInv,
         \/ StorageNext \/ CallbackNext
         \/ \E b \in Browsers : ProcessNext(b) \/ ExtensionFinalizes(b) \/ WatchdogFlags(b)
  PROVE  SuccessInv'
<1>. USE DEF manager, handles, processes, controller, history
<1>0. /\ proc \in [Browsers -> Processes]
      /\ commandQueue \in [Browsers -> Seq(Commands)]
      /\ restartRequired \in [Browsers -> BOOLEAN]
      /\ inbox \in [Browsers -> Seq(CommandSequences)]
      /\ finals \in Seq(Finals) /\ completions \in Seq(Finals)
      /\ called \in [CommandSequences -> Seq(BOOLEAN)]
  BY DEF Typed, HandlesTyped, ProcessesTyped, ControllerTyped, HistoryTyped
<1>1. succeeded' = succeeded
  BY DEF StorageNext, CallbackNext, ProcessNext, StorageReports, FeederReturns, StorageStops, CallbackThreadEnds,
         InvokeCallbacks, TakeCommand, FinishCommand, ExtensionFinalizes, WatchdogFlags
<1>2. ASSUME NEW b \in Browsers, TakeCommand(b) PROVE SuccessInv'
  <2>. DEFINE command == Head(commandQueue[b])
  <2>1. /\ commandQueue[b] # <<>>
        /\ proc' = [proc EXCEPT ![b].state = "busy", ![b].command = command]
        /\ commandQueue' = [commandQueue EXCEPT ![b] = Tail(@)]
        /\ UNCHANGED <<thread, restartRequired, inbox, finals, completions, called>>
    BY <1>2 DEF TakeCommand
  <2>2. command \in Commands /\ (command.i = FinalizeIndex => Complete(command.cs))
    BY <1>0, <2>1 DEF SuccessInv, QueuedOK
  <2>. HIDE DEF command
  <2>3. /\ proc'[b].command = command
        /\ \A x \in Browsers : x # b => proc'[x] = proc[x]
    BY <2>1, <2>2, ProcessMoves DEF AnyCommand, Typed
  <2>4. ExecutedOK(b)'
    BY <1>1, <2>2, <2>3 DEF ExecutedOK, Complete
  <2>5. QueuedOK(b)'
    <3>1. \A n \in DOMAIN Tail(commandQueue[b]) :
            n + 1 \in DOMAIN commandQueue[b] /\ Tail(commandQueue[b])[n] = commandQueue[b][n + 1]
      BY <1>0, <2>1
    <3>. QED BY <1>0, <1>1, <2>1, <3>1 DEF QueuedOK, Complete, SuccessInv
  <2>6. \A x \in Browsers : x # b => commandQueue'[x] = commandQueue[x]
    BY <1>0, <2>1
  <2>7. \A x \in Browsers : ProgressOK(x)' /\ QueuedOK(x)' /\ ExecutedOK(x)' /\ AnnouncedOK(x)'
    BY <1>1, <2>1, <2>3, <2>4, <2>5, <2>6, SuccessFrames DEF SuccessInv
  <2>8. Successful(finals)' /\ Successful(completions)' /\ CalledOK'
    BY <1>1, <2>1, SuccessFrames DEF SuccessInv
  <2>. QED BY <2>7, <2>8 DEF SuccessInv
<1>3. ASSUME NEW b \in Browsers, NEW outcome \in Outcomes, FinishCommand(b, outcome)
      PROVE  SuccessInv'
  <2>. DEFINE command == proc[b].command
              state == IF outcome \in {"ok", "failed"} THEN "idle" ELSE "dead"
  <2>1. /\ proc[b].state = "busy"
        /\ proc' = [proc EXCEPT ![b].state = state, ![b].command = NoCommand]
        /\ \/ inbox' = inbox
           \/ command.i = FinalizeIndex /\ inbox' = [inbox EXCEPT ![b] = Append(@, command.cs)]
        /\ UNCHANGED <<thread, restartRequired, commandQueue, finals, completions, called>>
    BY <1>3 DEF FinishCommand
  <2>2. command.i = FinalizeIndex => Complete(command.cs)
    BY <2>1 DEF SuccessInv, ExecutedOK
  <2>3. state \in {"dead", "idle"}
    OBVIOUS
  <2>. HIDE DEF command, state
  <2>4. proc'[b].state # "busy" /\ \A x \in Browsers : x # b => proc'[x] = proc[x]
    BY <2>1, <2>3, ProcessMoves DEF AnyCommand, Typed
  <2>5. AnnouncedOK(b)'
    <3>1. \A n \in DOMAIN inbox'[b] :
            \/ n \in DOMAIN inbox[b] /\ inbox'[b][n] = inbox[b][n]
            \/ command.i = FinalizeIndex /\ inbox'[b][n] = command.cs
      <4>1. CASE inbox' = inbox
        BY <4>1
      <4>2. CASE command.i = FinalizeIndex /\ inbox' = [inbox EXCEPT ![b] = Append(@, command.cs)]
        <5>1. inbox'[b] = Append(inbox[b], command.cs)
          BY <1>0, <4>2
        <5>2. inbox[b] \in Seq(CommandSequences)
          BY <1>0
        <5>. QED BY <4>2, <5>1, <5>2, AppendProperty
      <4>. QED BY <2>1, <4>1, <4>2
    <3>. QED BY <1>1, <2>2, <3>1 DEF SuccessInv, AnnouncedOK, Complete
  <2>6. \A x \in Browsers : x # b => inbox'[x] = inbox[x]
    BY <1>0, <2>1
  <2>7. \A x \in Browsers : ProgressOK(x)' /\ QueuedOK(x)' /\ ExecutedOK(x)' /\ AnnouncedOK(x)'
    BY <1>1, <2>1, <2>4, <2>5, <2>6, SuccessFrames DEF SuccessInv
  <2>8. Successful(finals)' /\ Successful(completions)' /\ CalledOK'
    BY <1>1, <2>1, SuccessFrames DEF SuccessInv
  <2>. QED BY <2>7, <2>8 DEF SuccessInv
<1>4. ASSUME NEW b \in Browsers, ExtensionFinalizes(b) PROVE SuccessInv'
  <2>1. /\ inbox[b] # <<>> /\ SendFinalize(Head(inbox[b]), TRUE)
        /\ inbox' = [inbox EXCEPT ![b] = Tail(@)]
        /\ UNCHANGED <<thread, restartRequired, commandQueue, proc, completions, called>>
    BY <1>4 DEF ExtensionFinalizes
  <2>2. Complete(Head(inbox[b]))
    BY <1>0, <2>1 DEF SuccessInv, AnnouncedOK
  <2>3. Successful(finals)'
    <3>1. \A n \in DOMAIN finals' :
            \/ n \in DOMAIN finals /\ finals'[n] = finals[n]
            \/ finals'[n].visit = Head(inbox[b])
      BY <1>0, <2>1 DEF SendFinalize, Final
    <3>. QED BY <1>1, <2>2, <3>1 DEF Successful, Complete, SuccessInv
  <2>4. AnnouncedOK(b)'
    <3>1. \A n \in DOMAIN Tail(inbox[b]) :
            n + 1 \in DOMAIN inbox[b] /\ Tail(inbox[b])[n] = inbox[b][n + 1]
      BY <1>0, <2>1
    <3>. QED BY <1>0, <1>1, <2>1, <3>1 DEF AnnouncedOK, Complete, SuccessInv
  <2>5. \A x \in Browsers : x # b => inbox'[x] = inbox[x]
    BY <1>0, <2>1
  <2>6. \A x \in Browsers : ProgressOK(x)' /\ QueuedOK(x)' /\ ExecutedOK(x)' /\ AnnouncedOK(x)'
    BY <1>1, <2>1, <2>4, <2>5, SuccessFrames DEF SuccessInv
  <2>7. Successful(completions)' /\ CalledOK'
    BY <1>1, <2>1, SuccessFrames DEF SuccessInv
  <2>. QED BY <2>3, <2>6, <2>7 DEF SuccessInv
<1>5. ASSUME NEW b \in Browsers, WatchdogFlags(b) PROVE SuccessInv'
  <2>1. /\ restartRequired' = [restartRequired EXCEPT ![b] = TRUE]
        /\ UNCHANGED <<thread, commandQueue, proc, inbox, finals, completions, called>>
    BY <1>5 DEF WatchdogFlags
  <2>2. \A x \in Browsers : restartRequired[x] => restartRequired'[x]
    BY <1>0, <2>1
  <2>. QED BY <1>1, <2>1, <2>2, SuccessFrames DEF SuccessInv
<1>6. ASSUME UNCHANGED <<thread, restartRequired, commandQueue, proc, inbox, finals>>,
             Successful(completions)', CalledOK'
      PROVE  SuccessInv'
  BY <1>1, <1>6, SuccessFrames DEF SuccessInv
<1>7. ASSUME NEW n \in DOMAIN finals, StorageReports(n) PROVE SuccessInv'
  <2>1. /\ completions' = Append(completions, finals[n])
        /\ UNCHANGED <<thread, restartRequired, commandQueue, proc, inbox, finals, called>>
    BY <1>7 DEF StorageReports
  <2>2. \A m \in DOMAIN completions' :
          \/ m \in DOMAIN completions /\ completions'[m] = completions[m]
          \/ completions'[m] = finals[n]
    BY <1>0, <2>1
  <2>3. Successful(completions)'
    BY <1>1, <2>2 DEF Successful, Complete, SuccessInv
  <2>4. CalledOK'
    BY <1>1, <2>1, SuccessFrames DEF SuccessInv
  <2>. QED BY <1>6, <2>1, <2>3, <2>4
<1>8. CASE FeederReturns \/ CallbackThreadEnds
  <2>1. UNCHANGED <<thread, restartRequired, commandQueue, proc, inbox, finals, completions, called>>
    BY <1>8 DEF FeederReturns, CallbackThreadEnds
  <2>2. Successful(completions)' /\ CalledOK'
    BY <1>1, <2>1, SuccessFrames DEF SuccessInv
  <2>. QED BY <1>6, <2>1, <2>2
<1>10. CASE StorageStops
  <2>1. UNCHANGED <<thread, restartRequired, commandQueue, proc, inbox, called>>
    BY <1>10 DEF StorageStops
  <2>2. PICK own \in Seq(Finals) :
          /\ finals' = finals \o own /\ completions' = completions \o own
          /\ \A n \in DOMAIN own : own[n].success = FALSE
    BY <1>10, OwnFinals
  <2>3. Successful(finals)'
    BY <1>0, <1>1, <2>2, FailuresAppended DEF SuccessInv
  <2>4. Successful(completions)'
    BY <1>0, <1>1, <2>2, FailuresAppended DEF SuccessInv
  <2>5. CalledOK'
    BY <1>1, <2>1, SuccessFrames DEF SuccessInv
  <2>6. \A x \in Browsers : QueuedOK(x)' /\ ProgressOK(x)' /\ ExecutedOK(x)' /\ AnnouncedOK(x)'
    BY <1>1, <2>1, SuccessFrames DEF SuccessInv
  <2>. QED BY <2>3, <2>4, <2>5, <2>6 DEF SuccessInv
<1>9. CASE InvokeCallbacks
  <2>. DEFINE k(v) == CHOOSE n \in DOMAIN completions :
                  completions[n].visit = v /\ \A m \in 1 .. n - 1 : completions[m].visit # v
              visits == {completions[n].visit : n \in DOMAIN completions}
  <2>1. /\ completions' = <<>>
        /\ UNCHANGED <<thread, restartRequired, commandQueue, proc, inbox, finals>>
        /\ called' = [v \in CommandSequences |->
              IF v \in visits \cap unsaved THEN Append(called[v], completions[k(v)].success)
                                           ELSE called[v]]
    BY <1>9 DEF InvokeCallbacks, MarkDone
  <2>2. \A v \in visits : k(v) \in DOMAIN completions /\ completions[k(v)].visit = v
    BY <1>0, FirstOfBatch
  <2>. HIDE DEF k, visits
  <2>3. Successful(completions)'
    BY <2>1 DEF Successful
  <2>4. ASSUME NEW v \in CommandSequences, NEW n \in DOMAIN called'[v], called'[v][n] = TRUE
        PROVE  Complete(v)
    <3>1. CASE v \in visits \cap unsaved
      <4>1. called'[v] = Append(called[v], completions[k(v)].success)
        BY <2>1, <3>1
      <4>2. called[v] \in Seq(BOOLEAN)
        BY <1>0
      <4>. DEFINE success == completions[k(v)].success
      <4>3. \/ n \in DOMAIN called[v] /\ called'[v][n] = called[v][n]
            \/ called'[v][n] = success
        <5>1. called'[v] = Append(called[v], success)
          BY <4>1
        <5>. HIDE DEF success
        <5>. QED BY <4>2, <5>1, AppendProperty
      <4>4. CASE n \in DOMAIN called[v] /\ called'[v][n] = called[v][n]
        BY <2>4, <4>4 DEF SuccessInv, CalledOK
      <4>5. CASE called'[v][n] = success
        <5>1. completions[k(v)].success = TRUE
          BY <2>4, <4>5
        <5>. QED BY <2>2, <3>1, <5>1 DEF SuccessInv, Successful
      <4>. QED BY <4>3, <4>4, <4>5
    <3>2. CASE v \notin visits \cap unsaved
      BY <2>1, <2>4, <3>2 DEF SuccessInv, CalledOK
    <3>. QED BY <3>1, <3>2
  <2>5. CalledOK'
    BY <1>1, <2>4 DEF CalledOK, Complete
  <2>. QED BY <1>6, <2>1, <2>3, <2>5
<1>. QED BY <1>2, <1>3, <1>4, <1>5, <1>7, <1>8, <1>9, <1>10
         DEF StorageNext, CallbackNext, ProcessNext

LEMMA MainSuccess ==
  ASSUME Typed, SuccessInv, UserNext \/ MainNext
  PROVE  SuccessInv'
<1>. USE DEF manager, handles, processes, controller, history
<1>0. /\ thread \in [Browsers -> Threads] /\ proc \in [Browsers -> Processes]
      /\ inbox \in [Browsers -> Seq(CommandSequences)]
      /\ finals \in Seq(Finals)
  BY DEF Typed, HandlesTyped, ProcessesTyped, ControllerTyped
<1>1. /\ succeeded' = succeeded
      /\ UNCHANGED <<restartRequired, commandQueue, completions, called>>
  BY DEF UserNext, MainNext, ExecuteCommandSequence, Close, Construct, ConstructionFails,
         StartThread, JoinBlocking, ShutdownBrowser, ShutdownStorage, JoinStorage,
         JoinCallbackThread
<1>2. /\ \A b \in Browsers : QueuedOK(b)'
      /\ Successful(completions)' /\ CalledOK'
  BY <1>1, SuccessFrames DEF SuccessInv
<1>3. ASSUME UNCHANGED <<thread, proc, inbox, finals>> PROVE SuccessInv'
  BY <1>1, <1>3, SuccessFrames DEF SuccessInv
<1>4. CASE \/ \E cs \in CommandSequences : ExecuteCommandSequence(cs)
           \/ \E relaxed \in BOOLEAN : Close(relaxed)
           \/ \E b \in Browsers : ConstructionFails(b)
           \/ JoinBlocking \/ JoinStorage \/ JoinCallbackThread
  BY <1>3, <1>4 DEF ExecuteCommandSequence, Close, ConstructionFails, JoinBlocking, JoinStorage,
                    JoinCallbackThread
<1>5. ASSUME NEW b \in Browsers, Construct(b) PROVE SuccessInv'
  <2>1. /\ proc' = [proc EXCEPT ![b].state = "idle", ![b].gen = 1]
        /\ UNCHANGED <<thread, inbox, finals>>
    BY <1>5 DEF Construct
  <2>2. /\ proc'[b].state # "busy"
        /\ \A x \in Browsers : x # b => proc'[x] = proc[x]
    BY <1>0, <2>1 DEF Processes
  <2>3. \A x \in Browsers : ProgressOK(x)' /\ ExecutedOK(x)' /\ AnnouncedOK(x)'
    BY <1>1, <2>1, <2>2, SuccessFrames DEF SuccessInv
  <2>4. Successful(finals)'
    BY <1>1, <2>1, SuccessFrames DEF SuccessInv
  <2>. QED BY <1>2, <2>3, <2>4 DEF SuccessInv
<1>6. ASSUME NEW b \in Browsers, StartThread(b) PROVE SuccessInv'
  <2>. DEFINE new == [NoThread EXCEPT !.pc = "start", !.cs = main.cs]
  <2>1. /\ thread' = thread \/ thread' = [thread EXCEPT ![b] = new]
        /\ UNCHANGED <<proc, inbox, finals>>
    BY <1>6 DEF StartThread
  <2>2. new.pc = "start" /\ new.i = 0
    BY DEF NoThread
  <2>. HIDE DEF new
  <2>3. ASSUME NEW x \in Browsers PROVE ProgressOK(x)'
    <3>1. CASE thread'[x] = thread[x]
      BY <1>1, <3>1, SuccessFrames DEF SuccessInv
    <3>2. CASE thread'[x] = new
      BY <2>2, <3>2 DEF ProgressOK
    <3>. QED BY <1>0, <2>1, <3>1, <3>2
  <2>4. \A x \in Browsers : ExecutedOK(x)' /\ AnnouncedOK(x)'
    BY <1>1, <2>1, SuccessFrames DEF SuccessInv
  <2>5. Successful(finals)'
    BY <1>1, <2>1, SuccessFrames DEF SuccessInv
  <2>. QED BY <1>2, <2>3, <2>4, <2>5 DEF SuccessInv
<1>7. CASE ShutdownBrowser
  <2>1. /\ main.browser \in Browsers /\ CloseBrowserManager(main.browser)
        /\ UNCHANGED <<thread, finals>>
    BY <1>7 DEF ShutdownBrowser
  <2>2. /\ proc'[main.browser].state # "busy" /\ inbox'[main.browser] = <<>>
        /\ \A x \in Browsers : x # main.browser => proc'[x] = proc[x] /\ inbox'[x] = inbox[x]
    BY <1>0, <2>1, ProcessMoves DEF CloseBrowserManager, AnyCommand, Typed
  <2>3. \A x \in Browsers : ProgressOK(x)' /\ ExecutedOK(x)' /\ AnnouncedOK(x)'
    BY <1>1, <2>1, <2>2, SuccessFrames DEF SuccessInv
  <2>4. Successful(finals)'
    BY <1>1, <2>1, SuccessFrames DEF SuccessInv
  <2>. QED BY <1>2, <2>3, <2>4 DEF SuccessInv
<1>8. CASE ShutdownStorage
  <2>1. UNCHANGED <<thread, finals, proc, inbox>>
    BY <1>8 DEF ShutdownStorage
  <2>2. \A x \in Browsers : ProgressOK(x)' /\ ExecutedOK(x)' /\ AnnouncedOK(x)'
    BY <1>1, <2>1, SuccessFrames DEF SuccessInv
  <2>3. Successful(finals)'
    BY <1>1, <2>1, SuccessFrames DEF SuccessInv
  <2>. QED BY <1>2, <2>2, <2>3 DEF SuccessInv
<1>. QED BY <1>4, <1>5, <1>6, <1>7, <1>8 DEF UserNext, MainNext

LEMMA StutterSuccess == SuccessInv /\ UNCHANGED vars => SuccessInv'
  BY DEF SuccessInv, ProgressOK, QueuedOK, ExecutedOK, AnnouncedOK, Successful, CalledOK, Complete,
         vars, manager, handles, processes, controller, history

(* A sequence that got as far as its last command, or that announced its   *)
(* success, has an answer OK for every command before.                     *)
THEOREM AnswersAreRemembered == Spec => []SuccessInv
<1>1. Typed /\ SuccessInv /\ [Next]_vars => SuccessInv'
  BY MainSuccess, ThreadSuccess, OtherSuccess, StutterSuccess DEF Next
<1>. QED BY InitSuccess, <1>1, StateIsWellFormed, PTL DEF Spec

(* A callback is told of success only after every command was answered OK. *)
THEOREM SuccessIsEarned == Spec => []SuccessMeansAllCommands
<1>1. Typed /\ SuccessInv => SuccessMeansAllCommands
  BY DEF SuccessInv, CalledOK, SuccessMeansAllCommands, Complete, Typed, HistoryTyped
<1>. QED BY <1>1, AnswersAreRemembered, StateIsWellFormed, PTL

-----------------------------------------------------------------------------
(* A thread that waits is only given the answer to its own command, if a   *)
(* launch cannot raise while it dumps the profile.                         *)

Current(b) == [cs |-> thread[b].cs, i |-> thread[b].i]

(* Nothing is under way in the browser, and nothing is left to read.       *)
Quiet(b) ==
    /\ statusQueue[b] = <<>>
    /\ proc[b].state # "dead" => proc[b].state = "idle" /\ commandQueue[b] = <<>>

(* The current command is queued, executed, answered or lost.              *)
InFlight(b) ==
    /\ Len(statusQueue[b]) <= 1
    /\ \A n \in DOMAIN statusQueue[b] : statusQueue[b][n].command = Current(b)
    /\ proc[b].state = "idle" =>
         \/ commandQueue[b] = <<>>
         \/ commandQueue[b] = <<Current(b)>> /\ statusQueue[b] = <<>>
    /\ proc[b].state = "busy" =>
         proc[b].command = Current(b) /\ commandQueue[b] = <<>> /\ statusQueue[b] = <<>>

(* After a timeout the browser is restarted before it is used again.       *)
StageOK(b) ==
    /\ thread[b].pc \in {"start", "send", "launched"} => Quiet(b)
    /\ thread[b].pc = "wait" => InFlight(b)
    /\ thread[b].pc = "record" /\ thread[b].answer # "timeout" => Quiet(b)
    /\ thread[b].pc \in {"decide", "sleep"} => Quiet(b) \/ restartRequired[b]
    /\ thread[b].pc = "off" => Quiet(b) \/ closing \/ failureStatus # "none"
    /\ thread[b].pc = "launch" => proc[b].state = "dead"

(* A browser without a profile was closed, and not launched since.         *)
NoProfileOK(b) ==
    profilePath[b] = "none" =>
      proc[b].state = "dead" /\ (thread[b].pc # "launch" => statusQueue[b] = <<>>)
ConstructOK ==
    main.pc = "construct" =>
      \A b \in Browsers : /\ thread[b].pc = "off" /\ proc[b].state # "busy"
                          /\ commandQueue[b] = <<>> /\ statusQueue[b] = <<>>
AnswerInv == ConstructOK /\ \A b \in Browsers : StageOK(b) /\ NoProfileOK(b)

LEMMA InitAnswers == Init => AnswerInv
  BY DEF Init, InitialHandles, AnswerInv, ConstructOK, StageOK, NoProfileOK, Quiet, NoThread

(* A browser is not disturbed by the steps of others, nor by its own end.  *)
LEMMA AnswerFrames ==
  ASSUME NEW b \in Browsers, StageOK(b), NoProfileOK(b),
         thread'[b] = thread[b], profilePath'[b] = profilePath[b],
         commandQueue'[b] = commandQueue[b], statusQueue'[b] = statusQueue[b],
         proc'[b] = proc[b] \/ proc'[b].state = "dead",
         restartRequired[b] => restartRequired'[b],
         closing => closing',
         failureStatus # "none" => failureStatus' # "none"
  PROVE  StageOK(b)' /\ NoProfileOK(b)'
<1>1. Quiet(b) => Quiet(b)'
  BY DEF Quiet
<1>2. InFlight(b) => InFlight(b)'
  BY DEF InFlight, Current
<1>3. StageOK(b)'
  BY <1>1, <1>2 DEF StageOK
<1>. QED BY <1>3 DEF NoProfileOK

(* A step of the thread that leaves its browser and the queues alone.      *)
LEMMA AnswerMoves ==
  ASSUME NEW b \in Browsers, StageOK(b), NoProfileOK(b), thread[b].pc # "launch",
         profilePath'[b] = profilePath[b],
         commandQueue'[b] = commandQueue[b], statusQueue'[b] = statusQueue[b],
         proc'[b] = proc[b],
         thread'[b].pc \in {"start", "send", "launched"} => Quiet(b),
         thread'[b].pc # "wait", thread'[b].pc # "launch",
         thread'[b].pc = "record" => thread'[b].answer = "timeout",
         thread'[b].pc \in {"decide", "sleep"} => Quiet(b) \/ restartRequired'[b],
         thread'[b].pc = "off" => Quiet(b) \/ closing' \/ failureStatus' # "none"
  PROVE  StageOK(b)' /\ NoProfileOK(b)'
<1>1. Quiet(b) => Quiet(b)'
  BY DEF Quiet
<1>2. StageOK(b)'
  BY <1>1 DEF StageOK
<1>. QED BY <1>2 DEF NoProfileOK

LEMMA ThreadAnswers ==
  ASSUME Typed, ShutdownInv, AnswerInv, ~DumpsFail, NEW b \in Browsers, ThreadNext(b)
  PROVE  AnswerInv'
<1>. USE DEF AtThread, manager, handles, processes, controller, history
<1>0. /\ thread \in [Browsers -> Threads] /\ proc \in [Browsers -> Processes]
      /\ commandQueue \in [Browsers -> Seq(Commands)]
      /\ statusQueue \in [Browsers -> Seq(Statuses)]
      /\ restartRequired \in [Browsers -> BOOLEAN]
      /\ profilePath \in [Browsers -> {"none", "dir"}]
  BY DEF Typed, HandlesTyped, ProcessesTyped
<1>o. /\ \A x \in Browsers : x # b => thread'[x] = thread[x] /\ proc'[x] = proc[x]
      /\ UNCHANGED <<main, closing>>
      /\ thread[b].pc # "off"
  BY ThreadSteps
<1>c. main.pc # "construct"
  BY <1>o DEF AnswerInv, ConstructOK
<1>s. SockClosed => closing
  BY DEF SockClosed, ShutdownInv, StorageOK
<1>b. StageOK(b) /\ NoProfileOK(b)
  BY DEF AnswerInv
<1>f. ASSUME StageOK(b)', NoProfileOK(b)',
             failureStatus # "none" => failureStatus' # "none",
             \A x \in Browsers : x # b => /\ restartRequired'[x] = restartRequired[x]
                                          /\ profilePath'[x] = profilePath[x]
                                          /\ commandQueue'[x] = commandQueue[x]
                                          /\ statusQueue'[x] = statusQueue[x]
      PROVE  AnswerInv'
  <2>1. ASSUME NEW x \in Browsers, x # b PROVE StageOK(x)' /\ NoProfileOK(x)'
    BY <1>o, <1>f, <2>1, AnswerFrames DEF AnswerInv
  <2>2. ConstructOK'
    BY <1>o, <1>c DEF ConstructOK
  <2>. QED BY <1>f, <2>1, <2>2 DEF AnswerInv
<1>g. ASSUME NEW pc, GoTo(b, pc)
      PROVE  /\ thread'[b].pc = pc /\ thread'[b].i = thread[b].i
             /\ thread'[b].cs = thread[b].cs /\ thread'[b].answer = thread[b].answer
  BY <1>g, GoToKeeps
<1>e. ASSUME NEW pc, SocketError(b, pc), pc # "launch" PROVE AnswerInv'
  <2>1. /\ thread[b].pc = pc /\ thread'[b].pc = "off" /\ closing'
        /\ UNCHANGED <<failureStatus, restartRequired, profilePath, proc, commandQueue, statusQueue>>
    BY <1>e, <1>g, <1>o, <1>s DEF SocketError
  <2>2. StageOK(b)' /\ NoProfileOK(b)'
    BY <1>b, <1>e, <2>1, AnswerMoves
  <2>. QED BY <1>f, <2>1, <2>2
<1>1. CASE StartSequence(b)
  <2>1. CASE SocketError(b, "start")
    BY <1>e, <2>1
  <2>2. CASE ~SocketError(b, "start")
    <3>1. /\ thread[b].pc = "start" /\ GoTo(b, "send")
          /\ UNCHANGED <<failureStatus, restartRequired, profilePath, proc, commandQueue, statusQueue>>
      BY <1>1, <2>2 DEF StartSequence
    <3>2. thread'[b].pc = "send" /\ Quiet(b)
      BY <1>b, <1>g, <3>1 DEF StageOK
    <3>3. StageOK(b)' /\ NoProfileOK(b)'
      BY <1>b, <3>1, <3>2, AnswerMoves
    <3>. QED BY <1>f, <3>1, <3>3
  <2>. QED BY <2>1, <2>2
<1>2. CASE SendCommand(b)
  <2>1. /\ thread[b].pc = "send" /\ GoTo(b, "wait")
        /\ commandQueue' = [commandQueue EXCEPT ![b] = Append(@, Current(b))]
        /\ UNCHANGED <<failureStatus, restartRequired, profilePath, proc, statusQueue>>
    BY <1>2 DEF SendCommand, Current
  <2>2. /\ thread'[b].pc = "wait" /\ Current(b)' = Current(b) /\ Quiet(b)
    BY <1>b, <1>g, <2>1 DEF StageOK, Current
  <2>3. commandQueue'[b] = Append(commandQueue[b], Current(b))
    BY <1>0, <2>1
  <2>4. proc[b].state \in {"dead", "idle", "busy"}
    BY <1>0 DEF Processes
  <2>5. commandQueue[b] = <<>> => commandQueue'[b] = <<Current(b)>>
    BY <2>3
  <2>6. InFlight(b)'
    BY <2>1, <2>2, <2>5 DEF InFlight, Quiet
  <2>7. StageOK(b)' /\ NoProfileOK(b)'
    BY <1>b, <2>1, <2>2, <2>6 DEF StageOK, NoProfileOK
  <2>. QED BY <1>0, <1>f, <2>1, <2>7
<1>3. CASE ReceiveStatus(b)
  <2>. DEFINE answer == Head(statusQueue[b])
  <2>1. /\ thread[b].pc = "wait" /\ statusQueue[b] # <<>>
        /\ thread' = [thread EXCEPT ![b].pc = "record", ![b].answer = answer.kind]
        /\ statusQueue' = [statusQueue EXCEPT ![b] = Tail(@)]
        /\ failureStatus' = "CriticalChildException" \/ failureStatus' = failureStatus
        /\ UNCHANGED <<restartRequired, profilePath, proc, commandQueue>>
    BY <1>3 DEF ReceiveStatus
  <2>. HIDE DEF answer
  <2>2. thread'[b].pc = "record"
    <3>1. thread' = [thread EXCEPT ![b] = [thread[b] EXCEPT !.pc = "record", !.answer = answer.kind]]
      BY <1>0, <2>1, TwoAnswers
    <3>. QED BY <1>0, <3>1 DEF Threads
  <2>3. InFlight(b)
    BY <1>b, <2>1 DEF StageOK
  <2>4. statusQueue'[b] = <<>>
    <3>1. statusQueue[b] \in Seq(Statuses) /\ Len(statusQueue[b]) <= 1
      BY <1>0, <2>3 DEF InFlight
    <3>2. Tail(statusQueue[b]) = <<>>
      BY <2>1, <3>1
    <3>. QED BY <1>0, <2>1, <3>2
  <2>5. proc[b].state \in {"dead", "idle", "busy"}
    BY <1>0 DEF Processes
  <2>6. Quiet(b)'
    BY <2>1, <2>3, <2>4, <2>5 DEF Quiet, InFlight
  <2>7. StageOK(b)' /\ NoProfileOK(b)'
    BY <1>b, <2>1, <2>2, <2>4, <2>6 DEF StageOK, NoProfileOK
  <2>. QED BY <1>0, <1>f, <2>1, <2>7
<1>4. CASE CommandTimeout(b)
  <2>1. /\ thread[b].pc = "wait"
        /\ thread' = [thread EXCEPT ![b].pc = "record", ![b].answer = "timeout"]
        /\ UNCHANGED <<failureStatus, restartRequired, profilePath, proc, commandQueue, statusQueue>>
    BY <1>4 DEF CommandTimeout
  <2>2. thread'[b].pc = "record" /\ thread'[b].answer = "timeout"
    <3>1. thread' = [thread EXCEPT ![b] = [thread[b] EXCEPT !.pc = "record", !.answer = "timeout"]]
      BY <1>0, <2>1, TwoAnswers
    <3>. QED BY <1>0, <3>1 DEF Threads
  <2>3. StageOK(b)' /\ NoProfileOK(b)'
    BY <1>b, <2>1, <2>2, AnswerMoves
  <2>. QED BY <1>f, <2>1, <2>3
<1>5. CASE RecordOutcome(b)
  <2>1. CASE SocketError(b, "record")
    BY <1>e, <2>1
  <2>2. CASE ~SocketError(b, "record")
    <3>1. /\ thread[b].pc = "record"
          /\ \/ thread[b].answer = "CRITICAL" /\ GoTo(b, "off")
             \/ GoTo(b, "compare")
             \/ thread[b].answer = "OK" /\ GoTo(b, "decide")
          /\ UNCHANGED <<failureStatus, restartRequired, profilePath, proc, commandQueue, statusQueue>>
      BY <1>5, <2>2 DEF RecordOutcome
    <3>2. thread'[b].pc \in {"off", "decide"} => Quiet(b)
      <4>1. ASSUME thread[b].answer # "timeout" PROVE Quiet(b)
        BY <1>b, <3>1, <4>1 DEF StageOK
      <4>2. GoTo(b, "compare") => thread'[b].pc = "compare"
        BY <1>g
      <4>. QED BY <3>1, <4>1, <4>2
    <3>3. thread'[b].pc \in {"off", "compare", "decide"}
      BY <1>g, <3>1
    <3>4. StageOK(b)' /\ NoProfileOK(b)'
      BY <1>b, <3>1, <3>2, <3>3, AnswerMoves
    <3>. QED BY <1>f, <3>1, <3>4
  <2>. QED BY <2>1, <2>2
<1>6. CASE CompareFailures(b)
  <2>1. /\ thread[b].pc = "compare"
        /\ UNCHANGED <<profilePath, proc, commandQueue, statusQueue>>
    BY <1>6 DEF CompareFailures
  <2>2. CASE GoTo(b, "off") /\ failureStatus' = "ExceedCommandFailureLimit" /\ UNCHANGED restartRequired
    <3>1. thread'[b].pc = "off"
      BY <1>g, <2>2
    <3>2. StageOK(b)' /\ NoProfileOK(b)'
      BY <1>b, <2>1, <2>2, <3>1, AnswerMoves
    <3>. QED BY <1>f, <2>1, <2>2, <3>2
  <2>3. CASE GoTo(b, "decide") /\ restartRequired' = [restartRequired EXCEPT ![b] = TRUE]
             /\ UNCHANGED failureStatus
    <3>1. thread'[b].pc = "decide" /\ restartRequired'[b]
      BY <1>0, <1>g, <2>3
    <3>2. StageOK(b)' /\ NoProfileOK(b)'
      BY <1>b, <2>1, <2>3, <3>1, AnswerMoves
    <3>. QED BY <1>0, <1>f, <2>1, <2>3, <3>2
  <2>. QED BY <1>6, <2>2, <2>3 DEF CompareFailures
<1>7. CASE NextCommand(b)
  <2>1. CASE restartRequired[b] /\ SocketError(b, "decide")
    BY <1>e, <2>1
  <2>2. CASE ~(restartRequired[b] /\ SocketError(b, "decide"))
    <3>1. /\ thread[b].pc = "decide"
          /\ \/ GoTo(b, "sleep")
             \/ ~restartRequired[b] /\ thread' = [thread EXCEPT ![b].pc = "send", ![b].i = @ + 1]
          /\ UNCHANGED <<failureStatus, restartRequired, profilePath, proc, commandQueue, statusQueue>>
      BY <1>7, <2>2 DEF NextCommand
    <3>2. Quiet(b) \/ restartRequired[b]
      BY <1>b, <3>1 DEF StageOK
    <3>3. \/ thread'[b].pc = "sleep"
          \/ ~restartRequired[b] /\ thread'[b].pc = "send"
      BY <1>0, <1>g, <3>1 DEF Threads
    <3>4. StageOK(b)' /\ NoProfileOK(b)'
      BY <1>b, <3>1, <3>2, <3>3, AnswerMoves
    <3>. QED BY <1>f, <3>1, <3>4
  <2>. QED BY <2>1, <2>2
<1>8. CASE AfterSequence(b)
  <2>1. /\ thread[b].pc = "sleep"
        /\ UNCHANGED <<failureStatus, restartRequired, profilePath, proc, commandQueue, statusQueue>>
    BY <1>8 DEF AfterSequence
  <2>2. Quiet(b) \/ restartRequired[b]
    BY <1>b, <2>1 DEF StageOK
  <2>3. CASE GoTo(b, "off") /\ (closing \/ profilePath[b] = "none")
    <3>1. thread'[b].pc = "off"
      BY <1>g, <2>3
    <3>2. profilePath[b] = "none" => Quiet(b)
      BY <1>b, <2>1 DEF NoProfileOK, Quiet
    <3>3. StageOK(b)' /\ NoProfileOK(b)'
      BY <1>b, <1>o, <2>1, <2>3, <3>1, <3>2, AnswerMoves
    <3>. QED BY <1>f, <2>1, <3>3
  <2>4. ASSUME NEW reset,
               thread' = [thread EXCEPT
                            ![b].pc = IF restartRequired[b] \/ reset THEN "close" ELSE "off",
                            ![b].reset = reset]
        PROVE  AnswerInv'
    <3>. DEFINE pc == IF restartRequired[b] \/ reset THEN "close" ELSE "off"
    <3>1. thread' = [thread EXCEPT ![b] = [thread[b] EXCEPT !.pc = pc, !.reset = reset]]
      BY <1>0, <2>4, TwoResets
    <3>2. pc = "close" \/ (pc = "off" /\ ~restartRequired[b])
      OBVIOUS
    <3>. HIDE DEF pc
    <3>3. thread'[b].pc = pc
      BY <1>0, <3>1 DEF Threads
    <3>4. StageOK(b)' /\ NoProfileOK(b)'
      BY <1>b, <2>1, <2>2, <3>2, <3>3, AnswerMoves
    <3>. QED BY <1>f, <2>1, <3>4
  <2>. QED BY <1>8, <2>3, <2>4 DEF AfterSequence
<1>9. CASE RestartClose(b)
  <2>1. /\ thread[b].pc = "close" /\ GoTo(b, "launch") /\ CloseBrowserManager(b)
        /\ \E queue \in QueueAfterClose(b) : statusQueue' = [statusQueue EXCEPT ![b] = queue]
        /\ profilePath' = profilePath \/ profilePath' = [profilePath EXCEPT ![b] = "none"]
        /\ UNCHANGED <<failureStatus, restartRequired, commandQueue>>
    BY <1>9 DEF RestartClose
  <2>2. proc'[b].state = "dead"
    BY <1>0, <2>1, ProcessMoves DEF CloseBrowserManager, AnyCommand, Typed
  <2>3. thread'[b].pc = "launch"
    BY <1>g, <2>1
  <2>4. StageOK(b)' /\ NoProfileOK(b)'
    BY <2>2, <2>3 DEF StageOK, NoProfileOK
  <2>5. \A x \in Browsers : x # b => /\ statusQueue'[x] = statusQueue[x]
                                     /\ profilePath'[x] = profilePath[x]
    BY <1>0, <2>1
  <2>. QED BY <1>f, <2>1, <2>4, <2>5
<1>10. CASE LaunchSucceeds(b)
  <2>1. /\ GoTo(b, "launched") /\ FreshQueues(b)
        /\ proc' = [proc EXCEPT ![b].state = "idle", ![b].gen = @ + 1]
        /\ profilePath' = [profilePath EXCEPT ![b] = "dir"]
        /\ UNCHANGED <<failureStatus, restartRequired>>
    BY <1>10 DEF LaunchSucceeds
  <2>2. /\ thread'[b].pc = "launched" /\ proc'[b].state = "idle" /\ profilePath'[b] = "dir"
        /\ commandQueue'[b] = <<>> /\ statusQueue'[b] = <<>>
    BY <1>0, <1>g, <2>1 DEF FreshQueues, Processes
  <2>3. StageOK(b)' /\ NoProfileOK(b)'
    BY <2>2 DEF StageOK, NoProfileOK, Quiet
  <2>4. \A x \in Browsers : x # b => /\ statusQueue'[x] = statusQueue[x]
                                     /\ commandQueue'[x] = commandQueue[x]
                                     /\ profilePath'[x] = profilePath[x]
    BY <1>0, <2>1 DEF FreshQueues
  <2>. QED BY <1>f, <2>1, <2>3, <2>4
<1>11. CASE LaunchFails(b)
  <2>1. /\ thread[b].pc = "launch" /\ GoTo(b, "off") /\ FreshQueues(b)
        /\ failureStatus' \in {"ExceedLaunchFailureLimit", failureStatus}
        /\ UNCHANGED <<restartRequired, profilePath, proc>>
    BY <1>11 DEF LaunchFails
  <2>2. /\ thread'[b].pc = "off" /\ proc'[b].state = "dead" /\ statusQueue'[b] = <<>>
    BY <1>0, <1>b, <1>g, <2>1 DEF FreshQueues, StageOK
  <2>3. StageOK(b)' /\ NoProfileOK(b)'
    BY <2>2 DEF StageOK, NoProfileOK, Quiet
  <2>4. \A x \in Browsers : x # b => /\ statusQueue'[x] = statusQueue[x]
                                     /\ commandQueue'[x] = commandQueue[x]
    BY <1>0, <2>1 DEF FreshQueues
  <2>. QED BY <1>f, <2>1, <2>3, <2>4
<1>12. CASE RestartDone(b)
  <2>1. /\ thread[b].pc = "launched" /\ GoTo(b, "off")
        /\ restartRequired' = [restartRequired EXCEPT ![b] = FALSE]
        /\ UNCHANGED <<failureStatus, profilePath, proc, commandQueue, statusQueue>>
    BY <1>12 DEF RestartDone
  <2>2. thread'[b].pc = "off" /\ Quiet(b)
    BY <1>b, <1>g, <2>1 DEF StageOK
  <2>3. StageOK(b)' /\ NoProfileOK(b)'
    BY <1>b, <2>1, <2>2, AnswerMoves
  <2>. QED BY <1>0, <1>f, <2>1, <2>3
<1>13. ~DumpRaises(b)
  BY DEF DumpRaises
<1>. QED BY <1>1, <1>2, <1>3, <1>4, <1>5, <1>6, <1>7, <1>8, <1>9, <1>10, <1>11, <1>12, <1>13
         DEF ThreadNext

LEMMA OtherAnswers ==
  ASSUME Typed, ShutdownInv, AnswerInv,
         \/ StorageNext \/ CallbackNext
         \/ \E b \in Browsers : ProcessNext(b) \/ ExtensionFinalizes(b) \/ WatchdogFlags(b)
  PROVE  AnswerInv'
<1>. USE DEF manager, handles, processes, controller, history
<1>0. /\ proc \in [Browsers -> Processes]
      /\ commandQueue \in [Browsers -> Seq(Commands)]
      /\ statusQueue \in [Browsers -> Seq(Statuses)]
      /\ restartRequired \in [Browsers -> BOOLEAN]
  BY DEF Typed, HandlesTyped, ProcessesTyped
<1>1. UNCHANGED <<main, closing, failureStatus, thread, profilePath>>
  BY DEF StorageNext, CallbackNext, ProcessNext, StorageReports, FeederReturns, StorageStops, CallbackThreadEnds,
         InvokeCallbacks, TakeCommand, FinishCommand, ExtensionFinalizes, WatchdogFlags
<1>2. ASSUME UNCHANGED <<proc, commandQueue, statusQueue>>,
             \A x \in Browsers : restartRequired[x] => restartRequired'[x]
      PROVE  AnswerInv'
  <2>1. \A x \in Browsers : StageOK(x)' /\ NoProfileOK(x)'
    BY <1>1, <1>2, AnswerFrames DEF AnswerInv
  <2>2. ConstructOK'
    BY <1>1, <1>2 DEF AnswerInv, ConstructOK
  <2>. QED BY <2>1, <2>2 DEF AnswerInv
<1>3. CASE StorageNext \/ CallbackNext \/ \E b \in Browsers : ExtensionFinalizes(b)
  BY <1>2, <1>3 DEF StorageNext, CallbackNext, StorageReports, FeederReturns, StorageStops, CallbackThreadEnds,
                    InvokeCallbacks, ExtensionFinalizes
<1>4. ASSUME NEW b \in Browsers, WatchdogFlags(b) PROVE AnswerInv'
  <2>1. /\ restartRequired' = [restartRequired EXCEPT ![b] = TRUE]
        /\ UNCHANGED <<proc, commandQueue, statusQueue>>
    BY <1>4 DEF WatchdogFlags
  <2>2. \A x \in Browsers : restartRequired[x] => restartRequired'[x]
    BY <1>0, <2>1
  <2>. QED BY <1>2, <2>1, <2>2
<1>f. ASSUME NEW b \in Browsers, StageOK(b)', NoProfileOK(b)', main.pc # "construct",
             \A x \in Browsers : x # b => /\ proc'[x] = proc[x]
                                          /\ restartRequired'[x] = restartRequired[x]
                                          /\ commandQueue'[x] = commandQueue[x]
                                          /\ statusQueue'[x] = statusQueue[x]
      PROVE  AnswerInv'
  <2>1. ASSUME NEW x \in Browsers, x # b PROVE StageOK(x)' /\ NoProfileOK(x)'
    BY <1>1, <1>f, <2>1, AnswerFrames DEF AnswerInv
  <2>2. ConstructOK'
    BY <1>1, <1>f DEF ConstructOK
  <2>. QED BY <1>f, <2>1, <2>2 DEF AnswerInv
<1>5. ASSUME NEW b \in Browsers, TakeCommand(b) PROVE AnswerInv'
  <2>. DEFINE command == Head(commandQueue[b])
  <2>1. /\ proc[b].state = "idle" /\ commandQueue[b] # <<>>
        /\ proc' = [proc EXCEPT ![b].state = "busy", ![b].command = command]
        /\ commandQueue' = [commandQueue EXCEPT ![b] = Tail(@)]
        /\ UNCHANGED <<restartRequired, statusQueue>>
    BY <1>5 DEF TakeCommand
  <2>2. command \in Commands
    BY <1>0, <2>1
  <2>3. main.pc # "construct" /\ ~Quiet(b)
    BY <2>1 DEF AnswerInv, ConstructOK, Quiet
  <2>4. InFlight(b) /\ thread[b].pc = "wait" =>
          commandQueue[b] = <<Current(b)>> /\ statusQueue[b] = <<>>
    BY <2>1 DEF InFlight
  <2>5. commandQueue[b] = <<Current(b)>> => command = Current(b) /\ Tail(commandQueue[b]) = <<>>
    OBVIOUS
  <2>. HIDE DEF command
  <2>6. /\ proc'[b].state = "busy" /\ proc'[b].command = command
        /\ \A x \in Browsers : x # b => proc'[x] = proc[x]
    BY <2>1, <2>2, ProcessMoves DEF AnyCommand, Typed
  <2>7. /\ commandQueue'[b] = Tail(commandQueue[b])
        /\ \A x \in Browsers : x # b => commandQueue'[x] = commandQueue[x]
    BY <1>0, <2>1
  <2>8. thread[b].pc = "wait" => InFlight(b)'
    <3>1. ASSUME thread[b].pc = "wait" PROVE InFlight(b)
      BY <3>1 DEF AnswerInv, StageOK
    <3>. QED BY <1>1, <2>1, <2>4, <2>5, <2>6, <2>7, <3>1 DEF InFlight, Current
  <2>9. StageOK(b)' /\ NoProfileOK(b)'
    BY <1>1, <2>1, <2>3, <2>8 DEF AnswerInv, StageOK, NoProfileOK
  <2>. QED BY <1>f, <2>1, <2>3, <2>6, <2>7, <2>9
<1>6. ASSUME NEW b \in Browsers, NEW outcome \in Outcomes, FinishCommand(b, outcome)
      PROVE  AnswerInv'
  <2>. DEFINE state == IF outcome \in {"ok", "failed"} THEN "idle" ELSE "dead"
              status == [kind |-> StatusOf(outcome), command |-> proc[b].command]
  <2>1. /\ proc[b].state = "busy"
        /\ proc' = [proc EXCEPT ![b].state = state, ![b].command = NoCommand]
        /\ statusQueue' = [statusQueue EXCEPT ![b] = Append(@, status)]
        /\ UNCHANGED <<restartRequired, commandQueue>>
    BY <1>6 DEF FinishCommand
  <2>2. state \in {"dead", "idle"} /\ status.command = proc[b].command
    OBVIOUS
  <2>. HIDE DEF state, status
  <2>3. main.pc # "construct" /\ ~Quiet(b) /\ profilePath[b] # "none" /\ thread[b].pc # "launch"
    BY <2>1 DEF AnswerInv, ConstructOK, Quiet, NoProfileOK, StageOK
  <2>4. /\ proc'[b].state = state
        /\ \A x \in Browsers : x # b => proc'[x] = proc[x]
    BY <2>1, <2>2, ProcessMoves DEF AnyCommand, Typed
  <2>5. /\ statusQueue'[b] = Append(statusQueue[b], status)
        /\ \A x \in Browsers : x # b => statusQueue'[x] = statusQueue[x]
    BY <1>0, <2>1
  <2>6. thread[b].pc = "wait" => InFlight(b)'
    <3>1. ASSUME thread[b].pc = "wait"
          PROVE  proc[b].command = Current(b) /\ commandQueue[b] = <<>> /\ statusQueue[b] = <<>>
      BY <2>1, <3>1 DEF AnswerInv, StageOK, InFlight
    <3>2. statusQueue[b] = <<>> => Append(statusQueue[b], status) = <<status>>
      OBVIOUS
    <3>. QED BY <1>1, <2>1, <2>2, <2>4, <2>5, <3>1, <3>2 DEF InFlight, Current
  <2>7. StageOK(b)' /\ NoProfileOK(b)'
    BY <1>1, <2>1, <2>3, <2>6 DEF AnswerInv, StageOK, NoProfileOK
  <2>. QED BY <1>f, <2>1, <2>3, <2>4, <2>5, <2>7
<1>. QED BY <1>3, <1>4, <1>5, <1>6 DEF ProcessNext

LEMMA MainAnswers ==
  ASSUME Typed, ShutdownInv, AnswerInv, UserNext \/ MainNext
  PROVE  AnswerInv'
<1>. USE DEF manager, handles, processes, controller, history
<1>0. /\ main \in Mains /\ thread \in [Browsers -> Threads]
      /\ proc \in [Browsers -> Processes]
      /\ profilePath \in [Browsers -> {"none", "dir"}]
  BY DEF Typed, ManagerTyped, HandlesTyped, ProcessesTyped
<1>1. UNCHANGED <<failureStatus, restartRequired, commandQueue, statusQueue>>
  BY DEF UserNext, MainNext, ExecuteCommandSequence, Close, Construct, ConstructionFails,
         StartThread, JoinBlocking, ShutdownBrowser, ShutdownStorage, JoinStorage,
         JoinCallbackThread
<1>2. ASSUME UNCHANGED <<thread, profilePath>>, closing => closing', main'.pc # "construct",
             \A x \in Browsers : proc'[x] = proc[x] \/ proc'[x].state = "dead"
      PROVE  AnswerInv'
  <2>1. \A x \in Browsers : StageOK(x)' /\ NoProfileOK(x)'
    BY <1>1, <1>2, AnswerFrames DEF AnswerInv
  <2>2. ConstructOK'
    BY <1>2 DEF ConstructOK
  <2>. QED BY <2>1, <2>2 DEF AnswerInv
<1>m. ASSUME NEW pc, pc # "construct", main' = [main EXCEPT !.pc = pc] PROVE main'.pc # "construct"
  BY <1>0, <1>m DEF Mains
<1>b. ASSUME NEW relaxed, BeginShutdown(relaxed) PROVE main'.pc # "construct" /\ closing'
  BY <1>0, <1>b DEF BeginShutdown, Mains
<1>3. CASE \/ \E cs \in CommandSequences : ExecuteCommandSequence(cs)
           \/ \E relaxed \in BOOLEAN : Close(relaxed)
           \/ \E b \in Browsers : ConstructionFails(b)
           \/ JoinBlocking \/ ShutdownStorage \/ JoinStorage \/ JoinCallbackThread
  <2>1. UNCHANGED <<thread, profilePath, proc>>
    BY <1>3 DEF ExecuteCommandSequence, Close, ConstructionFails, JoinBlocking, ShutdownStorage,
                JoinStorage, JoinCallbackThread
  <2>2. ASSUME NEW cs \in CommandSequences, ExecuteCommandSequence(cs)
        PROVE  main'.pc # "construct" /\ closing' = closing
    BY <1>0, <2>2 DEF ExecuteCommandSequence, Mains
  <2>3. ASSUME NEW relaxed \in BOOLEAN, Close(relaxed) PROVE main'.pc # "construct" /\ closing'
    BY <1>b, <2>3 DEF Close
  <2>4. ASSUME NEW b \in Browsers, ConstructionFails(b)
        PROVE  main'.pc # "construct" /\ closing'
    <3>1. PICK how \in {"gaveUp", "raised"} :
            main' = [main EXCEPT !.pc = "shutdown", !.browser = 1, !.init = how]
      BY <2>4 DEF ConstructionFails
    <3>. QED BY <1>0, <2>4, <3>1 DEF ConstructionFails, Mains
  <2>5. CASE JoinBlocking
    <3>1. BeginShutdown(TRUE) \/ (main' = [main EXCEPT !.pc = "user"] /\ closing' = closing)
      BY <2>5 DEF JoinBlocking
    <3>. QED BY <1>2, <1>b, <1>m, <2>1, <3>1
  <2>6. CASE ShutdownStorage \/ JoinCallbackThread
    BY <1>2, <1>m, <2>1, <2>6 DEF ShutdownStorage, JoinCallbackThread
  <2>7. CASE JoinStorage
    <3>. DEFINE pc == IF main.init = "done" THEN "joinCallbacks" ELSE "raised"
    <3>1. main' = [main EXCEPT !.pc = pc] /\ closing' = closing /\ pc # "construct"
      BY <2>7 DEF JoinStorage
    <3>. HIDE DEF pc
    <3>. QED BY <1>2, <1>m, <2>1, <3>1
  <2>. QED BY <1>2, <1>3, <2>1, <2>2, <2>3, <2>4, <2>5, <2>6, <2>7
<1>4. CASE ShutdownBrowser
  <2>1. /\ main.browser \in Browsers /\ CloseBrowserManager(main.browser)
        /\ UNCHANGED <<closing, thread, profilePath>>
    BY <1>4 DEF ShutdownBrowser
  <2>2. main'.pc # "construct"
    BY <1>0, <1>4 DEF ShutdownBrowser, Mains
  <2>3. \A x \in Browsers : proc'[x] = proc[x] \/ proc'[x].state = "dead"
    BY <1>0, <2>1, ProcessMoves DEF CloseBrowserManager, AnyCommand, Typed
  <2>. QED BY <1>2, <2>1, <2>2, <2>3
<1>5. ASSUME NEW b \in Browsers, Construct(b) PROVE AnswerInv'
  <2>1. /\ main.pc = "construct"
        /\ proc' = [proc EXCEPT ![b].state = "idle", ![b].gen = 1]
        /\ profilePath' = [profilePath EXCEPT ![b] = "dir"]
        /\ UNCHANGED <<closing, thread>>
    BY <1>5 DEF Construct, Launching
  <2>2. \A x \in Browsers : /\ thread[x].pc = "off" /\ proc[x].state # "busy"
                            /\ commandQueue[x] = <<>> /\ statusQueue[x] = <<>>
    BY <2>1 DEF AnswerInv, ConstructOK
  <2>3. /\ proc'[b].state = "idle" /\ profilePath'[b] = "dir"
        /\ \A x \in Browsers : x # b => proc'[x] = proc[x] /\ profilePath'[x] = profilePath[x]
    BY <1>0, <2>1 DEF Processes
  <2>4. ConstructOK'
    BY <1>1, <2>1, <2>2, <2>3 DEF ConstructOK
  <2>5. StageOK(b)' /\ NoProfileOK(b)'
    BY <1>1, <2>1, <2>2, <2>3 DEF StageOK, NoProfileOK, Quiet
  <2>6. ASSUME NEW x \in Browsers, x # b PROVE StageOK(x)' /\ NoProfileOK(x)'
    BY <1>1, <2>1, <2>3, <2>6, AnswerFrames DEF AnswerInv
  <2>. QED BY <2>4, <2>5, <2>6 DEF AnswerInv
<1>6. ASSUME NEW b \in Browsers, StartThread(b) PROVE AnswerInv'
  <2>. DEFINE new == [NoThread EXCEPT !.pc = "start", !.cs = main.cs]
  <2>1. /\ main.pc = "pick" /\ thread[b].pc = "off"
        /\ \/ UNCHANGED thread
           \/ ~closing /\ failureStatus = "none" /\ thread' = [thread EXCEPT ![b] = new]
        /\ closing => closing'
        /\ UNCHANGED <<proc, profilePath>>
    BY <1>6 DEF StartThread, Available, Ready, BeginShutdown
  <2>2. main'.pc # "construct"
    BY <1>0, <1>6 DEF StartThread, Available, BeginShutdown, Mains
  <2>3. new.pc = "start"
    BY DEF NoThread
  <2>. HIDE DEF new
  <2>4. CASE UNCHANGED thread
    BY <1>2, <2>1, <2>2, <2>4
  <2>5. CASE ~closing /\ failureStatus = "none" /\ thread' = [thread EXCEPT ![b] = new]
    <3>1. thread'[b].pc = "start" /\ \A x \in Browsers : x # b => thread'[x] = thread[x]
      BY <1>0, <2>3, <2>5
    <3>2. Quiet(b)
      BY <2>1, <2>5 DEF AnswerInv, StageOK
    <3>3. StageOK(b)' /\ NoProfileOK(b)'
      BY <1>1, <2>1, <3>1, <3>2, AnswerMoves DEF AnswerInv
    <3>4. ASSUME NEW x \in Browsers, x # b PROVE StageOK(x)' /\ NoProfileOK(x)'
      BY <1>1, <2>1, <3>1, <3>4, AnswerFrames DEF AnswerInv
    <3>5. ConstructOK'
      BY <2>2 DEF ConstructOK
    <3>. QED BY <3>3, <3>4, <3>5 DEF AnswerInv
  <2>. QED BY <2>1, <2>4, <2>5
<1>. QED BY <1>3, <1>4, <1>5, <1>6 DEF UserNext, MainNext

LEMMA StutterAnswers == AnswerInv /\ UNCHANGED vars => AnswerInv'
  BY DEF AnswerInv, ConstructOK, StageOK, NoProfileOK, Quiet, InFlight, Current, vars, manager,
         handles, processes

(* A command thread never takes the late answer of another command for its *)
(* own: a browser that did not answer is restarted with new queues.        *)
THEOREM AnswersAreOwn ==
  ASSUME ~DumpsFail
  PROVE  Spec => []AnswersBelongToCommands
<1>1. Init => AnswerInv
  BY InitAnswers
<1>2. Typed /\ ShutdownInv /\ AnswerInv /\ [Next]_vars => AnswerInv'
  BY MainAnswers, ThreadAnswers, OtherAnswers, StutterAnswers DEF Next
<1>3. AnswerInv => AnswersBelongToCommands
  BY DEF AnswerInv, StageOK, InFlight, AnswersBelongToCommands, AtThread, Current
<1>. QED BY <1>1, <1>2, <1>3, StateIsWellFormed, ShutdownIsOrderly, PTL DEF Spec

-----------------------------------------------------------------------------
(* The manager process implements the life cycle of visits that its crawl  *)
(* script relies on: TaskManager refines VisitLifecycle, for any browsers, *)
(* command sequences and settings.                                         *)


(* Whatever a browser does about a visit comes after its start, and a      *)
(* thread that has yet to start its visit is the only one to do so.        *)
BegunOK(b) ==
    /\ thread[b].pc \in Working \ {"start"} => thread[b].cs \in touched
    /\ thread[b].pc = "start" => thread[b].cs \notin touched
    /\ \A n \in DOMAIN commandQueue[b] : commandQueue[b][n].cs \in touched
    /\ proc[b].state = "busy" => proc[b].command.cs \in touched
    /\ \A n \in DOMAIN inbox[b] : inbox[b][n] \in touched
FreshOK ==
    /\ touched \subseteq Range(issued)
    /\ main.pc = "pick" => main.cs \notin touched

(* Every completion was promised, and a callback is invoked with the       *)
(* outcome of a promise, after which it is not owed any more.              *)
PromisesOK == \A n \in DOMAIN finals : finals[n].visit \in touched
CompletionsOK == \A n \in DOMAIN completions : \E m \in DOMAIN finals : completions[n] = finals[m]
CalledOnce(v) ==
    called[v] # <<>> =>
      /\ DOMAIN called[v] = {1} /\ v \in touched /\ v \notin unsaved
      /\ \E m \in DOMAIN finals : finals[m].visit = v /\ finals[m].success = called[v][1]
LifecycleInv ==
    /\ \A b \in Browsers : BegunOK(b)
    /\ FreshOK /\ PromisesOK /\ CompletionsOK
    /\ \A v \in CommandSequences : CalledOnce(v)

(* What a step does to the promises and the callbacks of visits.           *)
Extends(f, g) == \A n \in DOMAIN f : n \in DOMAIN g /\ g[n] = f[n]
StartsVisit ==
    /\ \E v \in CommandSequences : v \notin touched /\ touched' = touched \cup {v}
    /\ UNCHANGED <<finals, called>>
PromisesVisits == UNCHANGED <<touched, called>> /\ Extends(finals, finals')
CallsBack ==
    /\ UNCHANGED <<touched, finals>>
    /\ \A v \in CommandSequences : Extends(called[v], called'[v])
VisitStep == StartsVisit \/ PromisesVisits \/ CallsBack

LEMMA InitLifecycle == Init => LifecycleInv
  BY DEF Init, InitialHandles, StorageLaunched, LifecycleInv, BegunOK, FreshOK, PromisesOK,
         CompletionsOK, CalledOnce, NoThread, Working

(* Promises and starts are never taken back.                               *)
LEMMA LifecycleFrames ==
  ASSUME touched \subseteq touched', Extends(finals, finals')
  PROVE  /\ \A b \in Browsers :
              BegunOK(b) /\ touched' = touched /\ thread'[b] = thread[b]
              /\ commandQueue'[b] = commandQueue[b]
              /\ (proc'[b] = proc[b] \/ proc'[b].state # "busy")
              /\ (inbox'[b] = inbox[b] \/ inbox'[b] = <<>>)
              => BegunOK(b)'
         /\ FreshOK /\ UNCHANGED <<touched, issued>>
              /\ (main'.pc = "pick" => main.pc = "pick" /\ main'.cs = main.cs) => FreshOK'
         /\ PromisesOK /\ finals' = finals => PromisesOK'
         /\ CompletionsOK /\ completions' = completions => CompletionsOK'
         /\ \A v \in CommandSequences :
              CalledOnce(v) /\ called'[v] = called[v] /\ (v \in unsaved' => v \in unsaved \/ v \notin touched)
              => CalledOnce(v)'
<1>1. ASSUME NEW b \in Browsers, BegunOK(b), touched' = touched, thread'[b] = thread[b],
             commandQueue'[b] = commandQueue[b],
             proc'[b] = proc[b] \/ proc'[b].state # "busy",
             inbox'[b] = inbox[b] \/ inbox'[b] = <<>>
      PROVE  BegunOK(b)'
  <2>1. \A n \in DOMAIN inbox'[b] : inbox'[b][n] \in touched'
    BY <1>1 DEF BegunOK
  <2>2. proc'[b].state = "busy" => proc'[b].command.cs \in touched'
    BY <1>1 DEF BegunOK
  <2>. QED BY <1>1, <2>1, <2>2 DEF BegunOK
<1>2. FreshOK /\ UNCHANGED <<touched, issued>>
        /\ (main'.pc = "pick" => main.pc = "pick" /\ main'.cs = main.cs) => FreshOK'
  BY DEF FreshOK
<1>3. PromisesOK /\ finals' = finals => PromisesOK'
  BY DEF PromisesOK
<1>4. CompletionsOK /\ completions' = completions => CompletionsOK'
  BY DEF CompletionsOK, Extends
<1>5. ASSUME NEW v \in CommandSequences, CalledOnce(v), called'[v] = called[v],
             v \in unsaved' => v \in unsaved \/ v \notin touched
      PROVE  CalledOnce(v)'
  BY <1>5 DEF CalledOnce, Extends
<1>. QED BY <1>1, <1>2, <1>3, <1>4, <1>5

LEMMA FinalSent ==
  ASSUME Typed, PromisesOK, touched' = touched,
         NEW v \in touched, NEW success \in BOOLEAN, SendFinalize(v, success)
  PROVE  Extends(finals, finals') /\ PromisesOK'
<1>. DEFINE f == Final(v, success)
<1>1. finals' = Append(finals, f) /\ finals \in Seq(Finals)
  BY DEF SendFinalize, Typed, ControllerTyped
<1>2. f.visit = v
  BY DEF Final
<1>. HIDE DEF f
<1>3. Extends(finals, finals')
  BY <1>1 DEF Extends
<1>4. \A n \in DOMAIN finals' : finals'[n] = f \/ (n \in DOMAIN finals /\ finals'[n] = finals[n])
  BY <1>1
<1>. QED BY <1>2, <1>3, <1>4 DEF PromisesOK

LEMMA AppendRange ==
  ASSUME NEW S, NEW q \in Seq(S), NEW x \in S
  PROVE  Range(Append(q, x)) = Range(q) \cup {x}
<1>1. DOMAIN Append(q, x) = DOMAIN q \cup {Len(q) + 1} /\ Append(q, x)[Len(q) + 1] = x
  OBVIOUS
<1>2. \A n \in DOMAIN q : Append(q, x)[n] = q[n]
  OBVIOUS
<1>. QED BY <1>1, <1>2, Zenon DEF Range

LEMMA SameExtends == \A f, g : g = f => Extends(f, g)
  BY DEF Extends

(* The steps of a command thread.                                          *)
LEMMA ThreadBegins ==
  ASSUME Typed, VisitsInv, LifecycleInv, NEW b \in Browsers, StartSequence(b)
  PROVE  LifecycleInv' /\ VisitStep
<1>. USE DEF AtThread, manager, handles, processes, controller, history
<1>0. /\ thread \in [Browsers -> Threads]
      /\ \A x \in Browsers : thread[x].pc \in Working => thread[x].cs \in CommandSequences
  BY DEF Typed, HandlesTyped
<1>1. \A x \in Browsers : x # b => thread'[x] = thread[x]
  BY ThreadSteps DEF ThreadNext
<1>2. UNCHANGED <<main, issued, finals, completions, called, unsaved, commandQueue, proc, inbox>>
  BY DEF StartSequence, SocketError
<1>3. CASE SocketError(b, "start")
  <2>1. thread'[b].pc = "off" /\ touched' = touched
    BY <1>3, GoToKeeps DEF SocketError
  <2>2. \A x \in Browsers : BegunOK(x)'
    BY <1>1, <1>2, <2>1, LifecycleFrames, SameExtends DEF LifecycleInv, BegunOK, Working
  <2>3. LifecycleInv'
    BY <1>2, <2>1, <2>2, LifecycleFrames, SameExtends DEF LifecycleInv
  <2>. QED BY <1>2, <2>1, <2>3, SameExtends DEF VisitStep, PromisesVisits
<1>4. CASE ~SocketError(b, "start")
  <2>. DEFINE v == thread[b].cs
  <2>1. thread[b].pc = "start" /\ GoTo(b, "send") /\ touched' = touched \cup {v}
    BY <1>4 DEF StartSequence
  <2>2. v \in CommandSequences /\ v \notin touched /\ Holds(b, v)
    BY <1>0, <2>1 DEF LifecycleInv, BegunOK, Holds, Working
  <2>3. thread'[b].pc = "send" /\ thread'[b].cs = v
    BY <2>1, GoToKeeps
  <2>. HIDE DEF v
  <2>4. /\ v \in Range(issued)
        /\ \A x \in Browsers : Holds(x, v) => x = b
        /\ main.pc = "pick" => main.cs # v
    BY <2>2 DEF VisitsInv, HoldsOK, UnusedOK, Unused
  <2>5. Extends(finals, finals')
    BY <1>2, SameExtends
  <2>6. ASSUME NEW x \in Browsers PROVE BegunOK(x)'
    <3>1. thread'[x].pc \in Working \ {"start"} => thread'[x].cs \in touched'
      BY <1>1, <2>1, <2>3, <2>6 DEF LifecycleInv, BegunOK
    <3>2. thread'[x].pc = "start" => thread'[x].cs \notin touched'
      <4>1. CASE x = b
        BY <2>3, <4>1
      <4>2. CASE x # b
        <5>1. thread[x].pc = "start" => thread[x].cs # v
          BY <2>4, <4>2 DEF Holds, Working
        <5>. QED BY <1>1, <2>1, <4>2, <5>1 DEF LifecycleInv, BegunOK
      <4>. QED BY <4>1, <4>2
    <3>. QED BY <1>2, <2>1, <3>1, <3>2 DEF LifecycleInv, BegunOK
  <2>7. FreshOK'
    BY <1>2, <2>1, <2>4 DEF LifecycleInv, FreshOK
  <2>8. PromisesOK' /\ CompletionsOK' /\ \A w \in CommandSequences : CalledOnce(w)'
    BY <1>2, <2>1, <2>5, LifecycleFrames DEF LifecycleInv
  <2>. QED BY <1>2, <2>1, <2>2, <2>6, <2>7, <2>8 DEF LifecycleInv, VisitStep, StartsVisit
<1>. QED BY <1>3, <1>4

LEMMA ThreadLifecycle ==
  ASSUME Typed, VisitsInv, LifecycleInv, NEW b \in Browsers, ThreadNext(b)
  PROVE  LifecycleInv' /\ VisitStep
<1>. USE DEF AtThread, manager, handles, processes, controller, history
<1>0. /\ thread \in [Browsers -> Threads] /\ proc \in [Browsers -> Processes]
      /\ commandQueue \in [Browsers -> Seq(Commands)]
      /\ inbox \in [Browsers -> Seq(CommandSequences)]
  BY DEF Typed, HandlesTyped, ProcessesTyped
<1>1. /\ \A x \in Browsers : x # b => thread'[x] = thread[x] /\ proc'[x] = proc[x]
      /\ UNCHANGED <<main, issued, unsaved>>
      /\ thread'[b].pc \in Working => thread[b].pc \in Working /\ thread'[b].cs = thread[b].cs
      /\ \/ commandQueue' = commandQueue
         \/ /\ thread[b].pc = "send"
            /\ commandQueue' = [commandQueue EXCEPT ![b] =
                                     Append(@, [cs |-> thread[b].cs, i |-> thread[b].i])]
         \/ commandQueue' = [commandQueue EXCEPT ![b] = <<>>]
  BY ThreadSteps, ThreadHolds
(* Nothing but promises, from threads that have begun their visit.         *)
<1>f. ASSUME thread[b].pc # "start", thread'[b].pc # "start",
             UNCHANGED <<touched, completions, called>>,
             proc'[b] = proc[b] \/ proc'[b].state # "busy",
             inbox'[b] = inbox[b] \/ inbox'[b] = <<>>,
             \A x \in Browsers : x # b => inbox'[x] = inbox[x],
             Extends(finals, finals'), PromisesOK'
      PROVE  LifecycleInv' /\ VisitStep
  <2>1. ASSUME NEW x \in Browsers, x # b PROVE BegunOK(x)'
    <3>1. commandQueue'[x] = commandQueue[x]
      BY <1>0, <1>1, <2>1
    <3>. QED BY <1>1, <1>f, <2>1, <3>1, LifecycleFrames DEF LifecycleInv
  <2>2. \A n \in DOMAIN commandQueue'[b] : commandQueue'[b][n].cs \in touched
    <3>1. CASE commandQueue' = commandQueue
      BY <3>1 DEF LifecycleInv, BegunOK
    <3>2. CASE commandQueue' = [commandQueue EXCEPT ![b] = <<>>]
      BY <1>0, <3>2
    <3>3. CASE /\ thread[b].pc = "send"
               /\ commandQueue' = [commandQueue EXCEPT ![b] =
                                     Append(@, [cs |-> thread[b].cs, i |-> thread[b].i])]
      <4>. DEFINE command == [cs |-> thread[b].cs, i |-> thread[b].i]
      <4>1. command.cs \in touched
        BY <3>3 DEF LifecycleInv, BegunOK, Working
      <4>2. commandQueue'[b] = Append(commandQueue[b], command)
        BY <1>0, <3>3
      <4>. HIDE DEF command
      <4>3. \A n \in DOMAIN commandQueue'[b] :
              \/ n \in DOMAIN commandQueue[b] /\ commandQueue'[b][n] = commandQueue[b][n]
              \/ commandQueue'[b][n] = command
        BY <1>0, <4>2, AppendProperty
      <4>. QED BY <4>1, <4>3 DEF LifecycleInv, BegunOK
    <3>. QED BY <1>1, <3>1, <3>2, <3>3
  <2>3. thread'[b].pc \in Working \ {"start"} => thread'[b].cs \in touched
    BY <1>1, <1>f DEF LifecycleInv, BegunOK
  <2>4. \A n \in DOMAIN inbox'[b] : inbox'[b][n] \in touched
    BY <1>f DEF LifecycleInv, BegunOK
  <2>5. proc'[b].state = "busy" => proc'[b].command.cs \in touched
    BY <1>f DEF LifecycleInv, BegunOK
  <2>6. BegunOK(b)'
    BY <1>f, <2>2, <2>3, <2>4, <2>5 DEF BegunOK
  <2>7. FreshOK' /\ CompletionsOK' /\ \A v \in CommandSequences : CalledOnce(v)'
    BY <1>1, <1>f, LifecycleFrames DEF LifecycleInv
  <2>. QED BY <1>f, <2>1, <2>6, <2>7 DEF LifecycleInv, VisitStep, PromisesVisits
<1>g. ASSUME thread[b].pc # "start", thread'[b].pc # "start",
             UNCHANGED <<touched, completions, called, proc, inbox, finals>>
      PROVE  LifecycleInv' /\ VisitStep
  BY <1>f, <1>g, SameExtends, LifecycleFrames DEF LifecycleInv
<1>p. ASSUME NEW pc, GoTo(b, pc) PROVE thread'[b].pc = pc
  BY <1>p, GoToKeeps
<1>s. ASSUME thread[b].pc \in Working \ {"start"}, thread'[b].pc # "start",
             finals' = finals \/ SendFinalize(thread[b].cs, FALSE),
             UNCHANGED <<touched, completions, called, proc, inbox>>
      PROVE  LifecycleInv' /\ VisitStep
  <2>1. thread[b].cs \in touched
    BY <1>s DEF LifecycleInv, BegunOK
  <2>2. Extends(finals, finals') /\ PromisesOK'
    <3>1. CASE finals' = finals
      BY <1>s, <3>1, SameExtends, LifecycleFrames DEF LifecycleInv
    <3>2. CASE SendFinalize(thread[b].cs, FALSE)
      BY <1>s, <2>1, <3>2, FinalSent DEF LifecycleInv
    <3>. QED BY <1>s, <3>1, <3>2
  <2>. QED BY <1>f, <1>s, <2>2
<1>2. CASE StartSequence(b)
  BY <1>2, ThreadBegins
<1>3. CASE SendCommand(b) \/ LaunchFails(b) \/ DumpRaises(b) \/ RestartDone(b)
  <2>1. /\ thread[b].pc # "start"
        /\ GoTo(b, "wait") \/ GoTo(b, "off")
        /\ UNCHANGED <<touched, completions, called, proc, inbox, finals>>
    BY <1>3 DEF SendCommand, LaunchFails, DumpRaises, RestartDone
  <2>. QED BY <1>g, <1>p, <2>1
<1>4. CASE ReceiveStatus(b)
  <2>. DEFINE answer == Head(statusQueue[b]).kind
  <2>1. /\ thread[b].pc = "wait"
        /\ thread' = [thread EXCEPT ![b].pc = "record", ![b].answer = answer]
        /\ UNCHANGED <<touched, completions, called, proc, inbox, finals>>
    BY <1>4 DEF ReceiveStatus
  <2>. HIDE DEF answer
  <2>2. thread' = [thread EXCEPT ![b] = [thread[b] EXCEPT !.pc = "record", !.answer = answer]]
    BY <1>0, <2>1, TwoAnswers
  <2>3. thread'[b].pc = "record"
    BY <1>0, <2>2 DEF Threads
  <2>. QED BY <1>g, <2>1, <2>3
<1>5. CASE CommandTimeout(b)
  <2>1. /\ thread[b].pc = "wait"
        /\ thread' = [thread EXCEPT ![b].pc = "record", ![b].answer = "timeout"]
        /\ UNCHANGED <<touched, completions, called, proc, inbox, finals>>
    BY <1>5 DEF CommandTimeout
  <2>2. thread' = [thread EXCEPT ![b] = [thread[b] EXCEPT !.pc = "record", !.answer = "timeout"]]
    BY <1>0, <2>1, TwoAnswers
  <2>3. thread'[b].pc = "record"
    BY <1>0, <2>2 DEF Threads
  <2>. QED BY <1>g, <2>1, <2>3
<1>6. CASE RecordOutcome(b)
  <2>1. /\ thread[b].pc = "record"
        /\ GoTo(b, "off") \/ GoTo(b, "compare") \/ GoTo(b, "decide")
        /\ finals' = finals \/ SendFinalize(thread[b].cs, FALSE)
        /\ UNCHANGED <<touched, completions, called, proc, inbox>>
    BY <1>6 DEF RecordOutcome, SocketError
  <2>2. thread'[b].pc # "start"
    BY <1>p, <2>1
  <2>. QED BY <1>s, <2>1, <2>2 DEF Working
<1>7. CASE CompareFailures(b)
  <2>1. /\ thread[b].pc = "compare"
        /\ GoTo(b, "off") \/ GoTo(b, "decide")
        /\ UNCHANGED <<touched, completions, called, proc, inbox, finals>>
    BY <1>7 DEF CompareFailures
  <2>. QED BY <1>g, <1>p, <2>1
<1>8. CASE NextCommand(b)
  <2>1. /\ thread[b].pc = "decide"
        /\ \/ GoTo(b, "off") \/ GoTo(b, "sleep")
           \/ thread' = [thread EXCEPT ![b].pc = "send", ![b].i = @ + 1]
        /\ finals' = finals \/ SendFinalize(thread[b].cs, FALSE)
        /\ UNCHANGED <<touched, completions, called, proc, inbox>>
    BY <1>8 DEF NextCommand, SocketError
  <2>2. thread'[b].pc # "start"
    BY <1>0, <1>p, <2>1 DEF Threads
  <2>. QED BY <1>s, <2>1, <2>2 DEF Working
<1>9. CASE AfterSequence(b)
  <2>1. /\ thread[b].pc = "sleep"
        /\ UNCHANGED <<touched, completions, called, proc, inbox, finals>>
    BY <1>9 DEF AfterSequence
  <2>2. \/ GoTo(b, "off")
        \/ \E reset \in ResetWanted(b) : \E pc \in {"close", "off"} :
             thread' = [thread EXCEPT ![b].pc = pc, ![b].reset = reset]
    BY <1>9 DEF AfterSequence
  <2>3. thread'[b].pc # "start"
    <3>1. CASE GoTo(b, "off")
      BY <1>p, <3>1
    <3>2. ASSUME NEW reset, NEW pc \in {"close", "off"},
                 thread' = [thread EXCEPT ![b].pc = pc, ![b].reset = reset]
          PROVE  thread'[b].pc # "start"
      <4>1. thread' = [thread EXCEPT ![b] = [thread[b] EXCEPT !.pc = pc, !.reset = reset]]
        BY <1>0, <3>2, TwoResets
      <4>. QED BY <1>0, <4>1 DEF Threads
    <3>. QED BY <2>2, <3>1, <3>2
  <2>. QED BY <1>g, <2>1, <2>3
<1>10. CASE RestartClose(b)
  <2>1. /\ thread[b].pc = "close" /\ GoTo(b, "launch") /\ CloseBrowserManager(b)
        /\ UNCHANGED <<touched, completions, called, finals>>
    BY <1>10 DEF RestartClose
  <2>2. proc'[b].state # "busy"
    BY <1>0, <2>1, ProcessMoves DEF CloseBrowserManager, AnyCommand, Typed
  <2>3. inbox'[b] = <<>> /\ \A x \in Browsers : x # b => inbox'[x] = inbox[x]
    BY <1>0, <2>1 DEF CloseBrowserManager
  <2>4. Extends(finals, finals') /\ PromisesOK'
    BY <2>1, SameExtends, LifecycleFrames DEF LifecycleInv
  <2>. QED BY <1>f, <1>p, <2>1, <2>2, <2>3, <2>4
<1>11. CASE LaunchSucceeds(b)
  <2>1. /\ thread[b].pc = "launch" /\ GoTo(b, "launched")
        /\ proc' = [proc EXCEPT ![b].state = "idle", ![b].gen = @ + 1]
        /\ UNCHANGED <<touched, completions, called, finals, inbox>>
    BY <1>11 DEF LaunchSucceeds
  <2>2. proc'[b].state # "busy"
    BY <1>0, <2>1 DEF Processes
  <2>3. Extends(finals, finals') /\ PromisesOK'
    BY <2>1, SameExtends, LifecycleFrames DEF LifecycleInv
  <2>. QED BY <1>f, <1>p, <2>1, <2>2, <2>3
<1>. QED BY <1>2, <1>3, <1>4, <1>5, <1>6, <1>7, <1>8, <1>9, <1>10, <1>11 DEF ThreadNext

(* The steps of the browser processes, the storage controller, the         *)
(* callback thread and the watchdog.                                       *)
LEMMA CallbackLifecycle ==
  ASSUME Typed, LifecycleInv, InvokeCallbacks
  PROVE  LifecycleInv' /\ VisitStep
<1>. USE DEF manager, handles, processes, controller, history
<1>. DEFINE k(v) == CHOOSE n \in DOMAIN completions :
                  completions[n].visit = v /\ \A m \in 1 .. n - 1 : completions[m].visit # v
            visits == {completions[n].visit : n \in DOMAIN completions}
<1>0. completions \in Seq(Finals) /\ called \in [CommandSequences -> Seq(BOOLEAN)]
  BY DEF Typed, ControllerTyped, HistoryTyped
<1>1. /\ completions' = <<>>
      /\ unsaved' = unsaved \ (visits \cap unsaved)
      /\ UNCHANGED <<main, issued, touched, thread, commandQueue, proc, inbox, finals>>
      /\ called' = [v \in CommandSequences |->
              IF v \in visits \cap unsaved THEN Append(called[v], completions[k(v)].success)
                                           ELSE called[v]]
  BY DEF InvokeCallbacks, MarkDone
<1>2. \A v \in visits : k(v) \in DOMAIN completions /\ completions[k(v)].visit = v
  BY <1>0, FirstOfBatch
<1>. HIDE DEF k, visits
<1>3. Extends(finals, finals')
  BY <1>1, SameExtends
<1>4. ASSUME NEW v \in CommandSequences PROVE CalledOnce(v)' /\ Extends(called[v], called'[v])
  <2>1. CASE v \in visits \cap unsaved
    <3>. DEFINE success == completions[k(v)].success
    <3>1. PICK m \in DOMAIN finals : completions[k(v)] = finals[m]
      BY <1>2, <2>1 DEF LifecycleInv, CompletionsOK
    <3>2. finals[m].visit = v /\ finals[m].success = success /\ v \in touched
      BY <1>2, <2>1, <3>1 DEF LifecycleInv, PromisesOK
    <3>3. called[v] = <<>> /\ called'[v] = Append(called[v], success)
      BY <1>1, <2>1 DEF LifecycleInv, CalledOnce
    <3>. HIDE DEF success
    <3>4. called'[v] = <<success>>
      BY <3>3
    <3>5. DOMAIN called'[v] = {1} /\ called'[v][1] = success
      BY <3>4
    <3>6. v \notin unsaved'
      BY <1>1, <2>1
    <3>7. Extends(called[v], called'[v])
      BY <3>3 DEF Extends
    <3>8. CalledOnce(v)'
      BY <1>1, <3>2, <3>5, <3>6 DEF CalledOnce
    <3>. QED BY <3>7, <3>8
  <2>2. CASE v \notin visits \cap unsaved
    <3>1. called'[v] = called[v] /\ (v \in unsaved' => v \in unsaved)
      BY <1>1, <2>2
    <3>. QED BY <1>1, <1>3, <3>1, LifecycleFrames, SameExtends DEF LifecycleInv
  <2>. QED BY <2>1, <2>2
<1>5. \A b \in Browsers : BegunOK(b)'
  BY <1>1, <1>3, LifecycleFrames DEF LifecycleInv
<1>6. FreshOK' /\ PromisesOK'
  BY <1>1, <1>3, LifecycleFrames DEF LifecycleInv
<1>7. CompletionsOK'
  BY <1>1 DEF CompletionsOK
<1>. QED BY <1>1, <1>4, <1>5, <1>6, <1>7 DEF LifecycleInv, VisitStep, CallsBack

LEMMA OtherLifecycle ==
  ASSUME Typed, LifecycleInv,
         \/ StorageNext \/ CallbackNext
         \/ \E b \in Browsers : ProcessNext(b) \/ ExtensionFinalizes(b) \/ WatchdogFlags(b)
  PROVE  LifecycleInv' /\ VisitStep
<1>. USE DEF manager, handles, processes, controller, history
<1>0. /\ proc \in [Browsers -> Processes]
      /\ commandQueue \in [Browsers -> Seq(Commands)]
      /\ inbox \in [Browsers -> Seq(CommandSequences)]
      /\ completions \in Seq(Finals)
  BY DEF Typed, ProcessesTyped, ControllerTyped
<1>g. ASSUME \A b \in Browsers : BegunOK(b)', CompletionsOK',
             UNCHANGED <<main, issued, touched, finals, called, unsaved>>
      PROVE  LifecycleInv' /\ VisitStep
  BY <1>g, SameExtends, LifecycleFrames DEF LifecycleInv, VisitStep, PromisesVisits
<1>1. CASE CallbackThreadEnds \/ FeederReturns \/ \E b \in Browsers : WatchdogFlags(b)
  <2>1. UNCHANGED <<main, issued, touched, finals, called, unsaved, completions, thread,
                    commandQueue, proc, inbox>>
    BY <1>1 DEF CallbackThreadEnds, FeederReturns, WatchdogFlags
  <2>2. CompletionsOK' /\ \A b \in Browsers : BegunOK(b)'
    BY <2>1, SameExtends, LifecycleFrames DEF LifecycleInv
  <2>. QED BY <1>g, <2>1, <2>2
<1>2. CASE InvokeCallbacks
  BY <1>2, CallbackLifecycle
<1>3. ASSUME NEW n \in DOMAIN finals, StorageReports(n) PROVE LifecycleInv' /\ VisitStep
  <2>1. /\ completions' = Append(completions, finals[n])
        /\ UNCHANGED <<main, issued, touched, finals, called, unsaved, thread, commandQueue,
                       proc, inbox>>
    BY <1>3 DEF StorageReports
  <2>2. \A m \in DOMAIN completions' :
          \/ m \in DOMAIN completions /\ completions'[m] = completions[m]
          \/ completions'[m] = finals[n]
    BY <1>0, <2>1
  <2>3. CompletionsOK'
    BY <2>1, <2>2 DEF LifecycleInv, CompletionsOK
  <2>4. \A b \in Browsers : BegunOK(b)'
    BY <2>1, SameExtends, LifecycleFrames DEF LifecycleInv
  <2>. QED BY <1>g, <2>1, <2>3, <2>4
<1>4. ASSUME NEW b \in Browsers, TakeCommand(b) PROVE LifecycleInv' /\ VisitStep
  <2>. DEFINE command == Head(commandQueue[b])
  <2>1. /\ commandQueue[b] # <<>>
        /\ proc' = [proc EXCEPT ![b].state = "busy", ![b].command = command]
        /\ commandQueue' = [commandQueue EXCEPT ![b] = Tail(@)]
        /\ UNCHANGED <<main, issued, touched, finals, called, unsaved, completions, thread, inbox>>
    BY <1>4 DEF TakeCommand
  <2>2. command \in Commands /\ command.cs \in touched
    BY <1>0, <2>1 DEF LifecycleInv, BegunOK
  <2>. HIDE DEF command
  <2>3. /\ proc'[b].command = command
        /\ \A x \in Browsers : x # b => proc'[x] = proc[x]
    BY <2>1, <2>2, ProcessMoves DEF AnyCommand, Typed
  <2>4. /\ commandQueue'[b] = Tail(commandQueue[b])
        /\ \A x \in Browsers : x # b => commandQueue'[x] = commandQueue[x]
    BY <1>0, <2>1
  <2>5. \A n \in DOMAIN Tail(commandQueue[b]) :
          n + 1 \in DOMAIN commandQueue[b] /\ Tail(commandQueue[b])[n] = commandQueue[b][n + 1]
    BY <1>0, <2>1
  <2>6. BegunOK(b)'
    BY <2>1, <2>2, <2>3, <2>4, <2>5 DEF LifecycleInv, BegunOK
  <2>7. ASSUME NEW x \in Browsers, x # b PROVE BegunOK(x)'
    BY <2>1, <2>3, <2>4, <2>7, SameExtends, LifecycleFrames DEF LifecycleInv
  <2>8. CompletionsOK'
    BY <2>1, SameExtends, LifecycleFrames DEF LifecycleInv
  <2>. QED BY <1>g, <2>1, <2>6, <2>7, <2>8
<1>5. ASSUME NEW b \in Browsers, NEW outcome \in Outcomes, FinishCommand(b, outcome)
      PROVE  LifecycleInv' /\ VisitStep
  <2>. DEFINE visit == proc[b].command.cs
              state == IF outcome \in {"ok", "failed"} THEN "idle" ELSE "dead"
  <2>1. /\ proc[b].state = "busy"
        /\ proc' = [proc EXCEPT ![b].state = state, ![b].command = NoCommand]
        /\ inbox' = inbox \/ inbox' = [inbox EXCEPT ![b] = Append(@, visit)]
        /\ UNCHANGED <<main, issued, touched, finals, called, unsaved, completions, thread,
                       commandQueue>>
    BY <1>5 DEF FinishCommand
  <2>2. visit \in touched /\ state \in {"dead", "idle"}
    BY <2>1 DEF LifecycleInv, BegunOK
  <2>. HIDE DEF visit, state
  <2>3. proc'[b].state # "busy" /\ \A x \in Browsers : x # b => proc'[x] = proc[x]
    BY <2>1, <2>2, ProcessMoves DEF AnyCommand, Typed
  <2>4. \A n \in DOMAIN inbox'[b] :
          \/ n \in DOMAIN inbox[b] /\ inbox'[b][n] = inbox[b][n]
          \/ inbox'[b][n] = visit
    <3>1. CASE inbox' = inbox
      BY <3>1
    <3>2. CASE inbox' = [inbox EXCEPT ![b] = Append(@, visit)]
      <4>1. inbox'[b] = Append(inbox[b], visit) /\ inbox[b] \in Seq(CommandSequences)
        BY <1>0, <3>2
      <4>. QED BY <4>1, AppendProperty
    <3>. QED BY <2>1, <3>1, <3>2
  <2>5. BegunOK(b)'
    BY <2>1, <2>2, <2>3, <2>4 DEF LifecycleInv, BegunOK
  <2>6. ASSUME NEW x \in Browsers, x # b PROVE BegunOK(x)'
    <3>1. inbox'[x] = inbox[x]
      BY <1>0, <2>1, <2>6
    <3>. QED BY <2>1, <2>3, <2>6, <3>1, SameExtends, LifecycleFrames DEF LifecycleInv
  <2>7. CompletionsOK'
    BY <2>1, SameExtends, LifecycleFrames DEF LifecycleInv
  <2>. QED BY <1>g, <2>1, <2>5, <2>6, <2>7
<1>6. ASSUME NEW b \in Browsers, ExtensionFinalizes(b) PROVE LifecycleInv' /\ VisitStep
  <2>1. /\ inbox[b] # <<>> /\ SendFinalize(Head(inbox[b]), TRUE)
        /\ inbox' = [inbox EXCEPT ![b] = Tail(@)]
        /\ UNCHANGED <<main, issued, touched, called, unsaved, completions, thread, commandQueue, proc>>
    BY <1>6 DEF ExtensionFinalizes
  <2>2. Head(inbox[b]) \in touched
    BY <1>0, <2>1 DEF LifecycleInv, BegunOK
  <2>3. Extends(finals, finals') /\ PromisesOK'
    BY <2>1, <2>2, FinalSent DEF LifecycleInv
  <2>4. BegunOK(b)'
    <3>1. \A n \in DOMAIN Tail(inbox[b]) :
            n + 1 \in DOMAIN inbox[b] /\ Tail(inbox[b])[n] = inbox[b][n + 1]
      BY <1>0, <2>1
    <3>2. inbox'[b] = Tail(inbox[b])
      BY <1>0, <2>1
    <3>. QED BY <2>1, <3>1, <3>2 DEF LifecycleInv, BegunOK
  <2>5. ASSUME NEW x \in Browsers, x # b PROVE BegunOK(x)'
    <3>1. inbox'[x] = inbox[x]
      BY <1>0, <2>1, <2>5
    <3>. QED BY <2>1, <2>3, <3>1, LifecycleFrames DEF LifecycleInv
  <2>6. FreshOK' /\ CompletionsOK' /\ \A v \in CommandSequences : CalledOnce(v)'
    BY <2>1, <2>3, LifecycleFrames DEF LifecycleInv
  <2>. QED BY <2>1, <2>3, <2>4, <2>5, <2>6 DEF LifecycleInv, VisitStep, PromisesVisits
<1>7. CASE StorageStops
  <2>1. UNCHANGED <<main, issued, touched, called, unsaved, thread, commandQueue, proc, inbox>>
    BY <1>7 DEF StorageStops
  <2>2. PICK own \in Seq(Finals) :
          /\ finals' = finals \o own /\ completions' = completions \o own
          /\ \A n \in DOMAIN own : own[n].visit \in touched
    BY <1>7, OwnFinals
  <2>3. Extends(finals, finals') /\ \A n \in DOMAIN own : Len(finals) + n \in DOMAIN finals'
                                  /\ finals'[Len(finals) + n] = own[n]
    <3>1. finals \in Seq(Finals)
      BY DEF Typed, ControllerTyped
    <3>. QED BY <2>2, <3>1 DEF Extends
  <2>4. PromisesOK'
    <3>1. \A n \in DOMAIN finals' :
            \/ n \in DOMAIN finals /\ finals'[n] = finals[n]
            \/ finals'[n].visit \in touched
      BY <1>0, <2>2
    <3>. QED BY <2>1, <3>1 DEF LifecycleInv, PromisesOK
  <2>5. CompletionsOK'
    <3>1. \A m \in DOMAIN completions' :
            \/ m \in DOMAIN completions /\ completions'[m] = completions[m]
            \/ \E n \in DOMAIN own : completions'[m] = own[n]
      <4>1. ASSUME NEW m \in DOMAIN completions', m \notin DOMAIN completions
            PROVE  /\ m - Len(completions) \in DOMAIN own
                   /\ completions'[m] = own[m - Len(completions)]
        BY <1>0, <2>2, <4>1
      <4>2. ASSUME NEW m \in DOMAIN completions
            PROVE  completions'[m] = completions[m]
        BY <1>0, <2>2, <4>2
      <4>. QED BY <4>1, <4>2
    <3>2. ASSUME NEW m \in DOMAIN completions' PROVE \E n \in DOMAIN finals' : completions'[m] = finals'[n]
      <4>1. CASE m \in DOMAIN completions /\ completions'[m] = completions[m]
        BY <2>3, <4>1 DEF LifecycleInv, CompletionsOK, Extends
      <4>2. CASE \E n \in DOMAIN own : completions'[m] = own[n]
        BY <2>3, <4>2
      <4>. QED BY <3>1, <4>1, <4>2
    <3>. QED BY <3>2 DEF CompletionsOK
  <2>6. FreshOK' /\ \A v \in CommandSequences : CalledOnce(v)'
    BY <2>1, <2>3, LifecycleFrames DEF LifecycleInv
  <2>7. \A b \in Browsers : BegunOK(b)'
    BY <2>1, <2>3, LifecycleFrames DEF LifecycleInv
  <2>. QED BY <2>1, <2>3, <2>4, <2>5, <2>6, <2>7 DEF LifecycleInv, VisitStep, PromisesVisits
<1>. QED BY <1>1, <1>2, <1>3, <1>4, <1>5, <1>6, <1>7 DEF StorageNext, CallbackNext, ProcessNext

(* The steps of the user's thread.                                         *)
LEMMA MainLifecycle ==
  ASSUME Typed, VisitsInv, LifecycleInv, UserNext \/ MainNext
  PROVE  LifecycleInv' /\ VisitStep
<1>. USE DEF manager, handles, processes, controller, history
<1>0. /\ main \in Mains /\ thread \in [Browsers -> Threads] /\ proc \in [Browsers -> Processes]
      /\ inbox \in [Browsers -> Seq(CommandSequences)]
      /\ issued \in Seq(CommandSequences)
      /\ finals \in Seq(Finals)
  BY DEF Typed, ManagerTyped, HandlesTyped, ProcessesTyped, ControllerTyped, HistoryTyped
<1>1. UNCHANGED <<touched, called, completions, commandQueue>>
  BY DEF UserNext, MainNext, ExecuteCommandSequence, Close, Construct, ConstructionFails,
         StartThread, JoinBlocking, ShutdownBrowser, ShutdownStorage, JoinStorage,
         JoinCallbackThread
<1>e. finals' = finals => Extends(finals, finals') /\ PromisesOK'
  BY <1>1, SameExtends DEF LifecycleInv, PromisesOK
<1>f. ASSUME UNCHANGED <<thread, unsaved, issued>>, main'.pc # "pick",
             \A b \in Browsers : proc'[b] = proc[b] \/ proc'[b].state # "busy",
             \A b \in Browsers : inbox'[b] = inbox[b] \/ inbox'[b] = <<>>,
             Extends(finals, finals'), PromisesOK'
      PROVE  LifecycleInv' /\ VisitStep
  <2>1. \A b \in Browsers : BegunOK(b)'
    BY <1>1, <1>f, LifecycleFrames DEF LifecycleInv
  <2>2. FreshOK' /\ CompletionsOK' /\ \A v \in CommandSequences : CalledOnce(v)'
    BY <1>1, <1>f, LifecycleFrames DEF LifecycleInv
  <2>. QED BY <1>1, <1>f, <2>1, <2>2 DEF LifecycleInv, VisitStep, PromisesVisits
<1>g. ASSUME UNCHANGED <<thread, unsaved, issued, finals, proc, inbox>>, main'.pc # "pick"
      PROVE  LifecycleInv' /\ VisitStep
  BY <1>e, <1>f, <1>g
<1>m. ASSUME NEW pc, pc # "pick", main' = [main EXCEPT !.pc = pc] PROVE main'.pc # "pick"
  BY <1>0, <1>m DEF Mains
<1>b. ASSUME NEW relaxed, BeginShutdown(relaxed) PROVE main'.pc # "pick"
  BY <1>0, <1>b DEF BeginShutdown, Mains
<1>2. ASSUME NEW cs \in CommandSequences, ExecuteCommandSequence(cs)
      PROVE  LifecycleInv' /\ VisitStep
  <2>1. /\ main'.pc = "pick" /\ main'.cs = cs /\ cs \notin Range(issued)
        /\ issued' = Append(issued, cs)
        /\ UNCHANGED <<thread, unsaved, finals, proc, inbox>>
    BY <1>0, <1>2 DEF ExecuteCommandSequence, Mains
  <2>2. Range(issued') = Range(issued) \cup {cs}
    BY <1>0, <2>1, AppendRange
  <2>3. FreshOK'
    BY <1>1, <2>1, <2>2 DEF LifecycleInv, FreshOK
  <2>4. \A b \in Browsers : BegunOK(b)'
    BY <1>1, <1>e, <2>1, LifecycleFrames DEF LifecycleInv
  <2>5. CompletionsOK' /\ \A v \in CommandSequences : CalledOnce(v)'
    BY <1>1, <1>e, <2>1, LifecycleFrames DEF LifecycleInv
  <2>. QED BY <1>1, <1>e, <2>1, <2>3, <2>4, <2>5 DEF LifecycleInv, VisitStep, PromisesVisits
<1>3. ASSUME NEW relaxed \in BOOLEAN, Close(relaxed) PROVE LifecycleInv' /\ VisitStep
  BY <1>b, <1>g, <1>3 DEF Close
<1>4. ASSUME NEW b \in Browsers, Construct(b) PROVE LifecycleInv' /\ VisitStep
  <2>1. /\ proc' = [proc EXCEPT ![b].state = "idle", ![b].gen = 1]
        /\ UNCHANGED <<thread, unsaved, issued, finals, inbox>>
    BY <1>4 DEF Construct
  <2>2. main'.pc # "pick"
    BY <1>0, <1>4 DEF Construct, Launching, Mains
  <2>3. \A x \in Browsers : proc'[x] = proc[x] \/ proc'[x].state # "busy"
    BY <1>0, <2>1 DEF Processes
  <2>. QED BY <1>e, <1>f, <2>1, <2>2, <2>3
<1>5. ASSUME NEW b \in Browsers, ConstructionFails(b) PROVE LifecycleInv' /\ VisitStep
  <2>1. PICK how \in {"gaveUp", "raised"} :
          main' = [main EXCEPT !.pc = "shutdown", !.browser = 1, !.init = how]
    BY <1>5 DEF ConstructionFails
  <2>2. main'.pc # "pick"
    BY <1>0, <2>1 DEF Mains
  <2>. QED BY <1>g, <1>5, <2>2 DEF ConstructionFails
<1>6. ASSUME NEW b \in Browsers, StartThread(b) PROVE LifecycleInv' /\ VisitStep
  <2>1. /\ main.pc = "pick" /\ main.cs \in CommandSequences
        /\ UNCHANGED <<proc, inbox, issued, finals>>
    BY <1>6 DEF StartThread, Available, Typed, ManagerTyped
  <2>2. CASE closing
    BY <1>g, <1>m, <1>6, <2>2 DEF StartThread
  <2>3. CASE ~closing /\ failureStatus # "none"
    BY <1>b, <1>g, <1>6, <2>3 DEF StartThread
  <2>4. CASE ~closing /\ failureStatus = "none"
    <3>. DEFINE new == [NoThread EXCEPT !.pc = "start", !.cs = main.cs]
    <3>1. /\ thread' = [thread EXCEPT ![b] = new] /\ main'.pc # "pick"
          /\ unsaved' = unsaved \cup ({main.cs} \cap Callbacks)
      BY <1>0, <1>6, <2>4 DEF StartThread, Mains
    <3>2. new.pc = "start" /\ new.cs = main.cs
      BY DEF NoThread
    <3>. HIDE DEF new
    <3>3. main.cs \notin touched
      BY <2>1 DEF LifecycleInv, FreshOK
    <3>4. ASSUME NEW x \in Browsers PROVE BegunOK(x)'
      <4>1. CASE x = b
        <5>1. thread'[x] = new
          BY <1>0, <3>1, <4>1
        <5>. QED BY <1>1, <2>1, <3>2, <3>3, <5>1 DEF LifecycleInv, BegunOK
      <4>2. CASE x # b
        <5>1. thread'[x] = thread[x]
          BY <1>0, <3>1, <4>2
        <5>. QED BY <1>1, <1>e, <2>1, <5>1, LifecycleFrames DEF LifecycleInv
      <4>. QED BY <4>1, <4>2
    <3>5. \A v \in CommandSequences : CalledOnce(v)'
      BY <1>1, <1>e, <2>1, <3>1, <3>3, LifecycleFrames DEF LifecycleInv
    <3>6. FreshOK' /\ CompletionsOK'
      BY <1>1, <1>e, <2>1, <3>1, LifecycleFrames DEF LifecycleInv
    <3>. QED BY <1>1, <1>e, <2>1, <3>4, <3>5, <3>6 DEF LifecycleInv, VisitStep, PromisesVisits
  <2>. QED BY <2>2, <2>3, <2>4
<1>7. CASE JoinBlocking
  <2>1. main'.pc # "pick"
    BY <1>b, <1>m, <1>7 DEF JoinBlocking
  <2>. QED BY <1>g, <1>7, <2>1 DEF JoinBlocking
<1>8. CASE ShutdownBrowser
  <2>1. /\ main.browser \in Browsers /\ CloseBrowserManager(main.browser)
        /\ UNCHANGED <<thread, unsaved, issued, finals>>
    BY <1>8 DEF ShutdownBrowser
  <2>2. main'.pc # "pick"
    BY <1>0, <1>8 DEF ShutdownBrowser, Mains
  <2>3. \A x \in Browsers : proc'[x] = proc[x] \/ proc'[x].state # "busy"
    BY <1>0, <2>1, ProcessMoves DEF CloseBrowserManager, AnyCommand, Typed
  <2>4. \A x \in Browsers : inbox'[x] = inbox[x] \/ inbox'[x] = <<>>
    BY <1>0, <2>1 DEF CloseBrowserManager
  <2>. QED BY <1>e, <1>f, <2>1, <2>2, <2>3, <2>4
<1>9. CASE ShutdownStorage
  BY <1>g, <1>m, <1>9 DEF ShutdownStorage
<1>10. CASE JoinStorage
  <2>. DEFINE pc == IF main.init = "done" THEN "joinCallbacks" ELSE "raised"
  <2>1. main' = [main EXCEPT !.pc = pc] /\ pc # "pick"
    BY <1>10 DEF JoinStorage
  <2>. HIDE DEF pc
  <2>. QED BY <1>g, <1>m, <1>10, <2>1 DEF JoinStorage
<1>11. CASE JoinCallbackThread
  BY <1>g, <1>m, <1>11 DEF JoinCallbackThread
<1>. QED BY <1>2, <1>3, <1>4, <1>5, <1>6, <1>7, <1>8, <1>9, <1>10, <1>11 DEF UserNext, MainNext

LEMMA StutterLifecycle == LifecycleInv /\ UNCHANGED vars => LifecycleInv' /\ VisitStep
<1>. SUFFICES ASSUME LifecycleInv, UNCHANGED vars PROVE LifecycleInv' /\ VisitStep
  OBVIOUS
<1>. USE DEF vars, manager, handles, processes, controller, history
<1>1. \A b \in Browsers : BegunOK(b)'
  BY SameExtends, LifecycleFrames DEF LifecycleInv
<1>2. FreshOK' /\ PromisesOK' /\ CompletionsOK' /\ \A v \in CommandSequences : CalledOnce(v)'
  BY SameExtends, LifecycleFrames DEF LifecycleInv
<1>. QED BY <1>1, <1>2, SameExtends DEF LifecycleInv, VisitStep, PromisesVisits

-----------------------------------------------------------------------------
(* The mapping of TaskManager's state to that of VisitLifecycle.           *)

Ended(promises) == {<<promises[n].visit, promises[n].success>> : n \in DOMAIN promises}
Called(calls) == UNION {{<<v, calls[v][n]>> : n \in DOMAIN calls[v]} : v \in CommandSequences}

LEMMA EndedVisits ==
  ASSUME NEW f \in Seq(Finals), NEW T, \A n \in DOMAIN f : f[n].visit \in T
  PROVE  Ended(f) \subseteq T \X BOOLEAN
<1>1. \A r \in Finals : r.success \in BOOLEAN
  BY DEF Finals
<1>2. \A n \in DOMAIN f : f[n].success \in BOOLEAN /\ f[n].visit \in T
  BY <1>1
<1>. QED BY <1>2 DEF Ended

LEMMA CalledEnded ==
  ASSUME NEW f, NEW c,
         \A v \in CommandSequences : c[v] # <<>> =>
           /\ DOMAIN c[v] = {1}
           /\ \E m \in DOMAIN f : f[m].visit = v /\ f[m].success = c[v][1]
  PROVE  /\ Called(c) \subseteq Ended(f)
         /\ \A p, q \in Called(c) : p[1] = q[1] => p = q
<1>1. ASSUME NEW p \in Called(c)
      PROVE  \E v \in CommandSequences : c[v] # <<>> /\ p = <<v, c[v][1]>>
  <2>1. PICK v \in CommandSequences : \E n \in DOMAIN c[v] : p = <<v, c[v][n]>>
    BY DEF Called
  <2>2. PICK n \in DOMAIN c[v] : p = <<v, c[v][n]>>
    BY <2>1
  <2>3. c[v] # <<>>
    BY <2>2
  <2>4. n = 1
    BY <2>2, <2>3
  <2>. QED BY <2>2, <2>3, <2>4
<1>2. Called(c) \subseteq Ended(f)
  BY <1>1 DEF Ended
<1>3. ASSUME NEW p \in Called(c), NEW q \in Called(c), p[1] = q[1] PROVE p = q
  <2>1. PICK v \in CommandSequences : p = <<v, c[v][1]>>
    BY <1>1
  <2>2. PICK w \in CommandSequences : q = <<w, c[w][1]>>
    BY <1>1
  <2>3. v = w
    BY <1>3, <2>1, <2>2
  <2>. QED BY <2>1, <2>2, <2>3
<1>. QED BY <1>2, <1>3

LEMMA StepRefines ==
  ASSUME Typed, Typed', LifecycleInv, LifecycleInv', VisitStep
  PROVE  [Lifecycle!Next]_(Lifecycle!vars)
<1>0. touched' \subseteq CommandSequences /\ finals' \in Seq(Finals)
  BY DEF Typed, HistoryTyped, ControllerTyped
<1>1. CASE StartsVisit
  <2>1. PICK v \in CommandSequences : v \notin touched /\ touched' = touched \cup {v}
    BY <1>1 DEF StartsVisit
  <2>2. Lifecycle!Start(v)
    BY <1>1, <2>1 DEF StartsVisit, Lifecycle!Start
  <2>. QED BY <2>2 DEF Lifecycle!Next
<1>2. CASE PromisesVisits
  <2>1. Ended(finals') \subseteq touched' \X BOOLEAN
    BY <1>0, EndedVisits DEF LifecycleInv, PromisesOK
  <2>2. Ended(finals) \subseteq Ended(finals')
    BY <1>2 DEF PromisesVisits, Extends, Ended
  <2>3. Ended(finals') \in SUBSET (CommandSequences \X BOOLEAN)
    BY <1>0, <2>1
  <2>4. touched' = touched /\ Called(called') = Called(called)
    BY <1>2 DEF PromisesVisits
  <2>5. Ended(finals') = Ended(finals) \cup Ended(finals')
    BY <2>2
  <2>6. PICK outcomes : outcomes = Ended(finals')
    OBVIOUS
  <2>7. Lifecycle!End(outcomes)
    BY <2>1, <2>4, <2>5, <2>6, Zenon DEF Lifecycle!End, Ended, Called
  <2>8. \E o \in SUBSET (CommandSequences \X BOOLEAN) : Lifecycle!End(o)
    BY <2>3, <2>6, <2>7, Zenon
  <2>. QED BY <2>8, Zenon DEF Lifecycle!Next
<1>3. CASE CallsBack
  <2>1. Ended(finals') = Ended(finals) /\ touched' = touched
    BY <1>3 DEF CallsBack
  <2>2. /\ Called(called') \subseteq Ended(finals')
        /\ \A p, q \in Called(called') : p[1] = q[1] => p = q
    BY CalledEnded DEF LifecycleInv, CalledOnce
  <2>3. Called(called) \subseteq Called(called')
    BY <1>3 DEF CallsBack, Extends, Called
  <2>4. Called(called') \in SUBSET (CommandSequences \X BOOLEAN)
    BY <1>0, <2>2, EndedVisits DEF LifecycleInv, PromisesOK
  <2>5. Called(called') = Called(called) \cup Called(called')
    BY <2>3
  <2>6. \A p, q \in Called(called) \cup Called(called') : p[1] = q[1] => p = q
    BY <2>2, <2>5
  <2>7. PICK outcomes : outcomes = Called(called')
    OBVIOUS
  <2>8. Lifecycle!Call(outcomes)
    BY <2>1, <2>2, <2>5, <2>6, <2>7, Zenon DEF Lifecycle!Call, Ended, Called
  <2>9. \E o \in SUBSET (CommandSequences \X BOOLEAN) : Lifecycle!Call(o)
    BY <2>4, <2>7, <2>8, Zenon
  <2>. QED BY <2>9, Zenon DEF Lifecycle!Next
<1>. QED BY <1>1, <1>2, <1>3 DEF VisitStep

(* The manager process implements VisitLifecycle: no visit is started      *)
(* twice, none is ended that was not started, and no callback is invoked   *)
(* twice or with an outcome nobody promised.                               *)
THEOREM LifecycleIsImplemented == Spec => ImplementsVisitLifecycle
<1>1. Init => Lifecycle!Init
  BY DEF Init, StorageLaunched, Lifecycle!Init
<1>2. Typed /\ VisitsInv /\ LifecycleInv /\ [Next]_vars => LifecycleInv' /\ VisitStep
  BY MainLifecycle, ThreadLifecycle, OtherLifecycle, StutterLifecycle DEF Next
<1>3. Typed /\ Typed' /\ LifecycleInv /\ LifecycleInv' /\ VisitStep
        => [Lifecycle!Next]_(Lifecycle!vars)
  BY StepRefines
<1>. QED BY <1>1, <1>2, <1>3, InitLifecycle, StateIsWellFormed, VisitsStayWithTheirBrowser, PTL
         DEF Spec, ImplementsVisitLifecycle, Lifecycle!Spec

-----------------------------------------------------------------------------
(* Nothing runs after a sequence that asked for a reset in the browser     *)
(* process it ran in, unless maximum_profile_size is set: then the size    *)
(* of the profile decides instead.                                         *)


(* Visit v has run on the process that browser b has now, or may yet.      *)
On(b, v) ==
    \/ <<b, proc[b].gen>> \in ranOn[v]
    \/ \E n \in DOMAIN commandQueue[b] : commandQueue[b][n].cs = v

Before(u, v) == \E m, n \in DOMAIN issued : m < n /\ issued[m] = u /\ issued[n] = v

(* The sequences are handed out in the order in which they were issued, so *)
(* what else is on a browser came before its current sequence.             *)
IssuedOK ==
    /\ \A m, n \in DOMAIN issued : issued[m] = issued[n] => m = n
    /\ main.pc = "pick" => issued # <<>> /\ main.cs = issued[Len(issued)]
OrderOK(b) == \A v \in CommandSequences : On(b, v) /\ v # thread[b].cs => Before(v, thread[b].cs)
GensOK == \A v \in CommandSequences : \A b \in Browsers, g \in Nat :
            <<b, g>> \in ranOn[v] => g <= proc[b].gen

(* No command thread runs while the browsers are first launched.           *)
QuietOK == main.pc = "construct" => \A b \in Browsers : thread[b].pc = "off"

Stopped == closing \/ failureStatus # "none"

(* A sequence that asked for a reset leaves a live process behind only if  *)
(* the manager hands out no further sequence.                              *)
ResetOK(b) ==
    \A u \in Resets : On(b, u) /\ proc[b].state # "dead" =>
      /\ thread[b].cs = u
      /\ thread[b].pc \notin {"launch", "launched"}
      /\ thread[b].pc = "off" => Stopped
RestartOK(b) ==
    /\ thread[b].pc = "launch" => proc[b].state = "dead"
    /\ thread[b].pc = "record" /\ thread[b].answer = "CRITICAL" => Stopped
IsolatedOK == \A u \in Resets, v \in CommandSequences : Before(u, v) => ranOn[u] \cap ranOn[v] = {}
ResetInv ==
    /\ IssuedOK /\ GensOK /\ IsolatedOK /\ QuietOK
    /\ \A b \in Browsers : OrderOK(b) /\ ResetOK(b) /\ RestartOK(b)

LEMMA InitResets == Init => ResetInv
<1>. SUFFICES ASSUME Init PROVE ResetInv
  OBVIOUS
<1>. USE DEF Init, InitialHandles
<1>1. IssuedOK /\ GensOK /\ IsolatedOK /\ QuietOK
  BY DEF IssuedOK, GensOK, IsolatedOK, QuietOK, Before, NoThread
<1>2. ASSUME NEW b \in Browsers PROVE OrderOK(b) /\ ResetOK(b) /\ RestartOK(b)
  BY DEF OrderOK, ResetOK, RestartOK, On, NoThread
<1>. QED BY <1>1, <1>2 DEF ResetInv

(* A browser whose thread does not move.                                   *)
LEMMA BrowserFrames ==
  ASSUME NEW b \in Browsers, OrderOK(b), ResetOK(b), RestartOK(b), ConstantsAssumption,
         thread'[b] = thread[b],
         \A v \in CommandSequences : On(b, v)' => On(b, v),
         proc[b].state = "dead" => proc'[b].state = "dead",
         Stopped => Stopped',
         \A u, v \in CommandSequences \cup {NoSequence} : Before(u, v) => Before(u, v)',
         thread[b].cs \in CommandSequences \cup {NoSequence}
  PROVE  OrderOK(b)' /\ ResetOK(b)' /\ RestartOK(b)'
<1>1. OrderOK(b)'
  BY DEF OrderOK
<1>2. ResetOK(b)'
  BY DEF ResetOK, ConstantsAssumption
<1>. QED BY <1>1, <1>2 DEF RestartOK

(* Most steps issue no sequence and execute no command.                    *)
LEMMA ResetFrames ==
  ASSUME Typed, ResetInv, UNCHANGED <<ranOn, issued>>,
         main'.pc = "pick" => main.pc = "pick" /\ main'.cs = main.cs,
         main'.pc = "construct" => main.pc = "construct" /\ thread' = thread,
         \A b \in Browsers : proc[b].gen <= proc'[b].gen /\ proc'[b].gen \in Nat,
         \A b \in Browsers : OrderOK(b)' /\ ResetOK(b)' /\ RestartOK(b)'
  PROVE  ResetInv'
<1>1. \A b \in Browsers : proc[b].gen \in Nat
  BY DEF Typed, ProcessesTyped, Processes
<1>2. IssuedOK'
  BY DEF ResetInv, IssuedOK
<1>3. GensOK'
  BY <1>1 DEF ResetInv, GensOK
<1>4. IsolatedOK'
  BY DEF ResetInv, IsolatedOK, Before
<1>5. QuietOK'
  BY DEF ResetInv, QuietOK
<1>. QED BY <1>2, <1>3, <1>4, <1>5 DEF ResetInv

(* Steps that leave the threads, the queues of commands and the            *)
(* generations of the processes alone.                                     *)
LEMMA QuietSteps ==
  ASSUME Typed, ResetInv, UNCHANGED <<thread, ranOn, issued, commandQueue>>,
         main'.pc = "pick" => main.pc = "pick" /\ main'.cs = main.cs,
         main'.pc = "construct" => main.pc = "construct",
         \A b \in Browsers : /\ proc'[b].gen = proc[b].gen
                             /\ proc[b].state = "dead" => proc'[b].state = "dead",
         Stopped => Stopped'
  PROVE  ResetInv'
<1>1. \A b \in Browsers : /\ thread[b].cs \in CommandSequences \cup {NoSequence}
                          /\ proc[b].gen \in Nat
  BY DEF Typed, HandlesTyped, Threads, ProcessesTyped, Processes
<1>2. \A u, v \in CommandSequences \cup {NoSequence} : Before(u, v) => Before(u, v)'
  BY DEF Before
<1>3. ASSUME NEW b \in Browsers PROVE OrderOK(b)' /\ ResetOK(b)' /\ RestartOK(b)'
  <2>1. \A v \in CommandSequences : On(b, v)' => On(b, v)
    BY DEF On
  <2>. QED BY <1>1, <1>2, <2>1, BrowserFrames, ConstantsAssumption DEF ResetInv
<1>. QED BY <1>1, <1>3, ResetFrames

LEMMA ThreadResets ==
  ASSUME Typed, ShutdownInv, ResetInv, ~ProfileLimited, NEW b \in Browsers, ThreadNext(b)
  PROVE  ResetInv'
<1>. USE DEF AtThread, manager, handles, processes, controller, history
<1>0. /\ thread \in [Browsers -> Threads] /\ proc \in [Browsers -> Processes]
      /\ commandQueue \in [Browsers -> Seq(Commands)]
      /\ \A x \in Browsers : thread[x].cs \in CommandSequences \cup {NoSequence}
      /\ \A x \in Browsers : proc[x].gen \in Nat
  BY DEF Typed, HandlesTyped, Threads, ProcessesTyped, Processes
<1>1. /\ \A x \in Browsers : x # b => thread'[x] = thread[x] /\ proc'[x] = proc[x]
      /\ UNCHANGED <<main, closing, issued, ranOn>>
      /\ \/ commandQueue' = commandQueue /\ proc'[b].gen = proc[b].gen
         \/ /\ thread[b].pc = "send"
            /\ commandQueue' = [commandQueue EXCEPT ![b] =
                                  Append(@, [cs |-> thread[b].cs, i |-> thread[b].i])]
            /\ proc' = proc
         \/ commandQueue' = [commandQueue EXCEPT ![b] = <<>>]
  BY ThreadSteps, ThreadHolds
<1>2. \A u, v \in CommandSequences \cup {NoSequence} : Before(u, v) => Before(u, v)'
  BY <1>1 DEF Before
<1>s. SockClosed => closing
  BY DEF SockClosed, ShutdownInv, StorageOK
<1>b. OrderOK(b) /\ ResetOK(b) /\ RestartOK(b)
  BY DEF ResetInv
<1>f. ASSUME failureStatus # "none" => failureStatus' # "none",
             proc[b].gen <= proc'[b].gen, proc'[b].gen \in Nat,
             OrderOK(b)', ResetOK(b)', RestartOK(b)'
      PROVE  ResetInv'
  <2>1. ASSUME NEW x \in Browsers, x # b PROVE OrderOK(x)' /\ ResetOK(x)' /\ RestartOK(x)'
    <3>1. commandQueue'[x] = commandQueue[x]
      BY <1>0, <1>1, <2>1
    <3>2. \A v \in CommandSequences : On(x, v)' => On(x, v)
      BY <1>1, <2>1, <3>1 DEF On
    <3>3. Stopped => Stopped'
      BY <1>1, <1>f DEF Stopped
    <3>. QED BY <1>0, <1>1, <1>2, <2>1, <3>2, <3>3, BrowserFrames, ConstantsAssumption DEF ResetInv
  <2>2. ASSUME NEW x \in Browsers PROVE proc[x].gen <= proc'[x].gen /\ proc'[x].gen \in Nat
    <3>1. CASE x = b
      BY <1>f, <3>1
    <3>2. CASE x # b
      <4>1. proc'[x].gen = proc[x].gen /\ proc[x].gen \in Nat
        BY <1>0, <1>1, <3>2
      <4>. QED BY <4>1
    <3>. QED BY <3>1, <3>2
  <2>3. main'.pc # "construct"
    BY <1>1, ThreadSteps DEF ResetInv, QuietOK
  <2>. QED BY <1>1, <1>f, <2>1, <2>2, <2>3, ResetFrames
(* Steps that neither send nor restart; a thread may end if no sequence    *)
(* will follow or its own did not ask for a reset.                         *)
<1>g. ASSUME UNCHANGED commandQueue, proc'[b] = proc[b],
             failureStatus # "none" => failureStatus' # "none",
             thread'[b].cs = thread[b].cs,
             thread[b].pc # "off",
             thread'[b].pc \notin {"launch", "launched"},
             thread'[b].pc = "record" => thread'[b].answer # "CRITICAL" \/ Stopped',
             thread'[b].pc = "off" =>
               Stopped' \/ thread[b].cs \notin Resets \/ thread[b].pc = "launched"
               \/ proc[b].state = "dead"
      PROVE  ResetInv'
  <2>1. \A v \in CommandSequences : On(b, v)' <=> On(b, v)
    BY <1>1, <1>g DEF On
  <2>2. OrderOK(b)'
    BY <1>0, <1>2, <1>b, <1>g, <2>1 DEF OrderOK
  <2>3. ResetOK(b)'
    BY <1>b, <1>g, <2>1, ConstantsAssumption DEF ResetOK
  <2>4. RestartOK(b)'
    BY <1>g DEF RestartOK
  <2>. QED BY <1>0, <1>f, <1>g, <2>2, <2>3, <2>4
<1>p. ASSUME NEW pc, GoTo(b, pc)
      PROVE  /\ thread'[b].pc = pc /\ thread'[b].cs = thread[b].cs
             /\ thread'[b].answer = thread[b].answer
  BY <1>p, GoToKeeps
<1>e. ASSUME NEW pc, SocketError(b, pc), pc # "off" PROVE ResetInv'
  <2>1. /\ thread[b].pc = pc /\ thread'[b].pc = "off" /\ thread'[b].cs = thread[b].cs
        /\ UNCHANGED <<commandQueue, proc, failureStatus>>
    BY <1>e, <1>p DEF SocketError
  <2>2. Stopped'
    BY <1>1, <1>s, <1>e DEF SocketError, Stopped
  <2>. QED BY <1>e, <1>g, <2>1, <2>2
<1>3. CASE StartSequence(b)
  <2>1. CASE SocketError(b, "start")
    BY <1>e, <2>1
  <2>2. CASE ~SocketError(b, "start")
    <3>1. /\ thread[b].pc = "start" /\ GoTo(b, "send")
          /\ UNCHANGED <<commandQueue, proc, failureStatus>>
      BY <1>3, <2>2 DEF StartSequence
    <3>. QED BY <1>g, <1>p, <3>1
  <2>. QED BY <2>1, <2>2
<1>4. CASE SendCommand(b)
  <2>. DEFINE command == [cs |-> thread[b].cs, i |-> thread[b].i]
  <2>1. /\ thread[b].pc = "send" /\ GoTo(b, "wait")
        /\ commandQueue' = [commandQueue EXCEPT ![b] = Append(@, command)]
        /\ UNCHANGED <<proc, failureStatus>>
    BY <1>4 DEF SendCommand
  <2>2. thread'[b].pc = "wait" /\ thread'[b].cs = thread[b].cs /\ command.cs = thread[b].cs
    BY <1>p, <2>1
  <2>. HIDE DEF command
  <2>3. commandQueue'[b] = Append(commandQueue[b], command)
    BY <1>0, <2>1
  <2>4. \A n \in DOMAIN commandQueue'[b] :
          \/ n \in DOMAIN commandQueue[b] /\ commandQueue'[b][n] = commandQueue[b][n]
          \/ commandQueue'[b][n] = command
    BY <1>0, <2>3, AppendProperty
  <2>5. \A v \in CommandSequences : On(b, v)' => On(b, v) \/ v = thread[b].cs
    BY <1>1, <2>1, <2>2, <2>4 DEF On
  <2>6. OrderOK(b)'
    BY <1>0, <1>2, <1>b, <2>2, <2>5 DEF OrderOK
  <2>7. ResetOK(b)'
    BY <1>b, <2>1, <2>2, <2>5, ConstantsAssumption DEF ResetOK
  <2>8. RestartOK(b)'
    BY <2>2 DEF RestartOK
  <2>. QED BY <1>0, <1>f, <2>1, <2>6, <2>7, <2>8
<1>5. CASE ReceiveStatus(b)
  <2>. DEFINE answer == Head(statusQueue[b]).kind
  <2>1. /\ thread[b].pc = "wait"
        /\ thread' = [thread EXCEPT ![b].pc = "record", ![b].answer = answer]
        /\ failureStatus' = IF answer = "CRITICAL" THEN "CriticalChildException" ELSE failureStatus
        /\ UNCHANGED <<commandQueue, proc>>
    BY <1>5 DEF ReceiveStatus
  <2>. HIDE DEF answer
  <2>2. thread' = [thread EXCEPT ![b] = [thread[b] EXCEPT !.pc = "record", !.answer = answer]]
    BY <1>0, <2>1, TwoAnswers
  <2>3. /\ thread'[b].pc = "record" /\ thread'[b].cs = thread[b].cs /\ thread'[b].answer = answer
    BY <1>0, <2>2 DEF Threads
  <2>4. answer = "CRITICAL" => Stopped'
    BY <2>1 DEF Stopped
  <2>. QED BY <1>g, <2>1, <2>3, <2>4
<1>6. CASE CommandTimeout(b)
  <2>1. /\ thread[b].pc = "wait"
        /\ thread' = [thread EXCEPT ![b].pc = "record", ![b].answer = "timeout"]
        /\ UNCHANGED <<commandQueue, proc, failureStatus>>
    BY <1>6 DEF CommandTimeout
  <2>2. thread' = [thread EXCEPT ![b] = [thread[b] EXCEPT !.pc = "record", !.answer = "timeout"]]
    BY <1>0, <2>1, TwoAnswers
  <2>3. thread'[b].pc = "record" /\ thread'[b].cs = thread[b].cs /\ thread'[b].answer = "timeout"
    BY <1>0, <2>2 DEF Threads
  <2>. QED BY <1>g, <2>1, <2>3
<1>7. CASE RecordOutcome(b)
  <2>1. CASE SocketError(b, "record")
    BY <1>e, <2>1
  <2>2. CASE ~SocketError(b, "record")
    <3>1. /\ thread[b].pc = "record"
          /\ \/ thread[b].answer = "CRITICAL" /\ GoTo(b, "off")
             \/ GoTo(b, "compare") \/ GoTo(b, "decide")
          /\ UNCHANGED <<commandQueue, proc, failureStatus>>
      BY <1>7, <2>2 DEF RecordOutcome
    <3>2. CASE thread[b].answer = "CRITICAL" /\ GoTo(b, "off")
      <4>1. Stopped'
        BY <1>1, <1>b, <3>1, <3>2 DEF RestartOK, Stopped
      <4>. QED BY <1>g, <1>p, <3>1, <3>2, <4>1
    <3>3. CASE GoTo(b, "compare")
      BY <1>g, <1>p, <3>1, <3>3
    <3>4. CASE GoTo(b, "decide")
      BY <1>g, <1>p, <3>1, <3>4
    <3>. QED BY <3>1, <3>2, <3>3, <3>4
  <2>. QED BY <2>1, <2>2
<1>8. CASE CompareFailures(b)
  <2>1. /\ thread[b].pc = "compare" /\ UNCHANGED <<commandQueue, proc>>
        /\ \/ GoTo(b, "off") /\ failureStatus' = "ExceedCommandFailureLimit"
           \/ GoTo(b, "decide") /\ UNCHANGED failureStatus
    BY <1>8 DEF CompareFailures
  <2>2. CASE GoTo(b, "off") /\ failureStatus' = "ExceedCommandFailureLimit"
    <3>1. Stopped'
      BY <2>2 DEF Stopped
    <3>. QED BY <1>g, <1>p, <2>1, <2>2, <3>1
  <2>3. CASE GoTo(b, "decide") /\ UNCHANGED failureStatus
    BY <1>g, <1>p, <2>1, <2>3
  <2>. QED BY <2>1, <2>2, <2>3
<1>9. CASE NextCommand(b)
  <2>1. CASE restartRequired[b] /\ SocketError(b, "decide")
    BY <1>e, <2>1
  <2>2. CASE ~(restartRequired[b] /\ SocketError(b, "decide"))
    <3>1. /\ thread[b].pc = "decide"
          /\ \/ GoTo(b, "sleep")
             \/ thread' = [thread EXCEPT ![b].pc = "send", ![b].i = @ + 1]
          /\ UNCHANGED <<commandQueue, proc, failureStatus>>
      BY <1>9, <2>2 DEF NextCommand
    <3>2. thread'[b].pc \in {"sleep", "send"} /\ thread'[b].cs = thread[b].cs
      <4>1. CASE GoTo(b, "sleep")
        BY <1>p, <4>1
      <4>2. CASE thread' = [thread EXCEPT ![b].pc = "send", ![b].i = @ + 1]
        BY <1>0, <4>2 DEF Threads
      <4>. QED BY <3>1, <4>1, <4>2
    <3>. QED BY <1>g, <3>1, <3>2
  <2>. QED BY <2>1, <2>2
<1>10. CASE AfterSequence(b)
  <2>1. thread[b].pc = "sleep" /\ UNCHANGED <<commandQueue, proc, failureStatus>>
    BY <1>10 DEF AfterSequence
  <2>2. CASE closing /\ GoTo(b, "off")
    <3>1. Stopped'
      BY <1>1, <2>2 DEF Stopped
    <3>. QED BY <1>g, <1>p, <2>1, <2>2, <3>1
  <2>3. CASE \E reset \in ResetWanted(b) :
               thread' = [thread EXCEPT
                            ![b].pc = IF restartRequired[b] \/ reset THEN "close" ELSE "off",
                            ![b].reset = reset]
    <3>. DEFINE wanted == thread[b].cs \in Resets
                pc == IF restartRequired[b] \/ wanted THEN "close" ELSE "off"
    <3>1. thread' = [thread EXCEPT ![b].pc = pc, ![b].reset = wanted]
      BY <2>3 DEF ResetWanted
    <3>2. thread' = [thread EXCEPT ![b] = [thread[b] EXCEPT !.pc = pc, !.reset = wanted]]
      <4>. HIDE DEF pc, wanted
      <4>. QED BY <1>0, <3>1, TwoResets
    <3>3. pc = "close" \/ (pc = "off" /\ thread[b].cs \notin Resets)
      OBVIOUS
    <3>. HIDE DEF pc, wanted
    <3>4. thread'[b].pc = pc /\ thread'[b].cs = thread[b].cs
      BY <1>0, <3>2 DEF Threads
    <3>. QED BY <1>g, <2>1, <3>3, <3>4
  <2>. QED BY <1>10, <2>2, <2>3 DEF AfterSequence
<1>11. CASE RestartClose(b)
  <2>1. /\ GoTo(b, "launch") /\ CloseBrowserManager(b)
        /\ UNCHANGED <<failureStatus, commandQueue>>
    BY <1>11 DEF RestartClose
  <2>2. proc'[b].state = "dead" /\ proc'[b].gen = proc[b].gen
    BY <1>0, <2>1, ProcessMoves DEF CloseBrowserManager, AnyCommand, Typed
  <2>3. thread'[b].pc = "launch" /\ thread'[b].cs = thread[b].cs
    BY <1>p, <2>1
  <2>4. OrderOK(b)'
    BY <1>0, <1>1, <1>2, <1>b, <2>1, <2>2, <2>3 DEF OrderOK, On
  <2>5. ResetOK(b)' /\ RestartOK(b)'
    BY <2>2, <2>3 DEF ResetOK, RestartOK
  <2>. QED BY <1>0, <1>f, <2>1, <2>2, <2>4, <2>5
<1>12. CASE LaunchSucceeds(b)
  <2>1. /\ GoTo(b, "launched") /\ FreshQueues(b)
        /\ proc' = [proc EXCEPT ![b].state = "idle", ![b].gen = @ + 1]
        /\ UNCHANGED failureStatus
    BY <1>12 DEF LaunchSucceeds
  <2>2. thread'[b].pc = "launched" /\ proc'[b].gen = proc[b].gen + 1 /\ commandQueue'[b] = <<>>
    BY <1>0, <1>p, <2>1 DEF FreshQueues, Processes
  <2>3. \A v \in CommandSequences : ~On(b, v)'
    BY <1>0, <1>1, <2>2 DEF On, ResetInv, GensOK
  <2>4. OrderOK(b)' /\ ResetOK(b)' /\ RestartOK(b)'
    BY <2>2, <2>3, ConstantsAssumption DEF OrderOK, ResetOK, RestartOK
  <2>. QED BY <1>0, <1>f, <2>1, <2>2, <2>4
<1>13. CASE LaunchFails(b)
  <2>1. /\ thread[b].pc = "launch" /\ GoTo(b, "off") /\ FreshQueues(b)
        /\ failureStatus' \in {"ExceedLaunchFailureLimit", failureStatus} /\ UNCHANGED proc
    BY <1>13 DEF LaunchFails
  <2>2. /\ thread'[b].pc = "off" /\ thread'[b].cs = thread[b].cs
        /\ proc[b].state = "dead" /\ commandQueue'[b] = <<>>
    BY <1>0, <1>b, <1>p, <2>1 DEF FreshQueues, RestartOK
  <2>3. \A v \in CommandSequences : On(b, v)' => On(b, v)
    BY <1>1, <2>1, <2>2 DEF On
  <2>4. OrderOK(b)'
    BY <1>0, <1>2, <1>b, <2>2, <2>3 DEF OrderOK
  <2>5. ResetOK(b)' /\ RestartOK(b)'
    BY <2>1, <2>2 DEF ResetOK, RestartOK
  <2>. QED BY <1>0, <1>f, <2>1, <2>4, <2>5
<1>14. CASE DumpRaises(b) \/ RestartDone(b)
  <2>1. /\ thread[b].pc \in {"launch", "launched"} /\ GoTo(b, "off")
        /\ UNCHANGED <<commandQueue, proc, failureStatus>>
    BY <1>14 DEF DumpRaises, RestartDone
  <2>2. thread[b].pc = "launched" \/ proc[b].state = "dead"
    BY <1>b, <2>1 DEF RestartOK
  <2>. QED BY <1>g, <1>p, <2>1, <2>2
<1>. QED BY <1>3, <1>4, <1>5, <1>6, <1>7, <1>8, <1>9, <1>10, <1>11, <1>12, <1>13, <1>14
         DEF ThreadNext

(* A command is taken by a process on which its visit may run: what came   *)
(* before it there did not ask for a reset, and if it did itself, nothing  *)
(* came after it.                                                          *)
LEMMA TakeCommandResets ==
  ASSUME Typed, ResetInv, NEW b \in Browsers, TakeCommand(b)
  PROVE  ResetInv'
<1>. USE DEF manager, handles, processes, controller, history
<1>. DEFINE command == Head(commandQueue[b])
            w == command.cs
<1>0. /\ proc \in [Browsers -> Processes]
      /\ commandQueue \in [Browsers -> Seq(Commands)]
      /\ ranOn \in [CommandSequences -> SUBSET (Browsers \X Nat)]
      /\ \A x \in Browsers : thread[x].cs \in CommandSequences \cup {NoSequence}
      /\ \A x \in Browsers : proc[x].gen \in Nat
  BY DEF Typed, HandlesTyped, Threads, ProcessesTyped, Processes, HistoryTyped
<1>1. /\ proc[b].state = "idle" /\ commandQueue[b] # <<>>
      /\ proc' = [proc EXCEPT ![b].state = "busy", ![b].command = command]
      /\ ranOn' = [ranOn EXCEPT ![w] = @ \cup {<<b, proc[b].gen>>}]
      /\ commandQueue' = [commandQueue EXCEPT ![b] = Tail(@)]
      /\ UNCHANGED <<main, closing, failureStatus, thread, issued>>
  BY DEF TakeCommand
<1>2. command \in Commands /\ w \in CommandSequences /\ On(b, w)
  <2>1. command = commandQueue[b][1] /\ 1 \in DOMAIN commandQueue[b] /\ command \in Commands
    BY <1>0, <1>1
  <2>. QED BY <2>1 DEF On, Commands
<1>. HIDE DEF command
<1>3. /\ \A x \in Browsers : proc'[x].gen = proc[x].gen
      /\ \A x \in Browsers : x # b => proc'[x] = proc[x]
  BY <1>1, <1>2, ProcessMoves DEF AnyCommand, Typed
<1>. HIDE DEF w
<1>4. \A v \in CommandSequences : ranOn'[v] =
        IF v = w THEN ranOn[v] \cup {<<b, proc[b].gen>>} ELSE ranOn[v]
  BY <1>0, <1>1, <1>2
<1>5. ASSUME NEW x \in Browsers, NEW v \in CommandSequences, On(x, v)' PROVE On(x, v)
  <2>1. CASE x = b
    <3>1. commandQueue'[b] = Tail(commandQueue[b])
      BY <1>0, <1>1
    <3>2. \A n \in DOMAIN Tail(commandQueue[b]) :
            n + 1 \in DOMAIN commandQueue[b] /\ Tail(commandQueue[b])[n] = commandQueue[b][n + 1]
      BY <1>0, <1>1
    <3>3. <<b, proc'[b].gen>> \in ranOn'[v] => On(b, v)
      BY <1>2, <1>3, <1>4 DEF On
    <3>. QED BY <1>5, <2>1, <3>1, <3>2, <3>3 DEF On
  <2>2. CASE x # b
    <3>1. commandQueue'[x] = commandQueue[x]
      BY <1>0, <1>1, <2>2
    <3>2. <<x, proc'[x].gen>> \in ranOn'[v] => <<x, proc[x].gen>> \in ranOn[v]
      <4>1. proc'[x].gen = proc[x].gen
        BY <1>3
      <4>2. <<x, proc[x].gen>> \notin {<<b, proc[b].gen>>}
        BY <2>2
      <4>3. ranOn'[v] \subseteq ranOn[v] \cup {<<b, proc[b].gen>>}
        BY <1>4
      <4>. QED BY <4>1, <4>2, <4>3
    <3>. QED BY <1>5, <3>1, <3>2 DEF On
  <2>. QED BY <2>1, <2>2
<1>6. \A u, v \in CommandSequences \cup {NoSequence} : Before(u, v) <=> Before(u, v)'
  BY <1>1 DEF Before
<1>7. Stopped => Stopped'
  BY <1>1 DEF Stopped
<1>8. ASSUME NEW x \in Browsers PROVE OrderOK(x)' /\ ResetOK(x)' /\ RestartOK(x)'
  <2>1. proc[x].state = "dead" => proc'[x].state = "dead"
    BY <1>1, <1>3
  <2>. QED BY <1>0, <1>1, <1>5, <1>6, <1>7, <2>1, BrowserFrames, ConstantsAssumption DEF ResetInv
<1>9. IssuedOK'
  BY <1>1 DEF ResetInv, IssuedOK
<1>10. GensOK'
  <2>1. ASSUME NEW v \in CommandSequences, NEW x \in Browsers, NEW g \in Nat,
               <<x, g>> \in ranOn'[v]
        PROVE  g <= proc'[x].gen
    <3>1. CASE <<x, g>> \in ranOn[v]
      BY <1>3, <3>1 DEF ResetInv, GensOK
    <3>2. CASE <<x, g>> = <<b, proc[b].gen>>
      BY <1>0, <1>3, <3>2
    <3>. QED BY <1>4, <2>1, <3>1, <3>2
  <2>. QED BY <2>1 DEF GensOK
<1>11. ASSUME NEW u \in Resets, NEW v \in CommandSequences, Before(u, v), On(b, u), On(b, v)
       PROVE  FALSE
  <2>1. thread[b].cs = u
    BY <1>1, <1>11 DEF ResetInv, ResetOK
  <2>2. v # u
    <3>1. PICK m, n \in DOMAIN issued : m < n /\ issued[m] = u /\ issued[n] = v
      BY <1>11 DEF Before
    <3>2. m \in Nat /\ n \in Nat
      BY <3>1 DEF Typed, HistoryTyped
    <3>. QED BY <3>1, <3>2 DEF ResetInv, IssuedOK
  <2>3. Before(v, u)
    BY <1>11, <2>1, <2>2 DEF ResetInv, OrderOK
  <2>4. PICK m, n \in DOMAIN issued : m < n /\ issued[m] = u /\ issued[n] = v
    BY <1>11 DEF Before
  <2>5. PICK k, l \in DOMAIN issued : k < l /\ issued[k] = v /\ issued[l] = u
    BY <2>3 DEF Before
  <2>6. k = n /\ l = m
    BY <2>4, <2>5 DEF ResetInv, IssuedOK
  <2>7. m \in Nat /\ n \in Nat
    BY <2>4 DEF Typed, HistoryTyped
  <2>. QED BY <2>4, <2>5, <2>6, <2>7
<1>12. IsolatedOK'
  <2>1. ASSUME NEW u \in Resets, NEW v \in CommandSequences, Before(u, v)',
               NEW p, p \in ranOn'[u], p \in ranOn'[v]
        PROVE  FALSE
    <3>1. u \in CommandSequences /\ Before(u, v)
      BY <1>6, <2>1, ConstantsAssumption
    <3>2. CASE p \in ranOn[u] /\ p \in ranOn[v]
      BY <3>1, <3>2 DEF ResetInv, IsolatedOK
    <3>3. CASE p = <<b, proc[b].gen>>
      <4>1. On(b, u) /\ On(b, v)
        BY <1>2, <1>4, <2>1, <3>1, <3>3 DEF On
      <4>. QED BY <1>11, <3>1, <4>1
    <3>. QED BY <1>4, <2>1, <3>1, <3>2, <3>3
  <2>. QED BY <2>1 DEF IsolatedOK
<1>13. QuietOK'
  BY <1>1 DEF ResetInv, QuietOK
<1>. QED BY <1>8, <1>9, <1>10, <1>12, <1>13 DEF ResetInv

LEMMA OtherResets ==
  ASSUME Typed, ResetInv,
         \/ StorageNext \/ CallbackNext
         \/ \E b \in Browsers : ProcessNext(b) \/ ExtensionFinalizes(b) \/ WatchdogFlags(b)
  PROVE  ResetInv'
<1>. USE DEF manager, handles, processes, controller, history
<1>1. ASSUME UNCHANGED <<main, closing, failureStatus, thread, commandQueue, proc, ranOn, issued>>
      PROVE  ResetInv'
  BY <1>1, QuietSteps DEF Stopped
<1>2. ASSUME NEW b \in Browsers, NEW outcome \in Outcomes, FinishCommand(b, outcome)
      PROVE  ResetInv'
  <2>1. /\ UNCHANGED <<main, closing, failureStatus, thread, commandQueue, ranOn, issued>>
        /\ proc[b].state = "busy"
    BY <1>2 DEF FinishCommand
  <2>2. /\ \A x \in Browsers : proc'[x].gen = proc[x].gen
        /\ \A x \in Browsers : x # b => proc'[x] = proc[x]
    BY <1>2, ProcessMoves DEF FinishCommand, AnyCommand, Typed
  <2>3. \A x \in Browsers : proc[x].state = "dead" => proc'[x].state = "dead"
    BY <2>1, <2>2
  <2>. QED BY <2>1, <2>2, <2>3, QuietSteps DEF Stopped
<1>3. ASSUME NEW b \in Browsers, ExtensionFinalizes(b) \/ WatchdogFlags(b) PROVE ResetInv'
  BY <1>1, <1>3 DEF ExtensionFinalizes, WatchdogFlags
<1>4. CASE StorageNext \/ CallbackNext
  BY <1>1, <1>4 DEF StorageNext, StorageReports, FeederReturns, StorageStops, CallbackNext,
                    CallbackThreadEnds, InvokeCallbacks
<1>. QED BY <1>2, <1>3, <1>4, TakeCommandResets DEF ProcessNext

LEMMA MainResets ==
  ASSUME Typed, VisitsInv, ResetInv, UserNext \/ MainNext
  PROVE  ResetInv'
<1>. USE DEF manager, handles, processes, controller, history
<1>0. /\ main \in Mains /\ thread \in [Browsers -> Threads] /\ proc \in [Browsers -> Processes]
      /\ issued \in Seq(CommandSequences)
      /\ \A x \in Browsers : thread[x].cs \in CommandSequences \cup {NoSequence}
      /\ \A x \in Browsers : proc[x].gen \in Nat
  BY DEF Typed, ManagerTyped, HandlesTyped, Threads, ProcessesTyped, Processes, HistoryTyped
<1>1. UNCHANGED <<ranOn, commandQueue, failureStatus>>
  BY DEF UserNext, MainNext, ExecuteCommandSequence, Close, Construct, ConstructionFails,
         StartThread, JoinBlocking, ShutdownBrowser, ShutdownStorage, JoinStorage,
         JoinCallbackThread
<1>g. ASSUME UNCHANGED <<thread, issued, proc>>, main'.pc \notin {"pick", "construct"}, closing => closing'
      PROVE  ResetInv'
  BY <1>1, <1>g, QuietSteps DEF Stopped
<1>m. ASSUME NEW pc, pc \notin {"pick", "construct"}, main' = [main EXCEPT !.pc = pc]
      PROVE  main'.pc \notin {"pick", "construct"}
  BY <1>0, <1>m DEF Mains
<1>b. ASSUME NEW relaxed, BeginShutdown(relaxed)
      PROVE  main'.pc \notin {"pick", "construct"} /\ closing'
  BY <1>0, <1>b DEF BeginShutdown, Mains
(* Only what was issued can be on a browser.                               *)
<1>u. ASSUME NEW v \in CommandSequences, Unused(v), NEW b \in Browsers PROVE ~On(b, v)
  BY <1>u DEF Unused, Holds, On
<1>2. ASSUME NEW cs \in CommandSequences, ExecuteCommandSequence(cs) PROVE ResetInv'
  <2>1. /\ main'.pc = "pick" /\ main'.cs = cs /\ cs \notin Range(issued)
        /\ issued' = Append(issued, cs)
        /\ UNCHANGED <<closing, thread, proc>>
    BY <1>0, <1>2 DEF ExecuteCommandSequence, Mains
  <2>2. /\ DOMAIN issued' = DOMAIN issued \cup {Len(issued) + 1} /\ Len(issued) \in Nat
        /\ issued'[Len(issued) + 1] = cs
        /\ \A n \in DOMAIN issued : issued'[n] = issued[n] /\ n \in Nat /\ n <= Len(issued)
        /\ Len(issued') = Len(issued) + 1 /\ issued' # <<>>
    BY <1>0, <2>1
  <2>3. \A n \in DOMAIN issued : issued[n] # cs
    BY <2>1 DEF Range
  <2>4. IssuedOK'
    BY <2>1, <2>2, <2>3 DEF ResetInv, IssuedOK
  <2>5. \A u, v \in CommandSequences \cup {NoSequence} :
          /\ Before(u, v) => Before(u, v)'
          /\ Before(u, v)' => Before(u, v) \/ v = cs
    BY <2>2 DEF Before
  <2>6. ranOn[cs] = {}
    BY <2>1 DEF VisitsInv, UnusedOK, Unused
  <2>7. IsolatedOK'
    BY <1>1, <2>5, <2>6, ConstantsAssumption DEF ResetInv, IsolatedOK
  <2>8. GensOK'
    BY <1>1, <2>1 DEF ResetInv, GensOK
  <2>9. ASSUME NEW x \in Browsers PROVE OrderOK(x)' /\ ResetOK(x)' /\ RestartOK(x)'
    <3>1. \A v \in CommandSequences : On(x, v)' => On(x, v)
      BY <1>1, <2>1 DEF On
    <3>2. Stopped => Stopped'
      BY <1>1, <2>1 DEF Stopped
    <3>. QED BY <1>0, <2>1, <2>5, <3>1, <3>2, BrowserFrames, ConstantsAssumption DEF ResetInv
  <2>10. QuietOK'
    BY <2>1 DEF QuietOK
  <2>. QED BY <2>4, <2>7, <2>8, <2>9, <2>10 DEF ResetInv
<1>3. ASSUME NEW relaxed \in BOOLEAN, Close(relaxed) PROVE ResetInv'
  BY <1>b, <1>g, <1>3 DEF Close
<1>4. ASSUME NEW b \in Browsers, Construct(b) PROVE ResetInv'
  <2>1. /\ main.pc = "construct" /\ main'.pc # "pick"
        /\ proc' = [proc EXCEPT ![b].state = "idle", ![b].gen = 1]
        /\ UNCHANGED <<closing, thread, issued>>
    BY <1>0, <1>4 DEF Construct, Launching, Mains
  <2>2. \A v \in CommandSequences : Unused(v)
    BY <2>1 DEF VisitsInv, UnusedOK
  <2>3. /\ \A v \in CommandSequences : ranOn[v] = {}
        /\ \A x \in Browsers : \A v \in CommandSequences : ~On(x, v)'
    BY <1>1, <2>2 DEF Unused, Holds, On
  <2>4. proc'[b].state = "idle" /\ \A x \in Browsers : x # b => proc'[x] = proc[x]
    BY <1>0, <2>1 DEF Processes
  <2>5. ASSUME NEW x \in Browsers PROVE OrderOK(x)' /\ ResetOK(x)' /\ RestartOK(x)'
    <3>1. OrderOK(x)' /\ ResetOK(x)'
      BY <2>3, ConstantsAssumption DEF OrderOK, ResetOK
    <3>2. Stopped => Stopped'
      BY <1>1, <2>1 DEF Stopped
    <3>3. thread[x].pc # "launch"
      BY <2>1 DEF ResetInv, QuietOK
    <3>4. RestartOK(x)'
      BY <2>1, <3>2, <3>3 DEF ResetInv, RestartOK
    <3>. QED BY <3>1, <3>4
  <2>6. IssuedOK' /\ GensOK' /\ IsolatedOK' /\ QuietOK'
    BY <1>1, <2>1, <2>3 DEF ResetInv, IssuedOK, GensOK, IsolatedOK, QuietOK
  <2>. QED BY <2>5, <2>6 DEF ResetInv
<1>5. ASSUME NEW b \in Browsers, ConstructionFails(b) PROVE ResetInv'
  <2>1. PICK how \in {"gaveUp", "raised"} :
          main' = [main EXCEPT !.pc = "shutdown", !.browser = 1, !.init = how]
    BY <1>5 DEF ConstructionFails
  <2>2. main'.pc \notin {"pick", "construct"}
    BY <1>0, <2>1 DEF Mains
  <2>. QED BY <1>g, <1>5, <2>2 DEF ConstructionFails
<1>6. ASSUME NEW b \in Browsers, StartThread(b) PROVE ResetInv'
  <2>1. /\ main.pc = "pick" /\ main.cs \in CommandSequences /\ thread[b].pc = "off"
        /\ UNCHANGED <<proc, issued>>
    BY <1>6 DEF StartThread, Available, Ready, Typed, ManagerTyped
  <2>2. CASE closing
    BY <1>g, <1>m, <1>6, <2>2 DEF StartThread
  <2>3. CASE ~closing /\ failureStatus # "none"
    BY <1>b, <1>g, <1>6, <2>3 DEF StartThread
  <2>4. CASE ~closing /\ failureStatus = "none"
    <3>. DEFINE new == [NoThread EXCEPT !.pc = "start", !.cs = main.cs]
    <3>1. thread' = [thread EXCEPT ![b] = new] /\ main'.pc \notin {"pick", "construct"}
          /\ UNCHANGED closing
      BY <1>0, <1>6, <2>4 DEF StartThread, Mains
    <3>2. new.pc = "start" /\ new.cs = main.cs
      BY DEF NoThread
    <3>. HIDE DEF new
    <3>3. thread'[b].pc = "start" /\ thread'[b].cs = main.cs
          /\ \A x \in Browsers : x # b => thread'[x] = thread[x]
      BY <1>0, <3>1, <3>2
    <3>4. \A x \in Browsers : \A v \in CommandSequences : On(x, v)' <=> On(x, v)
      BY <1>1, <2>1 DEF On
    <3>5. ASSUME NEW v \in CommandSequences, v # main.cs, On(b, v) PROVE Before(v, main.cs)
      <4>1. v \in Range(issued)
        BY <1>u, <3>5 DEF VisitsInv, UnusedOK
      <4>2. PICK m \in DOMAIN issued : issued[m] = v
        BY <4>1 DEF Range
      <4>3. main.cs = issued[Len(issued)] /\ issued # <<>>
        BY <2>1 DEF ResetInv, IssuedOK
      <4>4. Len(issued) \in DOMAIN issued /\ m <= Len(issued) /\ m \in Nat /\ Len(issued) \in Nat
        BY <1>0, <4>2, <4>3
      <4>5. m < Len(issued)
        BY <3>5, <4>2, <4>3, <4>4
      <4>. QED BY <4>2, <4>3, <4>4, <4>5 DEF Before
    <3>6. \A u, v \in CommandSequences \cup {NoSequence} : Before(u, v) => Before(u, v)'
      BY <2>1 DEF Before
    <3>7. OrderOK(b)'
      BY <2>1, <3>3, <3>4, <3>5, <3>6 DEF OrderOK
    <3>8. ResetOK(b)'
      <4>1. ~Stopped
        BY <2>4 DEF Stopped
      <4>2. \A u \in Resets : ~(On(b, u) /\ proc[b].state # "dead")
        BY <2>1, <4>1 DEF ResetInv, ResetOK
      <4>. QED BY <2>1, <3>4, <4>2, ConstantsAssumption DEF ResetOK
    <3>9. RestartOK(b)'
      BY <3>3 DEF RestartOK
    <3>10. ASSUME NEW x \in Browsers, x # b PROVE OrderOK(x)' /\ ResetOK(x)' /\ RestartOK(x)'
      <4>1. Stopped => Stopped'
        BY <1>1, <3>1 DEF Stopped
      <4>. QED BY <1>0, <2>1, <3>3, <3>4, <3>6, <3>10, <4>1, BrowserFrames, ConstantsAssumption
               DEF ResetInv
    <3>11. \A x \in Browsers : proc[x].gen <= proc'[x].gen /\ proc'[x].gen \in Nat
      BY <1>0, <2>1
    <3>. QED BY <1>1, <2>1, <3>1, <3>7, <3>8, <3>9, <3>10, <3>11, ResetFrames
  <2>. QED BY <2>2, <2>3, <2>4
<1>7. CASE JoinBlocking
  <2>1. main'.pc \notin {"pick", "construct"} /\ (closing => closing')
    BY <1>b, <1>m, <1>7 DEF JoinBlocking
  <2>. QED BY <1>g, <1>7, <2>1 DEF JoinBlocking
<1>8. CASE ShutdownBrowser
  <2>1. /\ main.browser \in Browsers /\ CloseBrowserManager(main.browser)
        /\ UNCHANGED <<closing, thread, issued>>
    BY <1>8 DEF ShutdownBrowser
  <2>2. main'.pc \notin {"pick", "construct"}
    BY <1>0, <1>8 DEF ShutdownBrowser, Mains
  <2>3. /\ \A x \in Browsers : proc'[x].gen = proc[x].gen
        /\ \A x \in Browsers : proc[x].state = "dead" => proc'[x].state = "dead"
    BY <2>1, ProcessMoves DEF CloseBrowserManager, AnyCommand, Typed
  <2>. QED BY <1>1, <2>1, <2>2, <2>3, QuietSteps DEF Stopped
<1>9. CASE ShutdownStorage \/ JoinCallbackThread
  BY <1>g, <1>m, <1>9 DEF ShutdownStorage, JoinCallbackThread
<1>10. CASE JoinStorage
  <2>. DEFINE pc == IF main.init = "done" THEN "joinCallbacks" ELSE "raised"
  <2>1. main' = [main EXCEPT !.pc = pc] /\ pc \notin {"pick", "construct"}
    BY <1>10 DEF JoinStorage
  <2>. HIDE DEF pc
  <2>. QED BY <1>g, <1>m, <1>10, <2>1 DEF JoinStorage
<1>. QED BY <1>2, <1>3, <1>4, <1>5, <1>6, <1>7, <1>8, <1>9, <1>10 DEF UserNext, MainNext

LEMMA StutterResets == Typed /\ ResetInv /\ UNCHANGED vars => ResetInv'
  BY QuietSteps DEF Stopped, vars, manager, handles, processes, controller, history

(* Without a limit on the size of profiles, a reset is honoured: whatever  *)
(* the failures, no later visit runs in a browser process that a sequence  *)
(* with a reset ran in.                                                    *)
THEOREM ResetsAreHonoured ==
  ASSUME ~ProfileLimited
  PROVE  Spec => []ResetIsolatesVisits
<1>1. Typed /\ ShutdownInv /\ VisitsInv /\ ResetInv /\ [Next]_vars => ResetInv'
  BY MainResets, ThreadResets, OtherResets, StutterResets DEF Next
<1>2. Typed /\ ResetInv => ResetIsolatesVisits
  <2>. SUFFICES ASSUME Typed, ResetInv, NEW m \in DOMAIN issued, NEW n \in DOMAIN issued,
                       m < n, issued[m] \in Resets
                PROVE  ranOn[issued[m]] \cap ranOn[issued[n]] = {}
    BY DEF ResetIsolatesVisits
  <2>1. issued[n] \in CommandSequences
    BY DEF Typed, HistoryTyped
  <2>2. Before(issued[m], issued[n])
    BY DEF Before
  <2>. QED BY <2>1, <2>2 DEF ResetInv, IsolatedOK
<1>. QED BY <1>1, <1>2, InitResets, StateIsWellFormed, ShutdownIsOrderly,
            VisitsStayWithTheirBrowser, PTL DEF Spec
=============================================================================
