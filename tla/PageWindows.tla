---------------------------- MODULE PageWindows ----------------------------
(***************************************************************************)
(* The windows of one browser while the commands Initialize, Get or        *)
(* Browse, and Finalize of visit after visit are executed                  *)
(* (browser_commands.py), one WebDriver command a step.  Pages open and    *)
(* close windows meanwhile, and the extension takes the visit of its       *)
(* records from the messages it has handled.                               *)
(***************************************************************************)
EXTENDS Integers, Sequences, FiniteSets, Functions

CONSTANTS
    Visits,         \* the number of visits, which are 1 .. Visits
    Handles,        \* bound: windows that are ever opened, 1 .. Handles
    PagesLeave,     \* whether the page of a visit may navigate to about:blank; popups may
    PagesArriveLate \* whether a page Get gave up waiting for may come when Finalize is past it

VARIABLES
    windows,        \* handle -> visit of the page in the window, Blank for about:blank
    opened,         \* windows opened so far
    driver,         \* the window the driver is switched to
    visit,          \* the visit whose commands are executed
    command,        \* the command, or "none" between two visits
    step,           \* what it does next
    loaded,         \* whether Get has loaded its page
    coming,         \* the page Get gave up waiting for, and its window, or NoneComing
    main_handle,    \* the window of the visit, main_handle of close_other_windows
    others,         \* window_handles but for the main handle, not yet closed
    inbox,          \* messages on the socket to the extension
    session         \* visitID of the extension
vars ==
    <<windows, opened, driver, visit, command, step, loaded, coming, main_handle, others, inbox, session>>

Blank == 0
None == 0
NoneComing == [window |-> None, page |-> Blank]

(* The windows of a new browser, and what opening and closing one make.    *)
Alone(w) == [x \in {w} |-> Blank]
With(w, page) == [x \in DOMAIN windows \cup {w} |-> IF x = w THEN page ELSE windows[x]]
Without(w) == Restrict(windows, DOMAIN windows \ {w})

(* A WebDriver command in a window that is gone raises.                    *)
Works == driver \in DOMAIN windows

Init ==
    /\ windows = Alone(1) /\ opened = 1 /\ driver = 1 /\ main_handle = 1 /\ others = {}
    /\ visit = 0 /\ command = "none" /\ step = "none" /\ loaded = FALSE /\ coming = NoneComing
    /\ inbox = <<>> /\ session = None

-----------------------------------------------------------------------------
InitializeCommand ==
    /\ command = "none" /\ visit < Visits
    /\ visit' = visit + 1 /\ inbox' = Append(inbox, <<"Initialize", visit'>>)
    /\ command' \in {"Get", "Browse"} /\ step' = "list" /\ loaded' = FALSE
    /\ UNCHANGED <<windows, opened, driver, coming, main_handle, others, session>>

(* close_other_windows is how tab_restart_browser begins and how Get ends. *)
Closed == IF loaded THEN "loaded" ELSE "url"

ListWindows ==
    /\ step = "list" /\ Works
    /\ main_handle' = driver /\ others' = DOMAIN windows \ {driver}
    /\ step' = IF others' = {} THEN Closed ELSE "close"
    /\ UNCHANGED <<windows, opened, driver, visit, command, loaded, coming, inbox, session>>
CloseOther ==
    /\ step = "close"
    /\ \E w \in others \cap DOMAIN windows :
         windows' = Without(w) /\ driver' = w /\ others' = others \ {w}
    /\ UNCHANGED <<opened, visit, command, step, loaded, coming, main_handle, inbox, session>>
SwitchBack ==
    /\ step = "close" /\ others = {} /\ main_handle \in DOMAIN windows
    /\ driver' = main_handle /\ step' = Closed
    /\ UNCHANGED <<windows, opened, visit, command, loaded, coming, main_handle, others,
                   inbox, session>>

(* The rest of tab_restart_browser: nothing for a blank page, or a new     *)
(* window, the old one closed, and no other window left.                   *)
Restarted == IF command = "Finalize" THEN "send" ELSE "set"
CheckUrl ==
    /\ step = "url" /\ Works
    /\ step' = IF windows[driver] = Blank THEN Restarted ELSE "open"
    /\ UNCHANGED <<windows, opened, driver, visit, command, loaded, coming, main_handle,
                   others, inbox, session>>
OpenNew ==
    /\ step = "open" /\ Works /\ opened < Handles
    /\ opened' = opened + 1 /\ windows' = With(opened', Blank)
    /\ step' = "old"
    /\ UNCHANGED <<driver, visit, command, loaded, coming, main_handle, others, inbox, session>>
CloseOld ==
    /\ step = "old" /\ Works
    /\ windows' = Without(driver) /\ step' = "assert"
    /\ UNCHANGED <<opened, driver, visit, command, loaded, coming, main_handle, others, inbox,
                   session>>
SwitchToNew ==
    /\ step = "assert" /\ Cardinality(DOMAIN windows) = 1
    /\ driver' \in DOMAIN windows /\ step' = Restarted
    /\ UNCHANGED <<windows, opened, visit, command, loaded, coming, main_handle, others,
                   inbox, session>>

(* Get: the extension is told the visit, and has handled what it was told  *)
(* before the page is there.  The page is loaded, or Get gives up waiting  *)
(* for it, and then it is still coming.                                    *)
SendVisit ==
    /\ step = "set"
    /\ inbox' = Append(inbox, <<"Set", visit>>) /\ step' = "get"
    /\ UNCHANGED <<windows, opened, driver, visit, command, loaded, coming, main_handle,
                   others, session>>
LoadPage ==
    /\ step = "get" /\ Works /\ inbox = <<>>
    /\ \/ windows' = [windows EXCEPT ![driver] = visit] /\ coming' = NoneComing
       \/ coming' = [window |-> driver, page |-> visit] /\ UNCHANGED windows
    /\ loaded' = TRUE /\ main_handle' = driver /\ step' = "list"
    /\ UNCHANGED <<opened, driver, visit, command, others, inbox, session>>

(* Browse: links of the site are clicked, and the driver goes back; errors *)
(* are logged, but for those of looking for links.                         *)
FollowLinks ==
    /\ step = "loaded" /\ command = "Browse" /\ Works
    /\ command' = "Get"
    /\ UNCHANGED <<windows, opened, driver, visit, step, loaded, coming, main_handle, others,
                   inbox, session>>

(* The command is answered, the next is Finalize.                          *)
(* Seeded bug: Finalize does not restart the tab.                          *)
FinalizeAtOnce ==
    /\ step = "loaded" /\ command = "Get"
    /\ command' = "Finalize" /\ step' = "send" /\ loaded' = FALSE
    /\ UNCHANGED <<windows, opened, driver, visit, coming, main_handle, others, inbox, session>>
BeginFinalize ==
    /\ step = "loaded" /\ command = "Get"
    /\ command' = "Finalize" /\ step' = "list" /\ loaded' = FALSE
    /\ UNCHANGED <<windows, opened, driver, visit, coming, main_handle, others, inbox, session>>
SendFinalize ==
    /\ step = "send"
    /\ inbox' = Append(inbox, <<"Finalize", visit>>)
    /\ command' = "none" /\ step' = "none"
    /\ UNCHANGED <<windows, opened, driver, visit, loaded, coming, main_handle, others, session>>

(* A command that raises is the last of its visit; the browser is          *)
(* restarted.                                                              *)
Raises ==
    \/ step \in {"list", "url", "open", "old", "get"} /\ ~Works
    \/ step = "close" /\ others \ DOMAIN windows # {}
    \/ step = "close" /\ others = {} /\ main_handle \notin DOMAIN windows
    \/ step = "assert" /\ Cardinality(DOMAIN windows) # 1
    \/ step = "get"                                             \* an error page
    \/ step = "loaded" /\ command = "Browse" /\ ~Works
Restart ==
    /\ Raises /\ opened < Handles
    /\ opened' = opened + 1 /\ windows' = Alone(opened') /\ driver' = opened'
    /\ command' = "none" /\ step' = "none" /\ others' = {} /\ inbox' = <<>> /\ session' = None
    /\ coming' = NoneComing
    /\ UNCHANGED <<visit, loaded, main_handle>>

-----------------------------------------------------------------------------
(* The page Get gave up waiting for comes.  In time is before Finalize     *)
(* finds the window blank, which is why it keeps the window.               *)
InTime ==
    \/ loaded /\ step \in {"list", "close", "loaded"}
    \/ command = "Finalize" /\ step \in {"list", "close", "url"}
PageArrives ==
    /\ coming.window \in DOMAIN windows /\ windows[coming.window] = Blank
    /\ InTime \/ PagesArriveLate
    /\ windows' = [windows EXCEPT ![coming.window] = coming.page] /\ coming' = NoneComing
    /\ UNCHANGED <<opened, driver, visit, command, step, loaded, main_handle, others, inbox,
                   session>>

(* What pages do: open a window, close their own, leave it blank.          *)
OpenPopup ==
    /\ opened < Handles
    /\ \E w \in DOMAIN windows :
         windows[w] # Blank /\ windows' = With(opened + 1, windows[w])
    /\ opened' = opened + 1
    /\ UNCHANGED <<driver, visit, command, step, loaded, coming, main_handle, others, inbox,
                   session>>
ClosePage ==
    /\ \E w \in DOMAIN windows : windows[w] # Blank /\ windows' = Without(w)
    /\ UNCHANGED <<opened, driver, visit, command, step, loaded, coming, main_handle, others,
                   inbox, session>>
LeavePage ==
    /\ \E w \in DOMAIN windows :
         /\ windows[w] # Blank /\ (PagesLeave \/ w # main_handle)
         /\ windows' = [windows EXCEPT ![w] = Blank]
    /\ UNCHANGED <<opened, driver, visit, command, step, loaded, coming, main_handle, others,
                   inbox, session>>

(* The extension handles a message (loggingdb.ts).                         *)
HandleMessage ==
    /\ inbox # <<>>
    /\ session' = IF Head(inbox)[1] = "Finalize" THEN None ELSE Head(inbox)[2]
    /\ inbox' = Tail(inbox)
    /\ UNCHANGED <<windows, opened, driver, visit, command, step, loaded, coming, main_handle,
                   others>>

CommandNext ==
    \/ InitializeCommand \/ ListWindows \/ CloseOther \/ SwitchBack \/ CheckUrl \/ OpenNew \/ CloseOld
    \/ SwitchToNew \/ SendVisit \/ LoadPage \/ FollowLinks \/ BeginFinalize \/ SendFinalize \/ Restart
Next == CommandNext \/ PageArrives \/ OpenPopup \/ ClosePage \/ LeavePage \/ HandleMessage
Spec == Init /\ [][Next]_vars

-----------------------------------------------------------------------------
(* Every variable keeps its type; the main window is none of the others.   *)
TypeOK ==
    /\ DOMAIN windows \subseteq 1 .. opened /\ Range(windows) \subseteq 0 .. Visits
    /\ opened \in 1 .. Handles /\ driver \in 1 .. opened /\ visit \in 0 .. Visits
    /\ command \in {"none", "Get", "Browse", "Finalize"} /\ loaded \in BOOLEAN
    /\ step \in {"none", "list", "close", "url", "open", "old", "assert", "set", "get", "loaded", "send"}
    /\ main_handle \in 1 .. opened /\ others \subseteq 1 .. opened \ {main_handle}
    /\ session \in 0 .. visit /\ coming \in [window : 0 .. opened, page : 0 .. visit]

(* A page is open only while the extension's session is that of its visit: *)
(* no popup lives on into the next visit or past the end of its own, and   *)
(* none of its requests is recorded for another (GetCommand,               *)
(* FinalizeCommand).                                                       *)
PagesAreOfTheSession == \A w \in DOMAIN windows : windows[w] # Blank => session = windows[w]

(* tab_restart_browser "creates a new one to stop traffic": when it has    *)
(* returned, no page is open in any window.                                *)
TrafficIsStopped ==
    step \in {"set", "send"} => \A w \in DOMAIN windows : windows[w] = Blank

(* When Get has returned, the driver is in the window in which it loaded   *)
(* the page, and not in one of those it closed, so that the commands that  *)
(* follow act on that page (close_other_windows).                          *)
DriverIsOnThePage == step = "loaded" => driver = main_handle
=============================================================================
