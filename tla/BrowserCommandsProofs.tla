----------------------- MODULE BrowserCommandsProofs -----------------------
(***************************************************************************)
(* The windows, the frames and the screenshots of a browser, each for any  *)
(* constants: what PageWindows, PageFrames and PageScreens keep in all     *)
(* their behaviours.                                                       *)
(***************************************************************************)
EXTENDS PageWindows, PageFrames, PageScreens, FiniteSetTheorems, WellFoundedInduction, TLAPS

-----------------------------------------------------------------------------
(* The windows.  A page may only be open between LoadPage and the end of   *)
(* the restart of the tab in Finalize, and that restart is exact because   *)
(* the window of the visit stays the one the driver is in.                 *)

(* No page is open.                                                        *)
Quiet == \A w \in DOMAIN windows : windows[w] = Blank

(* The page of the visit was loaded, and Finalize has not restarted the    *)
(* tab yet.                                                                *)
PageTime ==
    \/ loaded /\ step \in {"list", "close", "loaded"}
    \/ command = "Finalize" /\ step \in {"list", "close", "url", "open", "old", "assert"}

(* Types, and which steps belong to a command and to a loaded page.        *)
Message == {"Initialize", "Set", "Finalize"} \X Nat
Typed ==
    /\ windows \in [DOMAIN windows -> Nat] /\ DOMAIN windows \subseteq 1 .. opened
    /\ opened \in Nat /\ driver \in 1 .. opened /\ main_handle \in 1 .. opened
    /\ visit \in Nat /\ inbox \in Seq(Message)
    /\ loaded \in BOOLEAN /\ (command = "none" <=> step = "none") /\ (step # "none" => visit > 0)
    /\ step = "loaded" => loaded
    /\ coming \in [window : Nat, page : Nat]

(* Pages are open at their time only, in the session of their visit.       *)
PagesOK ==
    /\ PageTime \/ Quiet
    /\ PageTime => /\ inbox = <<>> /\ session = visit
                   /\ \A w \in DOMAIN windows : windows[w] \in {Blank, visit}

(* If there are pages, the window of the visit has its page or is gone.    *)
MainOK ==
    PageTime /\ step # "assert" /\ ~Quiet /\ main_handle \in DOMAIN windows =>
      windows[main_handle] = visit

(* The driver is in the window of the visit, but while it closes others.   *)
DriverOK == PageTime /\ step \notin {"close", "assert"} => driver = main_handle

(* The window that the restart of the tab has opened is there.             *)
NewOK ==
    /\ step = "old" => \E w \in DOMAIN windows \ {driver} : windows[w] = Blank
    /\ step = "assert" => \E w \in DOMAIN windows : windows[w] = Blank

(* The last message to the extension before a page is loaded is its visit. *)
SetOK ==
    step = "get" =>
      IF inbox = <<>> THEN session = visit ELSE inbox[Len(inbox)] = <<"Set", visit>>

(* At a page's time, the page that is still coming is that of the visit,   *)
(* and it comes to the window of the visit.                                *)
ComingOK ==
    PageTime /\ coming.window # None => coming.window = main_handle /\ coming.page = visit

WindowsInv == Typed /\ PagesOK /\ MainOK /\ DriverOK /\ NewOK /\ SetOK /\ ComingOK

-----------------------------------------------------------------------------
(* What the operators on windows return.                                   *)
LEMMA WithoutWindow ==
  ASSUME NEW w, windows \in [DOMAIN windows -> Nat]
  PROVE  /\ Without(w) \in [DOMAIN windows \ {w} -> Nat]
         /\ DOMAIN Without(w) = DOMAIN windows \ {w}
         /\ \A x \in DOMAIN windows \ {w} : Without(w)[x] = windows[x]
  BY DEF Without, Restrict

LEMMA WithWindow ==
  ASSUME NEW h \in Nat, NEW v \in Nat, windows \in [DOMAIN windows -> Nat], h \notin DOMAIN windows
  PROVE  /\ With(h, v) \in [DOMAIN windows \cup {h} -> Nat]
         /\ DOMAIN With(h, v) = DOMAIN windows \cup {h}
         /\ \A x \in DOMAIN windows : With(h, v)[x] = windows[x]
         /\ With(h, v)[h] = v
  BY DEF With

LEMMA OneWindow ==
  ASSUME NEW h \in Nat
  PROVE  /\ Alone(h) \in [{h} -> Nat] /\ DOMAIN Alone(h) = {h} /\ Alone(h)[h] = Blank
  BY DEF Alone, Blank

-----------------------------------------------------------------------------
LEMMA InitInv == Init => WindowsInv
<1> SUFFICES ASSUME Init PROVE WindowsInv
  OBVIOUS
<1>1. DOMAIN windows = {1} /\ windows \in [{1} -> Nat] /\ windows[1] = Blank
  BY OneWindow DEF Init
<1>2. Quiet
  BY <1>1 DEF Quiet
<1>3. Typed /\ step = "none" /\ command = "none"
  <2>1. windows \in [DOMAIN windows -> Nat] /\ DOMAIN windows \subseteq 1 .. opened /\ inbox \in Seq(Message)
    BY <1>1 DEF Init
  <2>2. opened \in Nat /\ driver \in 1 .. opened /\ main_handle \in 1 .. opened /\ visit \in Nat
    BY DEF Init
  <2> QED
    BY <2>1, <2>2 DEF Init, Typed, NoneComing, None, Blank
<1> QED
  BY <1>2, <1>3 DEF WindowsInv, PagesOK, PageTime, MainOK, DriverOK, NewOK, SetOK, ComingOK

-----------------------------------------------------------------------------
(* Where no page is open, nothing but the types is to be shown.            *)
LEMMA QuietSuffices ==
  ASSUME Typed, Quiet, ~PageTime, NewOK, SetOK
  PROVE  WindowsInv
BY DEF WindowsInv, PagesOK, MainOK, DriverOK, ComingOK

LEMMA InitializeInv == ASSUME WindowsInv, InitializeCommand PROVE WindowsInv'
<1>1. Typed'
  <2>1. visit' \in Nat /\ visit' > 0
    BY DEF WindowsInv, InitializeCommand, Typed
  <2>2. inbox' \in Seq(Message)
    BY <2>1 DEF WindowsInv, InitializeCommand, Typed, Message
  <2> QED
    BY <2>1, <2>2 DEF WindowsInv, InitializeCommand, Typed
<1>2. ~PageTime' /\ Quiet'
  BY DEF WindowsInv, InitializeCommand, Typed, PageTime, PagesOK, Quiet
<1>3. NewOK' /\ SetOK'
  BY DEF InitializeCommand, NewOK, SetOK
<1> QED
  BY <1>1, <1>2, <1>3, QuietSuffices DEF WindowsInv, PagesOK, MainOK, DriverOK, ComingOK

LEMMA ListInv == ASSUME WindowsInv, ListWindows PROVE WindowsInv'
<1>1. Typed'
  BY DEF WindowsInv, ListWindows, Typed, Closed, Works
<1>2. PageTime' = PageTime /\ Quiet' = Quiet
  BY DEF WindowsInv, ListWindows, Typed, PageTime, Quiet, Closed
<1>3. PagesOK'
  BY <1>2 DEF WindowsInv, ListWindows, PagesOK
<1>4. MainOK' /\ DriverOK'
  BY <1>2 DEF WindowsInv, ListWindows, PagesOK, MainOK, DriverOK, Quiet
<1>5. NewOK' /\ SetOK'
  BY DEF ListWindows, NewOK, SetOK, Closed
<1>6. ComingOK'
  BY <1>2 DEF WindowsInv, ListWindows, ComingOK, DriverOK, PageTime
<1> QED
  BY <1>1, <1>3, <1>4, <1>5, <1>6 DEF WindowsInv

LEMMA CloseOtherInv == ASSUME WindowsInv, CloseOther PROVE WindowsInv'
<1> PICK w \in others \cap DOMAIN windows :
      windows' = Without(w) /\ driver' = w /\ others' = others \ {w}
  BY DEF CloseOther
<1>1. /\ DOMAIN windows' = DOMAIN windows \ {w}
      /\ windows' \in [DOMAIN windows' -> Nat]
      /\ \A x \in DOMAIN windows' : windows'[x] = windows[x]
  BY WithoutWindow DEF WindowsInv, Typed
<1>2. Typed'
  BY <1>1 DEF WindowsInv, CloseOther, Typed
<1>3. PageTime' = PageTime
  BY DEF CloseOther, PageTime
<1>4. Quiet => Quiet'
  BY <1>1 DEF Quiet
<1>5. PagesOK'
  BY <1>1, <1>3, <1>4 DEF WindowsInv, CloseOther, PagesOK
<1>6. MainOK' /\ DriverOK'
  BY <1>1, <1>3, <1>4 DEF WindowsInv, CloseOther, MainOK, DriverOK
<1>7. NewOK' /\ SetOK'
  BY DEF CloseOther, NewOK, SetOK
<1>8. ComingOK'
  BY <1>3 DEF WindowsInv, CloseOther, ComingOK
<1> QED
  BY <1>2, <1>5, <1>6, <1>7, <1>8 DEF WindowsInv

LEMMA SwitchBackInv == ASSUME WindowsInv, SwitchBack PROVE WindowsInv'
<1>1. Typed'
  BY DEF WindowsInv, SwitchBack, Typed, Closed
<1>2. PageTime' = PageTime /\ Quiet' = Quiet
  BY DEF WindowsInv, SwitchBack, Typed, PageTime, Quiet, Closed
<1>3. PagesOK'
  BY <1>2 DEF WindowsInv, SwitchBack, PagesOK
<1>4. MainOK' /\ DriverOK'
  BY <1>2 DEF WindowsInv, SwitchBack, MainOK, DriverOK
<1>5. NewOK' /\ SetOK'
  BY DEF SwitchBack, NewOK, SetOK, Closed
<1>6. ComingOK'
  BY <1>2 DEF WindowsInv, SwitchBack, ComingOK
<1> QED
  BY <1>1, <1>3, <1>4, <1>5, <1>6 DEF WindowsInv

(* A blank page in the window of the visit: there is no page at all.       *)
LEMMA CheckUrlInv == ASSUME WindowsInv, CheckUrl PROVE WindowsInv'
<1>1. Typed'
  BY DEF WindowsInv, CheckUrl, Typed, Restarted
<1>2. CASE windows[driver] = Blank
  <2>1. Quiet
    BY <1>2 DEF WindowsInv, CheckUrl, Works, Typed, PagesOK, PageTime, MainOK, DriverOK, Blank
  <2>2. Quiet' /\ ~PageTime'
    BY <1>2, <2>1 DEF CheckUrl, Quiet, PageTime, Restarted
  <2>3. NewOK' /\ SetOK'
    BY <1>2 DEF CheckUrl, Restarted, NewOK, SetOK
  <2> QED
    BY <1>1, <2>2, <2>3 DEF WindowsInv, PagesOK, MainOK, DriverOK, ComingOK
<1>3. CASE windows[driver] # Blank
  <2>1. PageTime' = PageTime /\ Quiet' = Quiet
    BY <1>3 DEF CheckUrl, PageTime, Quiet
  <2>2. PagesOK' /\ MainOK' /\ DriverOK'
    BY <1>3, <2>1 DEF WindowsInv, CheckUrl, PagesOK, MainOK, DriverOK
  <2>3. NewOK' /\ SetOK'
    BY <1>3 DEF CheckUrl, NewOK, SetOK
  <2>4. ComingOK'
    BY <2>1 DEF WindowsInv, CheckUrl, ComingOK
  <2> QED
    BY <1>1, <2>2, <2>3, <2>4 DEF WindowsInv
<1> QED
  BY <1>2, <1>3

LEMMA OpenNewInv == ASSUME WindowsInv, OpenNew PROVE WindowsInv'
<1>1. /\ DOMAIN windows' = DOMAIN windows \cup {opened'}
      /\ windows' \in [DOMAIN windows' -> Nat]
      /\ \A x \in DOMAIN windows : windows'[x] = windows[x]
      /\ windows'[opened'] = Blank
      /\ opened' \notin DOMAIN windows
  <2>1. opened' \in Nat /\ opened' \notin DOMAIN windows /\ Blank \in Nat
    BY DEF WindowsInv, OpenNew, Typed, Blank
  <2>2. windows \in [DOMAIN windows -> Nat] /\ windows' = With(opened', Blank)
    BY DEF WindowsInv, OpenNew, Typed
  <2> QED
    BY <2>1, <2>2, WithWindow
<1>2. Typed'
  BY <1>1 DEF WindowsInv, OpenNew, Typed
<1>3. PageTime' = PageTime
  BY DEF WindowsInv, Typed, OpenNew, PageTime
<1>4. Quiet' = Quiet
  BY <1>1 DEF Quiet
<1>5. PagesOK'
  BY <1>1, <1>3, <1>4 DEF WindowsInv, OpenNew, PagesOK
<1>6. MainOK' /\ DriverOK'
  BY <1>1, <1>3, <1>4 DEF WindowsInv, OpenNew, Typed, MainOK, DriverOK
<1>7. NewOK' /\ SetOK'
  BY <1>1 DEF OpenNew, Works, NewOK, SetOK
<1>8. ComingOK'
  BY <1>3 DEF WindowsInv, OpenNew, ComingOK
<1> QED
  BY <1>2, <1>5, <1>6, <1>7, <1>8 DEF WindowsInv

LEMMA CloseOldInv == ASSUME WindowsInv, CloseOld PROVE WindowsInv'
<1>1. /\ DOMAIN windows' = DOMAIN windows \ {driver}
      /\ windows' \in [DOMAIN windows' -> Nat]
      /\ \A x \in DOMAIN windows' : windows'[x] = windows[x]
  BY WithoutWindow DEF WindowsInv, CloseOld, Typed
<1>2. Typed'
  BY <1>1 DEF WindowsInv, CloseOld, Typed
<1>3. PageTime' = PageTime
  BY DEF CloseOld, PageTime
<1>4. Quiet => Quiet'
  BY <1>1 DEF Quiet
<1>5. PagesOK'
  BY <1>1, <1>3, <1>4 DEF WindowsInv, CloseOld, PagesOK
<1>6. MainOK' /\ DriverOK'
  BY DEF CloseOld, MainOK, DriverOK
<1>7. NewOK' /\ SetOK'
  BY <1>1 DEF WindowsInv, CloseOld, NewOK, SetOK
<1>8. ComingOK'
  BY <1>3 DEF WindowsInv, CloseOld, ComingOK
<1> QED
  BY <1>2, <1>5, <1>6, <1>7, <1>8 DEF WindowsInv

(* The assertion that one window is left: it is the new one.               *)
LEMMA SwitchToNewInv == ASSUME WindowsInv, SwitchToNew PROVE WindowsInv'
<1>1. Typed'
  BY DEF WindowsInv, SwitchToNew, Typed, Restarted
<1>2. IsFiniteSet(DOMAIN windows)
  <2>1. IsFiniteSet(1 .. opened)
    <3>1. opened \in Int /\ 1 \in Int
      BY DEF WindowsInv, Typed
    <3> QED
      BY <3>1, FS_Interval
  <2> QED
    BY <2>1, FS_Subset DEF WindowsInv, Typed
<1>3. PICK w : DOMAIN windows = {w}
  BY <1>2, FS_Singleton DEF SwitchToNew
<1>4. Quiet
  BY <1>3 DEF WindowsInv, SwitchToNew, NewOK, Quiet
<1>5. Quiet' /\ ~PageTime'
  BY <1>4 DEF SwitchToNew, Quiet, PageTime, Restarted
<1>6. NewOK' /\ SetOK'
  BY DEF SwitchToNew, NewOK, SetOK, Restarted
<1> QED
  BY <1>1, <1>5, <1>6 DEF WindowsInv, PagesOK, MainOK, DriverOK, ComingOK

LEMMA SendVisitInv == ASSUME WindowsInv, SendVisit PROVE WindowsInv'
<1>1. Typed'
  BY DEF WindowsInv, SendVisit, Typed, Message
<1>2. Quiet' /\ ~PageTime'
  BY DEF WindowsInv, SendVisit, PagesOK, Quiet, PageTime
<1>3. NewOK'
  BY DEF SendVisit, NewOK
<1>4. SetOK'
  <2>1. inbox \in Seq(Message) /\ visit \in Nat
    BY DEF WindowsInv, Typed
  <2>2. inbox' # <<>> /\ inbox'[Len(inbox')] = <<"Set", visit>>
    BY <2>1 DEF SendVisit, Message
  <2> QED
    BY <2>2 DEF SendVisit, SetOK
<1> QED
  BY <1>1, <1>2, <1>3, <1>4 DEF WindowsInv, PagesOK, MainOK, DriverOK, ComingOK

LEMMA LoadPageInv == ASSUME WindowsInv, LoadPage PROVE WindowsInv'
<1>1. Quiet /\ session = visit
  BY DEF WindowsInv, LoadPage, PagesOK, PageTime, SetOK
<1>2. /\ DOMAIN windows' = DOMAIN windows
      /\ windows' \in [DOMAIN windows -> Nat]
      /\ \A x \in DOMAIN windows \ {driver} : windows'[x] = Blank
      /\ windows'[driver] \in {Blank, visit}
  BY <1>1 DEF WindowsInv, LoadPage, Typed, Quiet, Works, Blank
<1>3. Typed'
  BY <1>2 DEF WindowsInv, LoadPage, Typed, NoneComing, None, Blank
<1>4. PagesOK'
  BY <1>1, <1>2 DEF LoadPage, PagesOK, PageTime
<1>5. MainOK' /\ DriverOK'
  BY <1>2 DEF LoadPage, MainOK, DriverOK, Quiet
<1>6. NewOK' /\ SetOK'
  BY DEF LoadPage, NewOK, SetOK
<1>7. ComingOK'
  BY DEF LoadPage, ComingOK, NoneComing
<1> QED
  BY <1>3, <1>4, <1>5, <1>6, <1>7 DEF WindowsInv

LEMMA FollowLinksInv == ASSUME WindowsInv, FollowLinks PROVE WindowsInv'
<1>1. Typed'
  BY DEF WindowsInv, FollowLinks, Typed
<1>2. PageTime' = PageTime /\ Quiet' = Quiet
  BY DEF WindowsInv, FollowLinks, Typed, PageTime, Quiet
<1>3. PagesOK' /\ MainOK' /\ DriverOK'
  BY <1>2 DEF WindowsInv, FollowLinks, PagesOK, MainOK, DriverOK
<1>4. NewOK' /\ SetOK'
  BY DEF FollowLinks, NewOK, SetOK
<1>5. ComingOK'
  BY <1>2 DEF WindowsInv, FollowLinks, ComingOK
<1> QED
  BY <1>1, <1>3, <1>4, <1>5 DEF WindowsInv

LEMMA BeginFinalizeInv == ASSUME WindowsInv, BeginFinalize PROVE WindowsInv'
<1>1. Typed'
  BY DEF WindowsInv, BeginFinalize, Typed
<1>2. PageTime /\ PageTime' /\ Quiet' = Quiet
  BY DEF WindowsInv, BeginFinalize, Typed, PageTime, Quiet
<1>3. PagesOK' /\ MainOK' /\ DriverOK'
  BY <1>2 DEF WindowsInv, BeginFinalize, PagesOK, MainOK, DriverOK
<1>4. NewOK' /\ SetOK'
  BY DEF BeginFinalize, NewOK, SetOK
<1>5. ComingOK'
  BY <1>2 DEF WindowsInv, BeginFinalize, ComingOK
<1> QED
  BY <1>1, <1>3, <1>4, <1>5 DEF WindowsInv

LEMMA SendFinalizeInv == ASSUME WindowsInv, SendFinalize PROVE WindowsInv'
<1>1. Typed'
  BY DEF WindowsInv, SendFinalize, Typed, Message
<1>2. Quiet' /\ ~PageTime'
  BY DEF WindowsInv, SendFinalize, PagesOK, Quiet, PageTime
<1>3. NewOK' /\ SetOK'
  BY DEF SendFinalize, NewOK, SetOK
<1> QED
  BY <1>1, <1>2, <1>3 DEF WindowsInv, PagesOK, MainOK, DriverOK, ComingOK

LEMMA RestartInv == ASSUME WindowsInv, Restart PROVE WindowsInv'
<1>1. /\ DOMAIN windows' = {opened'}
      /\ windows' \in [DOMAIN windows' -> Nat]
      /\ windows'[opened'] = Blank
  <2>1. opened' \in Nat
    BY DEF WindowsInv, Restart, Typed
  <2> QED
    BY <2>1, OneWindow DEF Restart
<1>2. Typed'
  BY <1>1 DEF WindowsInv, Restart, Typed, NoneComing, None, Blank
<1>3. Quiet' /\ ~PageTime'
  BY <1>1 DEF Restart, Quiet, PageTime
<1>4. NewOK' /\ SetOK'
  BY DEF Restart, NewOK, SetOK
<1> QED
  BY <1>2, <1>3, <1>4 DEF WindowsInv, PagesOK, MainOK, DriverOK, ComingOK

-----------------------------------------------------------------------------
(* The page that comes is that of the visit, in the window of the visit.   *)
LEMMA PageArrivesInv == ASSUME WindowsInv, PageArrives, ~PagesArriveLate PROVE WindowsInv'
<1>1. PageTime /\ PageTime' /\ step \notin {"open", "old", "assert", "get"}
  BY DEF PageArrives, InTime, PageTime
<1>2. coming.window = main_handle /\ coming.page = visit
  <2>1. coming.window # None
    BY DEF WindowsInv, Typed, PageArrives, None
  <2> QED
    BY <1>1, <2>1 DEF WindowsInv, ComingOK
<1>3. /\ DOMAIN windows' = DOMAIN windows
      /\ windows' \in [DOMAIN windows' -> Nat]
      /\ \A x \in DOMAIN windows \ {main_handle} : windows'[x] = windows[x]
      /\ main_handle \in DOMAIN windows /\ windows'[main_handle] = visit
  BY <1>2 DEF WindowsInv, Typed, PageArrives
<1>4. Typed'
  BY <1>3 DEF WindowsInv, PageArrives, Typed, NoneComing, None, Blank
<1>5. PagesOK'
  BY <1>1, <1>3 DEF WindowsInv, PageArrives, PagesOK
<1>6. MainOK' /\ DriverOK'
  BY <1>1, <1>3 DEF WindowsInv, PageArrives, MainOK, DriverOK
<1>7. NewOK' /\ SetOK'
  BY <1>1 DEF WindowsInv, PageArrives, NewOK, SetOK
<1>8. ComingOK'
  BY DEF PageArrives, ComingOK, NoneComing
<1> QED
  BY <1>4, <1>5, <1>6, <1>7, <1>8 DEF WindowsInv

(* Pages: they have the visit of the page that opened them.                *)
LEMMA OpenPopupInv == ASSUME WindowsInv, OpenPopup PROVE WindowsInv'
<1> PICK w \in DOMAIN windows :
      windows[w] # Blank /\ windows' = With(opened + 1, windows[w])
  BY DEF OpenPopup
<1>1. /\ DOMAIN windows' = DOMAIN windows \cup {opened'}
      /\ windows' \in [DOMAIN windows' -> Nat]
      /\ \A x \in DOMAIN windows : windows'[x] = windows[x]
      /\ windows'[opened'] = windows[w]
      /\ opened' \notin DOMAIN windows
  <2>1. opened' \in Nat /\ opened' \notin DOMAIN windows /\ windows[w] \in Nat
    BY DEF WindowsInv, OpenPopup, Typed
  <2>2. windows \in [DOMAIN windows -> Nat] /\ windows' = With(opened', windows[w])
    BY DEF WindowsInv, OpenPopup, Typed
  <2> QED
    BY <2>1, <2>2, WithWindow
<1>2. Typed'
  BY <1>1 DEF WindowsInv, OpenPopup, Typed
<1>3. PageTime /\ PageTime' /\ ~Quiet /\ windows[w] = visit
  BY DEF WindowsInv, OpenPopup, PagesOK, PageTime, Quiet
<1>4. PagesOK'
  BY <1>1, <1>3 DEF WindowsInv, OpenPopup, PagesOK
<1>5. MainOK' /\ DriverOK'
  BY <1>1, <1>3 DEF WindowsInv, OpenPopup, Typed, MainOK, DriverOK
<1>6. NewOK' /\ SetOK'
  BY <1>1 DEF WindowsInv, OpenPopup, NewOK, SetOK
<1>7. ComingOK'
  BY <1>3 DEF WindowsInv, OpenPopup, ComingOK
<1> QED
  BY <1>2, <1>4, <1>5, <1>6, <1>7 DEF WindowsInv

LEMMA ClosePageInv == ASSUME WindowsInv, ClosePage PROVE WindowsInv'
<1> PICK w \in DOMAIN windows : windows[w] # Blank /\ windows' = Without(w)
  BY DEF ClosePage
<1>1. /\ DOMAIN windows' = DOMAIN windows \ {w}
      /\ windows' \in [DOMAIN windows' -> Nat]
      /\ \A x \in DOMAIN windows' : windows'[x] = windows[x]
  BY WithoutWindow DEF WindowsInv, Typed
<1>2. Typed'
  BY <1>1 DEF WindowsInv, ClosePage, Typed
<1>3. PageTime' = PageTime /\ ~Quiet
  BY DEF ClosePage, PageTime, Quiet
<1>4. PagesOK'
  BY <1>1, <1>3 DEF WindowsInv, ClosePage, PagesOK
<1>5. MainOK' /\ DriverOK'
  BY <1>1, <1>3 DEF WindowsInv, ClosePage, MainOK, DriverOK
<1>6. NewOK' /\ SetOK'
  BY <1>1 DEF WindowsInv, ClosePage, NewOK, SetOK
<1>7. ComingOK'
  BY <1>3 DEF WindowsInv, ClosePage, ComingOK
<1> QED
  BY <1>2, <1>4, <1>5, <1>6, <1>7 DEF WindowsInv

LEMMA LeavePageInv == ASSUME WindowsInv, LeavePage, ~PagesLeave PROVE WindowsInv'
<1> PICK w \in DOMAIN windows :
      windows[w] # Blank /\ w # main_handle /\ windows' = [windows EXCEPT ![w] = Blank]
  BY DEF LeavePage
<1>1. /\ DOMAIN windows' = DOMAIN windows
      /\ windows' \in [DOMAIN windows' -> Nat]
      /\ \A x \in DOMAIN windows \ {w} : windows'[x] = windows[x]
      /\ windows'[w] = Blank
  BY DEF WindowsInv, Typed, Blank
<1>2. Typed'
  BY <1>1 DEF WindowsInv, LeavePage, Typed
<1>3. PageTime' = PageTime /\ ~Quiet
  BY DEF LeavePage, PageTime, Quiet
<1>4. PagesOK'
  BY <1>1, <1>3 DEF WindowsInv, LeavePage, PagesOK
<1>5. MainOK' /\ DriverOK'
  BY <1>1, <1>3 DEF WindowsInv, LeavePage, MainOK, DriverOK
<1>6. NewOK' /\ SetOK'
  BY <1>1 DEF WindowsInv, LeavePage, NewOK, SetOK
<1>7. ComingOK'
  BY <1>3 DEF WindowsInv, LeavePage, ComingOK
<1> QED
  BY <1>2, <1>4, <1>5, <1>6, <1>7 DEF WindowsInv

(* The extension handles a message only while no page is open.             *)
LEMMA HandleMessageInv == ASSUME WindowsInv, HandleMessage PROVE WindowsInv'
<1>1. Typed'
  BY DEF WindowsInv, HandleMessage, Typed
<1>2. Quiet' /\ ~PageTime'
  BY DEF WindowsInv, HandleMessage, PagesOK, Quiet, PageTime
<1>3. NewOK'
  BY DEF WindowsInv, HandleMessage, NewOK
<1>4. SetOK'
  <2> SUFFICES ASSUME step = "get" PROVE SetOK'
    BY DEF HandleMessage, SetOK
  <2>1. inbox \in Seq(Message) /\ inbox # <<>> /\ inbox[Len(inbox)] = <<"Set", visit>>
    BY DEF WindowsInv, HandleMessage, Typed, SetOK
  <2>2. CASE Len(inbox) = 1
    <3>1. Head(inbox) = <<"Set", visit>> /\ inbox' = <<>>
      BY <2>1, <2>2 DEF HandleMessage
    <3>2. session' = visit
      BY <3>1 DEF HandleMessage
    <3> QED
      BY <3>1, <3>2 DEF HandleMessage, SetOK
  <2>3. CASE Len(inbox) # 1
    <3>1. Len(inbox') = Len(inbox) - 1 /\ inbox' \in Seq(Message) /\ Len(inbox) \in Nat /\ Len(inbox) # 0
      BY <2>1 DEF HandleMessage
    <3>2. inbox'[Len(inbox) - 1] = inbox[Len(inbox)]
      BY <2>1, <2>3, <3>1 DEF HandleMessage
    <3>3. inbox' # <<>>
      BY <2>3, <3>1
    <3> QED
      BY <2>1, <3>1, <3>2, <3>3 DEF HandleMessage, SetOK
  <2> QED
    BY <2>2, <2>3
<1> QED
  BY <1>1, <1>2, <1>3, <1>4 DEF WindowsInv, PagesOK, MainOK, DriverOK, ComingOK

-----------------------------------------------------------------------------
LEMMA NextInv ==
  ASSUME WindowsInv, [Next]_vars, ~PagesLeave, ~PagesArriveLate
  PROVE  WindowsInv'
<1>1. CASE CommandNext
  BY <1>1, InitializeInv, ListInv, CloseOtherInv, SwitchBackInv, CheckUrlInv, OpenNewInv, CloseOldInv,
     SwitchToNewInv, SendVisitInv, LoadPageInv, FollowLinksInv, BeginFinalizeInv, SendFinalizeInv,
     RestartInv DEF CommandNext
<1>2. CASE PageArrives \/ OpenPopup \/ ClosePage \/ LeavePage \/ HandleMessage
  BY <1>2, PageArrivesInv, OpenPopupInv, ClosePageInv, LeavePageInv, HandleMessageInv
<1>3. CASE UNCHANGED vars
  BY <1>3 DEF vars, WindowsInv, Typed, PagesOK, PageTime, Quiet, MainOK, DriverOK, NewOK, SetOK,
     ComingOK
<1> QED
  BY <1>1, <1>2, <1>3 DEF Next

(* The invariant above, of which the properties are consequences.         *)
THEOREM WindowsAreKept == ASSUME ~PagesLeave, ~PagesArriveLate PROVE Spec => []WindowsInv
<1>1. Init => WindowsInv
  BY InitInv
<1>2. WindowsInv /\ [Next]_vars => WindowsInv'
  BY NextInv
<1> QED
  BY <1>1, <1>2, PTL DEF Spec

(* A page is open only while the extension's session is that of its visit, *)
(* for any number of visits and windows, when the page of a visit does not *)
(* navigate to about:blank and none comes when Finalize is past it         *)
(* (GetCommand, FinalizeCommand).                                          *)
THEOREM PagesKeepTheirSession == ASSUME ~PagesLeave, ~PagesArriveLate PROVE Spec => []PagesAreOfTheSession
<1>1. WindowsInv => PagesAreOfTheSession
  BY DEF WindowsInv, PagesOK, Quiet, PagesAreOfTheSession
<1> QED
  BY <1>1, WindowsAreKept, PTL

(* When tab_restart_browser has returned, no page is open in any window.   *)
THEOREM RestartStopsTraffic == ASSUME ~PagesLeave, ~PagesArriveLate PROVE Spec => []TrafficIsStopped
<1>1. WindowsInv => TrafficIsStopped
  BY DEF WindowsInv, PagesOK, PageTime, Quiet, TrafficIsStopped
<1> QED
  BY <1>1, WindowsAreKept, PTL

(* When Get has returned, the driver is in the window of the page, so that *)
(* the commands that follow act on it (close_other_windows).               *)
THEOREM DriverStays == ASSUME ~PagesLeave, ~PagesArriveLate PROVE Spec => []DriverIsOnThePage
<1>1. WindowsInv => DriverIsOnThePage
  BY DEF WindowsInv, Typed, PageTime, DriverOK, DriverIsOnThePage
<1> QED
  BY <1>1, WindowsAreKept, PTL

-----------------------------------------------------------------------------
(* The frames.  The recursion of a dump goes down the stack; the depth of  *)
(* a frame is the number of the frames it is in, which the page does not   *)
(* change as long as the frame is there.                                   *)

(* Frames that there have been, and calls that have not returned.          *)
Known == DOMAIN parent \cup {Top}
Levels == Len(frame_stack)

(* A page is a forest, and who stays, stays in what stays.                 *)
Forest == \A S \in SUBSET DOMAIN parent : S # {} => \E f \in S : parent[f] \notin S
TreeOK ==
    /\ DOMAIN parent \subseteq Frames /\ parent \in [DOMAIN parent -> Known] /\ Forest
    /\ live \subseteq DOMAIN parent /\ \A f \in live : IsThere(parent[f])
    /\ stable \subseteq live /\ \A f \in stable : parent[f] \in stable \cup {Top}

(* Each frame on the stack is in the one before, at its depth.             *)
StackOK ==
    /\ frame_stack \in Seq(Known) /\ Levels >= 1 /\ frame_stack[1] = Top
    /\ \A i \in 2 .. Levels :
         frame_stack[i] \in DOMAIN parent /\ parent[frame_stack[i]] = frame_stack[i - 1]
    /\ \A i \in 1 .. Levels : Cardinality(Ancestors(frame_stack[i])) = i - 1

(* Where the driver is, and for how many calls there are frames, at each   *)
(* step of a call.                                                         *)
Calls == {"call", "collect", "find", "next", "return", "parent"}
Depths ==
    /\ Levels <= MaxDepth + 2
    /\ call_step \in {"collect", "find", "next"} => Levels <= MaxDepth + 1
CallOK ==
    /\ call_step \in Calls \cup {"idle", "done", "failed"} /\ dumps \in 0 .. MaxDumps
    /\ frames \in Seq(SUBSET DOMAIN parent)
    /\ Len(frames) = IF call_step = "next" THEN Levels ELSE Levels - 1
    /\ call_step \notin Calls => frame_stack = <<Top>>
    /\ call_step = "done" => context = Top
    /\ context \in Known
    /\ call_step \in {"collect", "find", "next", "return"} \/ (call_step = "call" /\ Levels > 1) =>
         context = frame_stack[Levels]
    /\ Depths

(* The way down from the top to the frame of the caller.                   *)
DownOK ==
    /\ down \in Seq(Known)
    /\ call_step # "parent" => down = <<>>
    /\ call_step = "parent" =>
         /\ Len(down) <= Levels - 2 /\ context = frame_stack[Levels - 1 - Len(down)]
         /\ \A i \in 1 .. Len(down) : down[i] = frame_stack[Levels - 1 - Len(down) + i]

SourcesOK == DOMAIN page_source \subseteq Seq(DOMAIN parent) /\ EntriesAreTheirOwn

(* A frame in one that is dumped has been dumped, will be, or is too deep, *)
(* if it has been there all the time.                                      *)
Dumped(f) == \E path \in DOMAIN page_source : page_source[path] = f
Ahead(f) ==
    \/ \E k \in DOMAIN frames : frame_stack[k] = parent[f] /\ f \in frames[k]
    \/ call_step = "find" /\ frame_stack[Levels] = parent[f]
    \/ call_step \in {"call", "collect"} /\ frame_stack[Levels] = f
Shallow(f) == Cardinality(Ancestors(f)) <= MaxDepth
FoundOK ==
    /\ call_step \in {"find", "next", "return", "parent", "done"} \/ Levels > 1 => Dumped(Top)
    /\ call_step \notin {"idle", "failed"} =>
         \A f \in stable : Shallow(f) /\ Dumped(parent[f]) => Dumped(f) \/ Ahead(f)

FramesInv == TreeOK /\ StackOK /\ CallOK /\ DownOK /\ SourcesOK /\ FoundOK

-----------------------------------------------------------------------------
(* What is above a frame: that it is in, and what is above that.           *)
Above(f) ==
    {g \in Known : \A S \in SUBSET Known : f \in S /\ Upward(S) => g \in S}

LEMMA AboveTop == ASSUME TreeOK PROVE Above(Top) = {Top} /\ Ancestors(Top) = {}
<1>1. {Top} \in SUBSET Known /\ Upward({Top}) /\ Top \in Known
  BY DEF Known, Upward
<1>2. Above(Top) = {Top}
  BY <1>1 DEF Above
<1> QED
  BY <1>2 DEF Above, Ancestors, Known

LEMMA AboveFrame ==
  ASSUME TreeOK, NEW f \in DOMAIN parent
  PROVE  Above(f) = {f} \cup Above(parent[f]) /\ f \notin Above(parent[f])
<1>1. f # Top /\ f \in Known /\ parent[f] \in Known
  BY FramesAssumption DEF TreeOK, Known
<1>2. Above(f) \subseteq {f} \cup Above(parent[f])
  <2> SUFFICES ASSUME NEW g \in Above(f), g # f PROVE g \in Above(parent[f])
    OBVIOUS
  <2>1. ASSUME NEW S \in SUBSET Known, parent[f] \in S, Upward(S) PROVE g \in S
    <3>1. S \cup {f} \in SUBSET Known /\ Upward(S \cup {f})
      BY <2>1, <1>1 DEF Upward
    <3> QED
      BY <3>1 DEF Above
  <2> QED
    BY <2>1 DEF Above
<1>3. {f} \cup Above(parent[f]) \subseteq Above(f)
  BY <1>1 DEF Above, Upward
<1>4. ASSUME f \in Above(parent[f]) PROVE FALSE
  <2> DEFINE C == {g \in DOMAIN parent : f \in Above(g)}
  <2>1. parent[f] \in C
    <3>1. parent[f] # Top
      BY <1>4, <1>1, AboveTop
    <3> QED
      BY <3>1, <1>1, <1>4 DEF Known
  <2>2. ASSUME NEW g \in C PROVE parent[g] \in C
    <3>1. CASE g = f
      BY <3>1, <2>1
    <3>2. CASE g # f
      <4>1. g # Top /\ g \in Known /\ parent[g] \in Known
        BY FramesAssumption DEF TreeOK, Known
      <4>2. f \in Above(parent[g])
        <5>1. ASSUME NEW S \in SUBSET Known, parent[g] \in S, Upward(S) PROVE f \in S
          <6>1. S \cup {g} \in SUBSET Known /\ Upward(S \cup {g})
            BY <5>1, <4>1 DEF Upward
          <6>2. f \in S \cup {g}
            BY <6>1 DEF Above
          <6> QED
            BY <6>2, <3>2
        <5> QED
          BY <5>1, <1>1 DEF Above
      <4>3. parent[g] # Top
        BY <4>2, <1>1, AboveTop
      <4> QED
        BY <4>1, <4>2, <4>3 DEF Known
    <3> QED
      BY <3>1, <3>2
  <2>3. C \in SUBSET DOMAIN parent /\ C # {}
    BY <2>1
  <2> HIDE DEF C
  <2> QED
    BY <2>2, <2>3 DEF TreeOK, Forest
<1> QED
  BY <1>2, <1>3, <1>4

LEMMA AncestorsOfFrame ==
  ASSUME TreeOK, NEW f \in DOMAIN parent
  PROVE  /\ Ancestors(f) = Ancestors(parent[f]) \cup {parent[f]}
         /\ parent[f] \notin Ancestors(parent[f]) /\ f \notin Ancestors(f)
         /\ Top \in Ancestors(f)
<1>1. \A g : Ancestors(g) = Above(g) \ {g}
  BY DEF Ancestors, Above, Known
<1>2. parent[f] \in Above(parent[f])
  BY DEF Above, TreeOK
<1>3. Top \in Ancestors(f)
  <2>1. f # Top
    BY FramesAssumption DEF TreeOK
  <2>2. ASSUME NEW S \in SUBSET Known, f \in S, Upward(S), Top \notin S PROVE FALSE
    <3>1. S \in SUBSET DOMAIN parent /\ S # {}
      BY <2>2 DEF Known
    <3> QED
      BY <3>1, <2>2 DEF TreeOK, Forest, Upward
  <2>3. Top \in Above(f)
    BY <2>2 DEF Above, Known
  <2> QED
    BY <2>1, <2>3, <1>1
<1> QED
  BY <1>1, <1>2, <1>3, AboveFrame

LEMMA FiniteAncestors ==
  ASSUME TreeOK, NEW f
  PROVE  IsFiniteSet(Ancestors(f)) /\ Cardinality(Ancestors(f)) \in Nat
<1>1. IsFiniteSet(Frames \cup {Top})
  BY FramesAssumption, FS_AddElement
<1>2. Ancestors(f) \subseteq Frames \cup {Top}
  BY DEF Ancestors, TreeOK
<1>3. IsFiniteSet(Ancestors(f))
  BY <1>1, <1>2, FS_Subset
<1> QED
  BY <1>3, FS_CardinalityType

LEMMA DepthOfFrame ==
  ASSUME TreeOK, NEW f \in DOMAIN parent
  PROVE  Cardinality(Ancestors(f)) = Cardinality(Ancestors(parent[f])) + 1
BY AncestorsOfFrame, FiniteAncestors, FS_AddElement

(* A frame that is added is above no other.                                *)
LEMMA AncestorsStay ==
  ASSUME TreeOK, NEW f \in Frames \ DOMAIN parent, NEW within \in Known,
         parent' = [g \in DOMAIN parent \cup {f} |-> IF g = f THEN within ELSE parent[g]]
  PROVE  \A g \in Known : Ancestors(g)' = Ancestors(g)
<1> SUFFICES ASSUME NEW g \in Known PROVE Ancestors(g)' = Ancestors(g)
  OBVIOUS
<1>1. Known' = Known \cup {f} /\ f \notin Known
  BY FramesAssumption DEF Known
<1>2. \A x \in DOMAIN parent : parent'[x] = parent[x] /\ parent[x] \in Known /\ x # f
  BY DEF TreeOK
<1>3. ASSUME NEW S \in SUBSET Known', Upward(S)' PROVE S \ {f} \in SUBSET Known /\ Upward(S \ {f})
  BY <1>1, <1>2, <1>3 DEF Known, Upward
<1>4. ASSUME NEW S \in SUBSET Known, Upward(S) PROVE S \in SUBSET Known' /\ Upward(S)'
  BY <1>1, <1>2, <1>4 DEF Known, Upward
<1>5. Known \in SUBSET Known /\ Upward(Known)
  BY <1>2 DEF Known, Upward
<1>6. \A h : Ancestors(h) = {x \in Known : \A S \in SUBSET Known : h \in S /\ Upward(S) => x \in S} \ {h}
  BY DEF Ancestors, Known
<1>7. \A h : Ancestors(h)' =
        {x \in Known' : \A S \in SUBSET Known' : h \in S /\ Upward(S)' => x \in S} \ {h}
  BY DEF Ancestors, Known
<1>8. ASSUME NEW x \in Ancestors(g) PROVE x \in Ancestors(g)'
  <2>1. ASSUME NEW S \in SUBSET Known', g \in S, Upward(S)' PROVE x \in S
    <3>1. S \ {f} \in SUBSET Known /\ Upward(S \ {f}) /\ g \in S \ {f}
      BY <1>3, <2>1, <1>1
    <3> QED
      BY <3>1, <1>6
  <2> QED
    BY <2>1, <1>1, <1>6, <1>7
<1>9. ASSUME NEW x \in Ancestors(g)' PROVE x \in Ancestors(g)
  <2> PICK K : K = Known
    OBVIOUS
  <2>1. K \in SUBSET Known' /\ Upward(K)'
    BY <1>4, <1>5
  <2>2. x \in Known /\ x # g
    BY <2>1, <1>7
  <2>3. ASSUME NEW S \in SUBSET Known, g \in S, Upward(S) PROVE x \in S
    BY <1>4, <2>3, <1>7
  <2> QED
    BY <2>2, <2>3, <1>6
<1> QED
  BY <1>8, <1>9

-----------------------------------------------------------------------------
(* The pages.                                                              *)
LEMMA ChildIsAdded ==
  ASSUME TreeOK, AddFrame
  PROVE  \E f \in Frames \ DOMAIN parent, within \in live \cup {Top} :
           /\ within \in Known
           /\ parent' = [g \in DOMAIN parent \cup {f} |-> IF g = f THEN within ELSE parent[g]]
           /\ live' = live \cup {f} /\ DOMAIN parent' = DOMAIN parent \cup {f}
BY DEF AddFrame, TreeOK, Known

LEMMA TreeKept == ASSUME TreeOK, [NextFrames]_frameVars PROVE TreeOK'
<1>1. CASE AddFrame
  <2>1. PICK f \in Frames \ DOMAIN parent, within \in live \cup {Top} :
           /\ within \in Known
           /\ parent' = [g \in DOMAIN parent \cup {f} |-> IF g = f THEN within ELSE parent[g]]
           /\ live' = live \cup {f} /\ DOMAIN parent' = DOMAIN parent \cup {f}
    BY <1>1, ChildIsAdded
  <2>2. \A g \in DOMAIN parent : parent'[g] = parent[g] /\ parent[g] \in Known /\ parent[g] # f /\ g # f
    BY <2>1, FramesAssumption DEF TreeOK, Known
  <2>3. parent'[f] = within /\ within # f
    BY <2>1, FramesAssumption DEF TreeOK
  <2>4. parent' \in [DOMAIN parent' -> Known']
    BY <2>1, <2>2, <2>3 DEF Known
  <2>5. Forest'
    <3> SUFFICES ASSUME NEW S \in SUBSET DOMAIN parent', S # {} PROVE \E g \in S : parent'[g] \notin S
      BY DEF Forest
    <3>1. CASE S \subseteq {f}
      BY <3>1, <2>3
    <3>2. CASE ~(S \subseteq {f})
      <4>1. S \ {f} \in SUBSET DOMAIN parent /\ S \ {f} # {}
        BY <3>2, <2>1
      <4>2. PICK g \in S \ {f} : parent[g] \notin S \ {f}
        BY <4>1 DEF TreeOK, Forest
      <4> QED
        BY <4>1, <4>2, <2>2
    <3> QED
      BY <3>1, <3>2
  <2>6. live' \subseteq DOMAIN parent' /\ \A g \in live' : IsThere(parent[g])' \/ g = f
    BY <2>1, <2>2 DEF TreeOK, IsThere
  <2>7. \A g \in live' : IsThere(parent[g])'
    BY <2>1, <2>3, <2>6 DEF IsThere
  <2>8. stable' = stable
    BY <1>1 DEF AddFrame
  <2> QED
    BY <2>1, <2>2, <2>4, <2>5, <2>6, <2>7, <2>8 DEF TreeOK
<1>2. CASE RemoveFrame
  <2>1. PICK f \in live : live' = {g \in live \ {f} : f \notin Ancestors(g)}
    BY <1>2 DEF RemoveFrame
  <2>2. parent' = parent /\ stable' = stable \cap live'
    BY <1>2 DEF RemoveFrame
  <2>3. \A g \in live' : parent[g] = Top \/ (parent[g] \in live => parent[g] \in live')
    BY <2>1, AncestorsOfFrame DEF TreeOK
  <2>4. \A g \in live' : IsThere(parent[g])'
    BY <2>1, <2>2, <2>3 DEF TreeOK, IsThere
  <2>5. \A g \in stable' : parent[g] \in stable' \cup {Top}
    BY <2>1, <2>2, <2>3 DEF TreeOK
  <2> QED
    BY <2>1, <2>2, <2>4, <2>5 DEF TreeOK, Forest, Known
<1>3. CASE RecursiveDump
  BY <1>3 DEF RecursiveDump, TreeOK, Forest, Known, IsThere
<1>4. CASE UNCHANGED tree
  BY <1>4 DEF tree, TreeOK, Forest, Known, IsThere
<1> QED
  BY <1>1, <1>2, <1>3, <1>4
     DEF NextFrames, frameVars, tree, Call, CollectSource, FindFrames, SwitchToFrame, SkipStaleFrame,
         NoMoreFrames, Return, SwitchDown, PopFrame, Fail

(* The driver's steps leave the pages alone, and a page what is above its  *)
(* frames and where the call is.                                           *)
LEMMA SameAncestors ==
  ASSUME parent' = parent
  PROVE  Known' = Known /\ \A f : Ancestors(f)' = Ancestors(f)
BY DEF Known, Ancestors, Upward

LEMMA PageSteps ==
  ASSUME TreeOK, AddFrame \/ RemoveFrame
  PROVE  /\ Known \subseteq Known' /\ DOMAIN parent \subseteq DOMAIN parent'
         /\ \A f \in DOMAIN parent : parent'[f] = parent[f]
         /\ \A f \in Known : Ancestors(f)' = Ancestors(f)
         /\ stable' \subseteq stable
         /\ UNCHANGED <<context, call_step, frame_stack, frames, down, page_source, dumps>>
<1>1. CASE AddFrame
  <2>1. PICK f \in Frames \ DOMAIN parent, within \in live \cup {Top} :
           /\ within \in Known
           /\ parent' = [g \in DOMAIN parent \cup {f} |-> IF g = f THEN within ELSE parent[g]]
           /\ live' = live \cup {f} /\ DOMAIN parent' = DOMAIN parent \cup {f}
    BY <1>1, ChildIsAdded
  <2>2. \A g \in Known : Ancestors(g)' = Ancestors(g)
    BY <2>1, AncestorsStay
  <2> QED
    BY <1>1, <2>1, <2>2 DEF AddFrame, Known
<1>2. CASE RemoveFrame
  BY <1>2, SameAncestors DEF RemoveFrame
<1> QED
  BY <1>1, <1>2

-----------------------------------------------------------------------------
(* The stack, the calls and the driver.                                    *)
LEMMA TopAlone == ASSUME TreeOK, frame_stack = <<Top>> PROVE StackOK
<1>1. Cardinality(Ancestors(Top)) = 0
  BY AboveTop, FS_EmptySet
<1>2. Top \in Known /\ Levels = 1 /\ frame_stack[1] = Top
  BY DEF Known, Levels
<1> QED
  BY <1>1, <1>2 DEF StackOK

LEMMA StackKept ==
  ASSUME TreeOK, StackOK, CallOK, DownOK, [NextFrames]_frameVars
  PROVE  StackOK'
<1>1. CASE SwitchToFrame
  <2>1. PICK f \in Last(frames) \cap In(context) : frame_stack' = Append(frame_stack, f)
    BY <1>1 DEF SwitchToFrame
  <2>2. parent' = parent /\ context = frame_stack[Levels]
    BY <1>1 DEF SwitchToFrame, tree, CallOK
  <2>3. f \in DOMAIN parent /\ f \in Known /\ parent[f] = frame_stack[Levels]
    BY <2>1, <2>2 DEF In, TreeOK, Known
  <2>4. Levels \in Nat /\ Levels >= 1 /\ frame_stack \in Seq(Known)
    BY DEF StackOK, Levels
  <2>5. /\ frame_stack' \in Seq(Known) /\ Levels' = Levels + 1 /\ frame_stack'[Levels + 1] = f
        /\ \A i \in 1 .. Levels : frame_stack'[i] = frame_stack[i]
    BY <2>1, <2>3, <2>4 DEF Levels
  <2>6. Cardinality(Ancestors(f)) = (Levels - 1) + 1
    BY <2>3, <2>4, DepthOfFrame DEF StackOK
  <2>7. Known' = Known /\ \A g : Ancestors(g)' = Ancestors(g)
    BY <2>2, SameAncestors
  <2>8. ASSUME NEW i \in 2 .. Levels'
        PROVE  frame_stack'[i] \in DOMAIN parent /\ parent[frame_stack'[i]] = frame_stack'[i - 1]
    <3>1. CASE i = Levels + 1
      BY <3>1, <2>3, <2>4, <2>5
    <3>2. CASE i # Levels + 1
      <4>1. i \in 2 .. Levels /\ i \in 1 .. Levels /\ i - 1 \in 1 .. Levels
        BY <3>2, <2>4, <2>5
      <4> QED
        BY <4>1, <2>5 DEF StackOK
    <3> QED
      BY <3>1, <3>2
  <2>9. ASSUME NEW i \in 1 .. Levels' PROVE Cardinality(Ancestors(frame_stack'[i])) = i - 1
    <3>1. CASE i = Levels + 1
      BY <3>1, <2>4, <2>5, <2>6
    <3>2. CASE i # Levels + 1
      <4>1. i \in 1 .. Levels
        BY <3>2, <2>4, <2>5
      <4> QED
        BY <4>1, <2>5 DEF StackOK
    <3> QED
      BY <3>1, <3>2
  <2>10. Levels' >= 1 /\ frame_stack'[1] = Top
    BY <2>4, <2>5 DEF StackOK
  <2> QED
    BY <2>2, <2>5, <2>7, <2>8, <2>9, <2>10 DEF StackOK
<1>2. CASE PopFrame
  <2>1. frame_stack' = SubSeq(frame_stack, 1, Levels - 1) /\ parent' = parent
    BY <1>2 DEF PopFrame, Front, Levels, tree
  <2>2. Levels \in Nat /\ Levels >= 2 /\ frame_stack \in Seq(Known)
    BY <1>2 DEF PopFrame, DownOK, StackOK, Levels
  <2>3. /\ frame_stack' \in Seq(Known) /\ Levels' = Levels - 1
        /\ \A i \in 1 .. Levels - 1 : frame_stack'[i] = frame_stack[i]
    BY <2>1, <2>2 DEF Levels
  <2>4. Known' = Known /\ \A g : Ancestors(g)' = Ancestors(g)
    BY <2>1, SameAncestors
  <2>5. Levels' >= 1 /\ frame_stack'[1] = Top
    BY <2>2, <2>3 DEF StackOK
  <2>6. \A i \in 2 .. Levels' :
          frame_stack'[i] \in DOMAIN parent /\ parent[frame_stack'[i]] = frame_stack'[i - 1]
    BY <2>2, <2>3 DEF StackOK
  <2>7. \A i \in 1 .. Levels' : Cardinality(Ancestors(frame_stack'[i])) = i - 1
    BY <2>2, <2>3 DEF StackOK
  <2> QED
    BY <2>1, <2>3, <2>4, <2>5, <2>6, <2>7 DEF StackOK
<1>3. CASE Fail
  <2>1. parent' = parent /\ frame_stack' = <<Top>>
    BY <1>3 DEF Fail, tree
  <2>2. Cardinality(Ancestors(Top))' = 0
    BY <2>1, SameAncestors, AboveTop, FS_EmptySet
  <2>3. Top \in Known' /\ Levels' = 1 /\ frame_stack'[1] = Top
    BY <2>1 DEF Known, Levels
  <2> QED
    BY <2>1, <2>2, <2>3 DEF StackOK
<1>4. CASE AddFrame \/ RemoveFrame
  <2>1. /\ Known \subseteq Known' /\ DOMAIN parent \subseteq DOMAIN parent'
        /\ \A f \in DOMAIN parent : parent'[f] = parent[f]
        /\ \A f \in Known : Ancestors(f)' = Ancestors(f)
        /\ frame_stack' = frame_stack
    BY <1>4, PageSteps
  <2>2. frame_stack' \in Seq(Known') /\ Levels' = Levels
    BY <2>1 DEF StackOK, Levels
  <2>3. \A i \in 1 .. Levels : frame_stack[i] \in Known
    BY DEF StackOK, Levels
  <2>4. \A i \in 1 .. Levels : Cardinality(Ancestors(frame_stack[i])') = i - 1
    BY <2>1, <2>3 DEF StackOK
  <2>5. \A i \in 2 .. Levels :
          frame_stack[i] \in DOMAIN parent' /\ parent'[frame_stack[i]] = frame_stack[i - 1]
    BY <2>1 DEF StackOK
  <2> QED
    BY <2>1, <2>2, <2>4, <2>5 DEF StackOK
<1>5. CASE UNCHANGED <<parent, frame_stack>>
  BY <1>5, SameAncestors DEF StackOK, Levels
<1> QED
  BY <1>1, <1>2, <1>3, <1>4, <1>5
     DEF NextFrames, frameVars, tree, RecursiveDump, Call, CollectSource, FindFrames, SkipStaleFrame,
         NoMoreFrames, Return, SwitchDown

LEMMA StackTypes ==
  ASSUME StackOK, CallOK
  PROVE  /\ Levels \in Nat \ {0} /\ Len(frames) \in Nat /\ frame_stack \in Seq(Known)
         /\ frames \in Seq(SUBSET DOMAIN parent) /\ frame_stack[Levels] \in Known
         /\ Levels = 1 => frame_stack[Levels] = Top
BY DEF StackOK, CallOK, Levels

LEMMA CallKept ==
  ASSUME TreeOK, StackOK, CallOK, DownOK, [NextFrames]_frameVars
  PROVE  CallOK'
<1>0. /\ Levels \in Nat \ {0} /\ Len(frames) \in Nat /\ frame_stack \in Seq(Known)
      /\ frames \in Seq(SUBSET DOMAIN parent) /\ frame_stack[Levels] \in Known
      /\ Levels = 1 => frame_stack[Levels] = Top
  BY StackTypes
<1> USE DepthAssumption DEF Calls
<1>1. CASE RecursiveDump
  <2>1. frame_stack' = <<Top>> /\ Levels' = 1 /\ Levels = 1 /\ parent' = parent /\ frames' = frames
    BY <1>1 DEF RecursiveDump, CallOK, Levels
  <2>2. context' \in Known' /\ call_step' = "call" /\ dumps' \in 0 .. MaxDumps
    BY <1>1 DEF RecursiveDump, TreeOK, Known, CallOK
  <2>3. Len(frames) = 0
    BY <1>1, <2>1 DEF RecursiveDump, CallOK
  <2> QED
    BY <2>1, <2>2, <2>3 DEF CallOK, Depths
<1>2. CASE Call
  <2>1. /\ frame_stack' = frame_stack /\ Levels' = Levels /\ frames' = frames /\ Known' = Known
        /\ parent' = parent /\ dumps' = dumps /\ Len(frames) = Levels - 1
    BY <1>2 DEF Call, tree, Levels, Known, CallOK
  <2>2. context' = frame_stack[Levels]
    BY <1>0, <1>2 DEF Call, TopLevel, Levels, CallOK
  <2>3. call_step' = IF Levels - 1 > MaxDepth THEN "return" ELSE "collect"
    BY <1>2 DEF Call, TooDeep, Levels
  <2> QED
    BY <1>0, <2>1, <2>2, <2>3 DEF CallOK, Depths
<1>3. CASE CollectSource
  BY <1>0, <1>3 DEF CollectSource, tree, CallOK, Depths, Levels, Known
<1>4. CASE FindFrames
  <2>1. In(context) \in SUBSET DOMAIN parent
    BY DEF In, TreeOK
  <2>2. frames' = Append(frames, In(context)) /\ frames' \in Seq(SUBSET DOMAIN parent)
    BY <1>0, <1>4, <2>1 DEF FindFrames
  <2>3. Len(frames') = Len(frames) + 1
    BY <1>0, <2>1, <2>2
  <2> QED
    BY <1>0, <1>4, <2>2, <2>3 DEF FindFrames, tree, CallOK, Depths, Levels, Known
<1>5. CASE SwitchToFrame
  <2>1. PICK f \in Last(frames) \cap In(context) :
          /\ frames' = [frames EXCEPT ![Len(frames)] = @ \ {f}]
          /\ frame_stack' = Append(frame_stack, f) /\ context' = f
    BY <1>5 DEF SwitchToFrame
  <2>2. /\ parent' = parent /\ Known' = Known /\ call_step' = "call" /\ dumps' = dumps
        /\ call_step = "next" /\ Len(frames) = Levels /\ Levels <= MaxDepth + 1
    BY <1>5 DEF SwitchToFrame, tree, Known, CallOK, Depths
  <2>3. frames' \in Seq(SUBSET DOMAIN parent) /\ Len(frames') = Len(frames)
    BY <1>0, <2>1, <2>2
  <2>4. f \in Known
    BY DEF In, TreeOK, Known
  <2>5. Levels' = Levels + 1 /\ frame_stack'[Levels + 1] = f
    BY <1>0, <2>1, <2>4 DEF Levels
  <2> QED
    BY <1>0, <2>1, <2>2, <2>3, <2>4, <2>5 DEF CallOK, Depths
<1>6. CASE SkipStaleFrame
  <2>1. PICK f \in Last(frames) \ In(context) : frames' = [frames EXCEPT ![Len(frames)] = @ \ {f}]
    BY <1>6 DEF SkipStaleFrame
  <2>2. call_step = "next" /\ Len(frames) = Levels
    BY <1>6 DEF SkipStaleFrame, CallOK
  <2>3. frames' \in Seq(SUBSET DOMAIN parent) /\ Len(frames') = Len(frames)
    BY <1>0, <2>1, <2>2
  <2> QED
    BY <1>0, <1>6, <2>2, <2>3 DEF SkipStaleFrame, tree, CallOK, Depths, Levels, Known
<1>7. CASE NoMoreFrames
  <2>1. frames' = SubSeq(frames, 1, Len(frames) - 1) /\ call_step = "next" /\ Len(frames) = Levels
    BY <1>7 DEF NoMoreFrames, Front, CallOK
  <2>2. frames' \in Seq(SUBSET DOMAIN parent) /\ Len(frames') = Len(frames) - 1
    BY <1>0, <2>1
  <2> QED
    BY <1>0, <1>7, <2>1, <2>2 DEF NoMoreFrames, tree, CallOK, Depths, Levels, Known
<1>8. CASE Return
  <2>1. /\ frame_stack' = frame_stack /\ Levels' = Levels /\ frames' = frames /\ Known' = Known
        /\ parent' = parent /\ dumps' = dumps
        /\ Len(frames) = Levels - 1 /\ context = frame_stack[Levels]
    BY <1>8 DEF Return, tree, Levels, Known, CallOK
  <2>2. CASE frames = <<>>
    <3>1. Levels = 1 /\ frame_stack = <<Top>> /\ context' = Top
      BY <1>0, <1>8, <2>1, <2>2 DEF Return, StackOK, Levels
    <3> QED
      BY <1>0, <1>8, <2>1, <2>2, <3>1 DEF Return, CallOK, Depths
  <2>3. CASE frames # <<>>
    BY <1>0, <1>8, <2>1, <2>3 DEF Return, CallOK, Depths, Known
  <2> QED
    BY <2>2, <2>3
<1>9. CASE SwitchDown
  BY <1>0, <1>9 DEF SwitchDown, tree, CallOK, Depths, Levels, Known, DownOK
<1>10. CASE PopFrame
  <2>1. frame_stack' = SubSeq(frame_stack, 1, Levels - 1) /\ call_step = "parent" /\ Levels >= 2
    BY <1>0, <1>10 DEF PopFrame, Front, Levels, DownOK
  <2>2. Levels' = Levels - 1 /\ frame_stack'[Levels - 1] = frame_stack[Levels - 1]
    BY <1>0, <2>1 DEF Levels
  <2>3. context = frame_stack[Levels - 1]
    BY <1>0, <1>10, <2>1 DEF PopFrame, DownOK
  <2> QED
    BY <1>0, <1>10, <2>1, <2>2, <2>3 DEF PopFrame, tree, CallOK, Depths, Known
<1>11. CASE Fail
  BY <1>0, <1>11 DEF Fail, tree, CallOK, Depths, Levels, Known
<1>12. CASE AddFrame \/ RemoveFrame
  <2>1. /\ Known \subseteq Known' /\ DOMAIN parent \subseteq DOMAIN parent'
        /\ UNCHANGED <<context, call_step, frame_stack, frames, down, page_source, dumps>>
    BY <1>12, PageSteps
  <2>2. frames' \in Seq(SUBSET DOMAIN parent')
    BY <1>0, <2>1
  <2> QED
    BY <2>1, <2>2 DEF CallOK, Depths, Levels
<1>13. CASE UNCHANGED frameVars
  BY <1>13 DEF frameVars, CallOK, Depths, Levels, Known
<1> QED
  BY <1>1, <1>2, <1>3, <1>4, <1>5, <1>6, <1>7, <1>8, <1>9, <1>10, <1>11, <1>12, <1>13 DEF NextFrames

LEMMA DownKept ==
  ASSUME TreeOK, StackOK, CallOK, DownOK, [NextFrames]_frameVars
  PROVE  DownOK'
<1>0. /\ Levels \in Nat \ {0} /\ Len(frames) \in Nat /\ frame_stack \in Seq(Known)
  BY StackTypes
<1>1. CASE Return
  <2>1. /\ frame_stack' = frame_stack /\ Levels' = Levels /\ Known' = Known /\ down = <<>>
        /\ Len(frames) = Levels - 1
    BY <1>1 DEF Return, tree, Levels, Known, CallOK, DownOK
  <2>2. CASE frames = <<>>
    BY <1>1, <2>1, <2>2 DEF Return, DownOK
  <2>3. CASE frames # <<>>
    <3>1. Levels >= 2
      BY <1>0, <2>1, <2>3 DEF CallOK
    <3>2. /\ down' = SubSeq(frame_stack, 2, Levels - 1) /\ context' = Top /\ call_step' = "parent"
      BY <1>1, <2>3 DEF Return, Levels
    <3>3. down' = [i \in 1 .. Levels - 2 |-> frame_stack[i + 1]]
      <4>1. \A i \in 1 .. Levels - 2 : 2 + i - 1 = i + 1
        BY <1>0
      <4>2. (Levels - 1) - 2 + 1 = Levels - 2
        BY <1>0
      <4> QED
        BY <1>0, <3>1, <3>2, <4>1, <4>2 DEF Levels
    <3>6. /\ Len(down') = Levels - 2 /\ \A i \in 1 .. Levels - 2 : down'[i] = frame_stack[i + 1]
      BY <1>0, <3>1, <3>3
    <3>7. down' \in Seq(Known)
      <4>1. \A i \in 1 .. Levels - 2 : frame_stack[i + 1] \in Known
        BY <1>0 DEF Levels
      <4>2. Levels - 2 \in Nat
        BY <1>0, <3>1
      <4> QED
        BY <3>3, <4>1, <4>2
    <3>4. Levels - 1 - Len(down') = 1 /\ frame_stack[1] = Top
      BY <1>0, <3>6 DEF StackOK
    <3>5. \A i \in 1 .. Len(down') : down'[i] = frame_stack[1 + i]
      BY <3>6
    <3> QED
      BY <1>0, <2>1, <3>2, <3>6, <3>7, <3>4, <3>5 DEF DownOK
  <2> QED
    BY <2>2, <2>3
<1>2. CASE SwitchDown
  <2>1. /\ down # <<>> /\ context' = down[1] /\ down' = Tail(down) /\ call_step = "parent"
        /\ frame_stack' = frame_stack /\ Levels' = Levels /\ Known' = Known /\ call_step' = "parent"
    BY <1>2 DEF SwitchDown, tree, Levels, Known
  <2>2. down \in Seq(Known) /\ Len(down) \in Nat \ {0} /\ Len(down) <= Levels - 2
    BY <2>1 DEF DownOK
  <2>3. /\ down' \in Seq(Known) /\ Len(down') = Len(down) - 1
        /\ \A i \in 1 .. Len(down) - 1 : down'[i] = down[i + 1]
    BY <2>1, <2>2
  <2>4. \A i \in 1 .. Len(down) : down[i] = frame_stack[Levels - 1 - Len(down) + i]
    BY <2>1 DEF DownOK
  <2>5. context' = frame_stack[Levels - 1 - Len(down')]
    <3>1. Levels - 1 - Len(down') = Levels - 1 - Len(down) + 1
      BY <1>0, <2>2, <2>3
    <3> QED
      BY <2>1, <2>2, <2>4, <3>1
  <2>6. ASSUME NEW i \in 1 .. Len(down')
        PROVE  down'[i] = frame_stack[Levels - 1 - Len(down') + i]
    <3>1. i + 1 \in 1 .. Len(down) /\ i \in 1 .. Len(down) - 1
      BY <2>2, <2>3
    <3>2. Levels - 1 - Len(down') + i = Levels - 1 - Len(down) + (i + 1)
      BY <1>0, <2>2, <2>3
    <3> QED
      BY <2>3, <2>4, <3>1, <3>2
  <2>7. Len(down') <= Levels - 2
    BY <1>0, <2>2, <2>3
  <2> QED
    BY <2>1, <2>3, <2>5, <2>6, <2>7 DEF DownOK
<1>3. CASE PopFrame \/ Fail
  <2>1. down' = <<>> /\ call_step' # "parent"
    BY <1>3 DEF PopFrame, Fail
  <2> QED
    BY <2>1 DEF DownOK
<1>4. CASE AddFrame \/ RemoveFrame
  <2>1. /\ Known \subseteq Known'
        /\ UNCHANGED <<context, call_step, frame_stack, frames, down, page_source, dumps>>
    BY <1>4, PageSteps
  <2> QED
    BY <2>1 DEF DownOK, Levels
<1>5. CASE /\ down' = down /\ parent' = parent /\ call_step # "parent" /\ call_step' # "parent"
  BY <1>5 DEF DownOK, Known
<1>6. CASE UNCHANGED frameVars
  BY <1>6 DEF frameVars, DownOK, Levels, Known
<1> QED
  BY <1>1, <1>2, <1>3, <1>4, <1>5, <1>6
     DEF NextFrames, tree, RecursiveDump, Call, CollectSource, FindFrames, SwitchToFrame, SkipStaleFrame,
         NoMoreFrames

-----------------------------------------------------------------------------
(* What is dumped.                                                         *)
LEMMA SameElements ==
  ASSUME NEW S, NEW T, NEW s \in Seq(S), \A i \in 1 .. Len(s) : s[i] \in T
  PROVE  s \in Seq(T) /\ DOMAIN s = 1 .. Len(s)
<1>1. DOMAIN s = 1 .. Len(s) /\ Len(s) \in Nat
  OBVIOUS
<1>2. s = [i \in 1 .. Len(s) |-> s[i]]
  BY <1>1
<1>3. s \in [1 .. Len(s) -> T]
  BY <1>2
<1> QED
  BY <1>1, <1>3

LEMMA PathOfCall ==
  ASSUME TreeOK, StackOK, NEW new, new = Tail(frame_stack)
  PROVE  /\ new \in Seq(DOMAIN parent)
         /\ \A i \in DOMAIN new : parent[new[i]] = IF i = 1 THEN Top ELSE new[i - 1]
         /\ frame_stack[Levels] = IF new = <<>> THEN Top ELSE new[Len(new)]
<1>0. /\ Levels \in Nat \ {0} /\ frame_stack \in Seq(Known) /\ frame_stack[1] = Top
  BY DEF StackOK, Levels
<1>2. Len(new) = Levels - 1 /\ \A i \in 1 .. Levels - 1 : new[i] = frame_stack[i + 1]
  BY <1>0 DEF Levels
<1>3. new \in Seq(DOMAIN parent) /\ DOMAIN new = 1 .. Levels - 1
  <2>1. new \in Seq(Known)
    BY <1>0 DEF Levels
  <2>2. ASSUME NEW i \in 1 .. Levels - 1 PROVE new[i] \in DOMAIN parent
    <3>1. i + 1 \in 2 .. Levels
      BY <1>0
    <3> QED
      BY <3>1, <1>2 DEF StackOK
  <2> QED
    BY <1>0, <1>2, <2>1, <2>2, SameElements
<1>4. \A i \in DOMAIN new : parent[new[i]] = IF i = 1 THEN Top ELSE new[i - 1]
  <2> SUFFICES ASSUME NEW i \in 1 .. Levels - 1
               PROVE  parent[new[i]] = IF i = 1 THEN Top ELSE new[i - 1]
    BY <1>3
  <2>1. parent[new[i]] = frame_stack[i]
    <3>1. i + 1 \in 2 .. Levels /\ (i + 1) - 1 = i
      BY <1>0
    <3> QED
      BY <3>1, <1>2 DEF StackOK
  <2>2. i # 1 => i - 1 \in 1 .. Levels - 1 /\ (i - 1) + 1 = i
    BY <1>0
  <2> QED
    BY <1>0, <1>2, <2>1, <2>2
<1>5. frame_stack[Levels] = IF new = <<>> THEN Top ELSE new[Len(new)]
  <2>1. CASE Levels = 1
    BY <2>1, <1>0, <1>2, <1>3
  <2>2. CASE Levels # 1
    <3>1. Levels - 1 \in 1 .. Levels - 1 /\ (Levels - 1) + 1 = Levels /\ Len(new) # 0
      BY <2>2, <1>0, <1>2
    <3>2. new # <<>>
      BY <3>1
    <3> QED
      BY <3>1, <3>2, <1>2
  <2> QED
    BY <2>1, <2>2
<1> QED
  BY <1>3, <1>4, <1>5

LEMMA SourcesKept ==
  ASSUME TreeOK, StackOK, CallOK, DownOK, SourcesOK, [NextFrames]_frameVars
  PROVE  SourcesOK'
<1>0. /\ Levels \in Nat \ {0} /\ frame_stack \in Seq(Known) /\ frame_stack[1] = Top
  BY StackTypes DEF StackOK
<1>1. CASE CollectSource
  <2> DEFINE new == Tail(frame_stack)
  <2>1. /\ page_source' = [path \in DOMAIN page_source \cup {new} |->
                             IF path = new THEN context ELSE page_source[path]]
        /\ parent' = parent /\ context = frame_stack[Levels]
    BY <1>1 DEF CollectSource, tree, CallOK
  <2>2. /\ new \in Seq(DOMAIN parent)
        /\ \A i \in DOMAIN new : parent[new[i]] = IF i = 1 THEN Top ELSE new[i - 1]
        /\ context = IF new = <<>> THEN Top ELSE new[Len(new)]
    BY <2>1, PathOfCall
  <2> HIDE DEF new
  <2> QED
    BY <2>1, <2>2 DEF SourcesOK, EntriesAreTheirOwn, Path, Last
<1>2. CASE RecursiveDump
  BY <1>2 DEF RecursiveDump, SourcesOK, EntriesAreTheirOwn
<1>3. CASE AddFrame \/ RemoveFrame
  <2>1. /\ Known \subseteq Known' /\ DOMAIN parent \subseteq DOMAIN parent'
        /\ \A f \in DOMAIN parent : parent'[f] = parent[f]
        /\ page_source' = page_source
    BY <1>3, PageSteps
  <2>2. \A path \in DOMAIN page_source : path \in Seq(DOMAIN parent) /\ path \in Seq(DOMAIN parent')
    BY <2>1 DEF SourcesOK
  <2>3. \A path \in DOMAIN page_source : \A i \in DOMAIN path : path[i] \in DOMAIN parent
    BY <2>2
  <2> QED
    BY <2>1, <2>2, <2>3 DEF SourcesOK, EntriesAreTheirOwn, Path
<1>4. CASE UNCHANGED <<parent, page_source>>
  BY <1>4 DEF SourcesOK, EntriesAreTheirOwn, Path
<1> QED
  BY <1>1, <1>2, <1>3, <1>4
     DEF NextFrames, frameVars, tree, Call, FindFrames, SwitchToFrame, SkipStaleFrame, NoMoreFrames,
         Return, SwitchDown, PopFrame, Fail

LEMMA FoundKept ==
  ASSUME TreeOK, StackOK, CallOK, DownOK, SourcesOK, FoundOK, [NextFrames]_frameVars
  PROVE  FoundOK'
<1>0. /\ Levels \in Nat \ {0} /\ Len(frames) \in Nat /\ frame_stack \in Seq(Known)
      /\ frames \in Seq(SUBSET DOMAIN parent) /\ frame_stack[Levels] \in Known
      /\ Levels = 1 => frame_stack[Levels] = Top
  BY StackTypes
<1> DEFINE Left(f) == \E k \in DOMAIN frames : frame_stack[k] = parent[f] /\ f \in frames[k]
<1>1. CASE RecursiveDump
  <2>1. page_source' = <<>> /\ call_step' = "call" /\ Levels' = 1
    BY <1>1 DEF RecursiveDump, CallOK, Calls, Levels
  <2> QED
    BY <2>1 DEF FoundOK, Dumped
<1>2. CASE Call
  <2>1. /\ UNCHANGED <<parent, stable, frame_stack, frames, page_source>> /\ Levels' = Levels
        /\ call_step = "call" /\ call_step' = IF Levels - 1 > MaxDepth THEN "return" ELSE "collect"
    BY <1>2 DEF Call, TooDeep, tree, Levels
  <2>2. \A f : Shallow(f)' = Shallow(f) /\ Dumped(f)' = Dumped(f)
    BY <2>1, SameAncestors DEF Shallow, Dumped
  <2>3. ASSUME NEW f, Shallow(f), Ahead(f) PROVE Ahead(f)'
    <3>1. frame_stack[Levels] = f => Levels - 1 <= MaxDepth
      BY <1>0, <2>3 DEF Shallow, StackOK
    <3> QED
      BY <1>0, <2>1, <2>3, <3>1, DepthAssumption DEF Ahead
  <2>4. Dumped(Top)' \/ (call_step' = "collect" /\ Levels = 1)
    BY <1>0, <2>1, <2>2, DepthAssumption DEF FoundOK
  <2> QED
    BY <2>1, <2>2, <2>3, <2>4 DEF FoundOK
<1>3. CASE CollectSource
  <2> DEFINE new == Tail(frame_stack)
  <2>1. /\ page_source' = [path \in DOMAIN page_source \cup {new} |->
                             IF path = new THEN context ELSE page_source[path]]
        /\ UNCHANGED <<parent, stable, frame_stack, frames>> /\ Levels' = Levels
        /\ context = frame_stack[Levels] /\ call_step = "collect" /\ call_step' = "find"
    BY <1>3 DEF CollectSource, tree, CallOK, Levels
  <2>2. context = IF new = <<>> THEN Top ELSE new[Len(new)]
    BY <2>1, PathOfCall
  <2>3. new \in DOMAIN page_source => page_source[new] = context
    BY <2>2 DEF SourcesOK, EntriesAreTheirOwn, Last
  <2> HIDE DEF new
  <2>4. \A g : Dumped(g)' <=> Dumped(g) \/ g = context
    BY <2>1, <2>3 DEF Dumped
  <2>5. \A f : Shallow(f)' = Shallow(f)
    BY <2>1, SameAncestors DEF Shallow
  <2>6. \A f : Ahead(f) => Ahead(f)' \/ f = context
    BY <2>1 DEF Ahead
  <2>7. \A f : parent[f] = context => Ahead(f)'
    BY <2>1 DEF Ahead
  <2>8. Dumped(Top)'
    <3>1. Levels > 1 \/ Levels = 1
      BY <1>0
    <3> QED
      BY <1>0, <2>1, <2>4, <3>1 DEF FoundOK
  <2> QED
    BY <2>1, <2>4, <2>5, <2>6, <2>7, <2>8 DEF FoundOK
<1>4. CASE FindFrames
  <2>1. /\ frames' = Append(frames, In(context)) /\ Len(frames) = Levels - 1
        /\ UNCHANGED <<parent, stable, frame_stack, page_source>> /\ Levels' = Levels
        /\ context = frame_stack[Levels] /\ call_step = "find" /\ call_step' = "next"
    BY <1>4 DEF FindFrames, tree, CallOK, Levels
  <2>2. In(context) \in SUBSET DOMAIN parent
    BY DEF In, TreeOK
  <2>3. /\ Levels \in DOMAIN frames' /\ frames'[Levels] = In(context)
        /\ \A k \in DOMAIN frames : k \in DOMAIN frames' /\ frames'[k] = frames[k]
    BY <1>0, <2>1, <2>2
  <2>4. \A f : Shallow(f)' = Shallow(f) /\ Dumped(f)' = Dumped(f)
    BY <2>1, SameAncestors DEF Shallow, Dumped
  <2>5. ASSUME NEW f \in stable, Ahead(f) PROVE Ahead(f)'
    <3>1. CASE Left(f)
      BY <3>1, <2>1, <2>3 DEF Ahead
    <3>2. CASE frame_stack[Levels] = parent[f]
      <4>1. f \in frames'[Levels]
        BY <3>2, <2>1, <2>3 DEF In, TreeOK
      <4> QED
        BY <3>2, <4>1, <2>1, <2>3 DEF Ahead
    <3> QED
      BY <2>1, <2>5, <3>1, <3>2 DEF Ahead
  <2> QED
    BY <2>1, <2>4, <2>5 DEF FoundOK
<1>5. CASE SwitchToFrame
  <2>1. PICK g \in Last(frames) \cap In(context) :
          /\ frames' = [frames EXCEPT ![Len(frames)] = @ \ {g}]
          /\ frame_stack' = Append(frame_stack, g)
    BY <1>5 DEF SwitchToFrame
  <2>2. /\ UNCHANGED <<parent, stable, page_source>> /\ Len(frames) = Levels
        /\ call_step = "next" /\ call_step' = "call"
    BY <1>5 DEF SwitchToFrame, tree, CallOK
  <2>3. g \in Known
    BY DEF In, TreeOK, Known
  <2>4. /\ DOMAIN frames' = DOMAIN frames /\ DOMAIN frames = 1 .. Levels
        /\ \A k \in DOMAIN frames : frames[k] \ {g} \subseteq frames'[k]
        /\ \A k \in DOMAIN frames : frame_stack'[k] = frame_stack[k]
        /\ Levels' = Levels + 1 /\ frame_stack'[Levels'] = g
    BY <1>0, <2>1, <2>2, <2>3 DEF Levels
  <2>5. \A f : Shallow(f)' = Shallow(f) /\ Dumped(f)' = Dumped(f)
    BY <2>2, SameAncestors DEF Shallow, Dumped
  <2>6. \A f : Ahead(f) => Ahead(f)'
    BY <2>2, <2>4 DEF Ahead
  <2> QED
    BY <2>2, <2>5, <2>6 DEF FoundOK
<1>6. CASE SkipStaleFrame
  <2>1. PICK g \in Last(frames) \ In(context) : frames' = [frames EXCEPT ![Len(frames)] = @ \ {g}]
    BY <1>6 DEF SkipStaleFrame
  <2>2. /\ UNCHANGED <<parent, stable, frame_stack, page_source>> /\ Len(frames) = Levels
        /\ Levels' = Levels /\ context = frame_stack[Levels]
        /\ call_step = "next" /\ call_step' = "next"
    BY <1>6 DEF SkipStaleFrame, tree, CallOK, Levels
  <2>3. /\ DOMAIN frames' = DOMAIN frames
        /\ \A k \in DOMAIN frames : frames[k] \ {g} \subseteq frames'[k]
        /\ \A k \in DOMAIN frames : k # Levels => frames'[k] = frames[k]
    BY <1>0, <2>1, <2>2
  <2>4. \A f : Shallow(f)' = Shallow(f) /\ Dumped(f)' = Dumped(f)
    BY <2>2, SameAncestors DEF Shallow, Dumped
  <2>5. ASSUME NEW f \in stable, Ahead(f) PROVE Ahead(f)'
    <3>1. PICK k \in DOMAIN frames : frame_stack[k] = parent[f] /\ f \in frames[k]
      BY <2>2, <2>5 DEF Ahead
    <3>2. k = Levels => f \in In(context)
      BY <3>1, <2>2 DEF In, TreeOK
    <3>3. f \in frames'[k]
      BY <3>1, <3>2, <2>1, <2>3
    <3> QED
      BY <3>1, <3>3, <2>2, <2>3 DEF Ahead
  <2> QED
    BY <2>2, <2>4, <2>5 DEF FoundOK
<1>7. CASE NoMoreFrames
  <2>1. /\ frames' = SubSeq(frames, 1, Levels - 1) /\ frames[Levels] = {} /\ Len(frames) = Levels
        /\ UNCHANGED <<parent, stable, frame_stack, page_source>> /\ Levels' = Levels
        /\ call_step = "next" /\ call_step' = "return"
    BY <1>7 DEF NoMoreFrames, Front, Last, tree, CallOK, Levels
  <2>2. \A k \in DOMAIN frames : k = Levels \/ (k \in DOMAIN frames' /\ frames'[k] = frames[k])
    BY <1>0, <2>1
  <2>3. \A f : Shallow(f)' = Shallow(f) /\ Dumped(f)' = Dumped(f)
    BY <2>1, SameAncestors DEF Shallow, Dumped
  <2>4. \A f : Ahead(f) => Ahead(f)'
    BY <2>1, <2>2 DEF Ahead
  <2> QED
    BY <2>1, <2>3, <2>4 DEF FoundOK
<1>8. CASE Return \/ SwitchDown
  <2>1. /\ UNCHANGED <<parent, stable, frame_stack, frames, page_source>> /\ Levels' = Levels
        /\ call_step \in {"return", "parent"}
        /\ call_step' \in {"parent", "done"}
    BY <1>8 DEF Return, SwitchDown, tree, Levels
  <2>2. \A f : Shallow(f)' = Shallow(f) /\ Dumped(f)' = Dumped(f)
    BY <2>1, SameAncestors DEF Shallow, Dumped
  <2>3. \A f : Ahead(f) => Ahead(f)'
    BY <2>1 DEF Ahead
  <2> QED
    BY <2>1, <2>2, <2>3 DEF FoundOK
<1>9. CASE PopFrame
  <2>1. /\ frame_stack' = SubSeq(frame_stack, 1, Levels - 1) /\ Len(frames) = Levels - 1
        /\ UNCHANGED <<parent, stable, frames, page_source>>
        /\ call_step = "parent" /\ call_step' = "next"
    BY <1>9 DEF PopFrame, Front, tree, CallOK, Levels
  <2>2. \A k \in DOMAIN frames : frame_stack'[k] = frame_stack[k]
    BY <1>0, <2>1 DEF Levels
  <2>3. \A f : Shallow(f)' = Shallow(f) /\ Dumped(f)' = Dumped(f)
    BY <2>1, SameAncestors DEF Shallow, Dumped
  <2>4. \A f : Ahead(f) => Ahead(f)'
    BY <2>1, <2>2 DEF Ahead
  <2> QED
    BY <2>1, <2>3, <2>4 DEF FoundOK
<1>10. CASE Fail
  <2>1. call_step' = "failed" /\ Levels' = 1
    BY <1>10 DEF Fail, Levels
  <2> QED
    BY <2>1 DEF FoundOK
<1>11. CASE AddFrame \/ RemoveFrame
  <2>1. /\ \A f \in DOMAIN parent : parent'[f] = parent[f]
        /\ \A f \in Known : Ancestors(f)' = Ancestors(f)
        /\ stable' \subseteq stable
        /\ UNCHANGED <<call_step, frame_stack, frames, page_source>>
    BY <1>11, PageSteps
  <2>2. \A f : Dumped(f)' = Dumped(f)
    BY <2>1 DEF Dumped
  <2>3. \A f \in stable : f \in DOMAIN parent /\ Shallow(f)' = Shallow(f) /\ parent'[f] = parent[f]
    BY <2>1 DEF TreeOK, Shallow, Known
  <2>4. Levels' = Levels
    BY <2>1 DEF Levels
  <2>5. \A f \in stable : Ahead(f) => Ahead(f)'
    BY <2>1, <2>3, <2>4 DEF Ahead
  <2> QED
    BY <2>1, <2>2, <2>3, <2>4, <2>5 DEF FoundOK
<1>12. CASE UNCHANGED frameVars
  BY <1>12, SameAncestors DEF frameVars, FoundOK, Levels, Dumped, Ahead, Shallow
<1> QED
  BY <1>1, <1>2, <1>3, <1>4, <1>5, <1>6, <1>7, <1>8, <1>9, <1>10, <1>11, <1>12 DEF NextFrames

-----------------------------------------------------------------------------
(* In every state of a dump: each frame on the stack is in the one before, *)
(* at its depth; the driver is in the last of them, or on the way back to  *)
(* it; and a frame that stays was dumped or is still ahead                 *)
(* (execute_in_all_frames, switch_to_parent_frame).                        *)
THEOREM DumpsAreInOrder == FramesSpec => []FramesInv
<1>1. InitFrames => FramesInv
  <2> SUFFICES ASSUME InitFrames PROVE FramesInv
    OBVIOUS
  <2>1. TreeOK
    <3>1. /\ DOMAIN parent \subseteq Frames /\ parent \in [DOMAIN parent -> DOMAIN parent \cup {Top}]
          /\ \A S \in SUBSET DOMAIN parent : S # {} => \E f \in S : parent[f] \notin S
      BY TreesAssumption DEF InitFrames
    <3> QED
      BY <3>1 DEF InitFrames, TreeOK, Forest, Known, IsThere
  <2>2. StackOK
    BY <2>1, TopAlone DEF InitFrames
  <2>3. /\ frames \in Seq(SUBSET DOMAIN parent) /\ Len(frames) = 0 /\ Levels = 1
        /\ down \in Seq(Known) /\ DOMAIN page_source = {} /\ context \in Known
    BY DEF InitFrames, Levels, Known
  <2> QED
    BY <2>1, <2>2, <2>3, DepthAssumption
       DEF InitFrames, FramesInv, CallOK, Calls, Depths, DownOK, SourcesOK, EntriesAreTheirOwn, FoundOK
<1>2. FramesInv /\ [NextFrames]_frameVars => FramesInv'
  BY TreeKept, StackKept, CallKept, DownKept, SourcesKept, FoundKept DEF FramesInv
<1> QED
  BY <1>1, <1>2, PTL DEF FramesSpec

(* What is dumped for a frame is its own source, under the frames that it  *)
(* is in, although frames come and go meanwhile (execute_in_all_frames,    *)
(* collect_source).                                                        *)
THEOREM SourcesAreTheirOwn == FramesSpec => []EntriesAreTheirOwn
<1>1. FramesInv => EntriesAreTheirOwn
  BY DEF FramesInv, SourcesOK
<1> QED
  BY <1>1, DumpsAreInOrder, PTL

(* A dump that succeeds leaves the driver at the top and the stack as it   *)
(* was (switch_to_parent_frame, finally).                                  *)
THEOREM TopComesBack == FramesSpec => []TopIsRestored
<1>1. FramesInv => TopIsRestored
  BY DEF FramesInv, CallOK, Calls, TopIsRestored
<1> QED
  BY <1>1, DumpsAreInOrder, PTL

(* A frame that was there all the time, no deeper than max_depth, is in a  *)
(* dump that succeeds, for any page, any depth and any number of dumps.    *)
THEOREM StableFramesInDump == FramesSpec => []StableFramesAreDumped
<1>1. FramesInv => StableFramesAreDumped
  <2> SUFFICES ASSUME FramesInv, call_step = "done", NEW f \in stable,
                      Cardinality(Ancestors(f)) <= MaxDepth
               PROVE  \E path \in DOMAIN page_source : path # <<>> /\ Last(path) = f
    BY DEF StableFramesAreDumped
  <2>1. TreeOK /\ StackOK /\ CallOK /\ SourcesOK /\ FoundOK /\ Dumped(Top)
    BY DEF FramesInv, FoundOK
  <2>2. frames = <<>>
    BY <2>1 DEF CallOK, Calls, Levels
  <2>3. \A g \in stable : Shallow(g) /\ Dumped(parent[g]) => Dumped(g)
    BY <2>1, <2>2 DEF FoundOK, Ahead
  <2> DEFINE missing == {g \in stable : Shallow(g) /\ ~Dumped(g)}
  <2>4. ASSUME NEW g \in missing PROVE parent[g] \in missing
    <3>1. g \in DOMAIN parent /\ ~Dumped(parent[g])
      BY <2>1, <2>3 DEF TreeOK
    <3>2. parent[g] \in stable
      BY <2>1, <3>1 DEF TreeOK
    <3>3. Shallow(parent[g])
      BY <2>1, <3>1, DepthOfFrame, FiniteAncestors, DepthAssumption DEF Shallow
    <3> QED
      BY <3>1, <3>2, <3>3
  <2>5. missing \in SUBSET DOMAIN parent
    BY <2>1 DEF TreeOK
  <2>6. f \notin missing
    <3> HIDE DEF missing
    <3> QED
      BY <2>1, <2>4, <2>5 DEF TreeOK, Forest
  <2>7. PICK path \in DOMAIN page_source : page_source[path] = f
    BY <2>6 DEF Shallow, Dumped
  <2>8. f # Top
    BY <2>1, FramesAssumption DEF TreeOK
  <2> QED
    BY <2>1, <2>7, <2>8 DEF SourcesOK, EntriesAreTheirOwn
<1> QED
  BY <1>1, DumpsAreInOrder, PTL

-----------------------------------------------------------------------------
(* The screenshots.  The parts of a full page join if the page keeps its   *)
(* place, and are alone if no other full page was asked for before.        *)

(* The command at a place, and the steps of a full page.                   *)
Full(i) == commands[i].kind = "full"
Taking == shot_step \in {"full", "first", "part", "scroll", "position", "stitch"}

ScreensTyped ==
    /\ visit_id \in Nat \ {0} /\ page \in {NoPage, visit_id}
    /\ commands \in Seq([kind : {"get", "save", "full"}, suffix : ShotSuffixes])
    /\ at \in 0 .. Len(commands) /\ undisturbed \in BOOLEAN
    /\ scrollHeight \in Nat /\ scrollY \in 0 .. Lowest
    /\ max_height \in Nat /\ start \in Nat /\ curr_scrollY \in Nat
    /\ prev_scrollY \in Nat \cup {-1} /\ part \in Nat
    /\ DOMAIN parts \subseteq
         [visit : 1 .. visit_id, suffix : ShotSuffixes, index : Nat, scroll : Nat]

(* The command that is executed, whose page was asked for.                 *)
CommandOK ==
    /\ shot_step \in {"build", "next", "get", "mitigate", "save"} \/ Taking
    /\ shot_step = "build" => at = 0
    /\ shot_step \in {"get", "mitigate"} => at >= 1 /\ commands[at].kind = "get"
    /\ shot_step = "save" => at >= 1 /\ commands[at].kind = "save"
    /\ Taking => at >= 1 /\ Full(at)
    /\ contains_get_or_browse => Len(commands) >= 1 /\ commands[1].kind = "get"
    /\ ~contains_get_or_browse => commands = <<>>
    /\ at = 0 \/ (at = 1 /\ shot_step = "get") \/ page = visit_id

(* There is a part of each index up to some, and up to the last that this  *)
(* command saved.                                                          *)
Limit == IF shot_step \in {"scroll", "stitch"} THEN part + 1 ELSE part
IndexesOK ==
    /\ \E m \in Nat : Indexes = 0 .. m - 1
    /\ Taking => 0 .. Limit - 1 \subseteq Indexes
    /\ shot_step \in {"full", "first"} => part = 0 /\ prev_scrollY = -1

(* Without another full page in the visit, all parts are of this command.  *)
Earlier == \E i \in 1 .. at - 1 : Full(i)
OwnParts ==
    /\ ~Taking /\ (\A i \in 1 .. at : ~Full(i)) => PartsOfVisit = {}
    /\ Taking /\ ~Earlier =>
         /\ \A p \in PartsOfVisit : p.index < Limit
         /\ \A p, q \in PartsOfVisit : p.index = q.index => p = q

(* If the page keeps its place they show the rows where they are on the    *)
(* page, from the first position to the bottom of the window.              *)
Covers(p, y) == p.scroll <= y /\ y < p.scroll + InnerHeight
Seen(images, from, to) ==
    /\ \A y \in from .. to + InnerHeight - 1 : \E p \in images : Covers(p, y)
    /\ \A p \in images : p.scroll <= to
    /\ \E p \in images : p.scroll = to
SeenTo(scroll) == Seen(PartsOfVisit, start, scroll)
Scrolled(from, to) ==
    /\ from \in Nat /\ from <= to /\ to <= from + InnerHeight
    /\ to = from => max_height <= from + InnerHeight
Undisturbed ==
    /\ \A p \in PartsOfVisit : parts[p] = Row(visit_id, p.scroll)
    /\ shot_step # "full" => max_height <= scrollHeight
    /\ shot_step = "part" =>
         /\ curr_scrollY = scrollY
         /\ \/ part = 0 /\ curr_scrollY = start /\ prev_scrollY = -1
            \/ part > 0 /\ Scrolled(prev_scrollY, curr_scrollY) /\ SeenTo(prev_scrollY)
    /\ shot_step \in {"scroll", "stitch"} => curr_scrollY = scrollY /\ SeenTo(curr_scrollY)
    /\ shot_step = "position" => part > 0 /\ Scrolled(prev_scrollY, scrollY) /\ SeenTo(prev_scrollY)
    /\ shot_step = "stitch" => max_height <= curr_scrollY + InnerHeight
PlaceOK == Taking /\ ~Earlier /\ undisturbed => Undisturbed

(* A picture of either kind, and the invariant.                            *)
Right(n, picture) ==
    /\ picture.page = n.visit
    /\ picture.kind = "full" /\ picture.single /\ picture.undisturbed =>
         /\ \A y \in DOMAIN picture.rows : picture.rows[y] \in {Row(n.visit, y), Black}
         /\ \A y \in picture.from .. picture.to - 1 : Shows(picture, y)
PicturesRight == \A n \in DOMAIN pictures : Right(n, pictures[n])
ScreensInv ==
    ScreensTyped /\ CommandOK /\ IndexesOK /\ OwnParts /\ PlaceOK /\ PicturesRight

-----------------------------------------------------------------------------
(* The largest and the smallest of two.                                    *)
LEMMA MaxOfTwo ==
  ASSUME NEW a \in Int, NEW b \in Int
  PROVE  Max({a, b}) = IF a >= b THEN a ELSE b
<1> DEFINE m == IF a >= b THEN a ELSE b
<1>1. m \in {a, b} /\ \A x \in {a, b} : m >= x
  OBVIOUS
<1>2. \A y \in {a, b} : (\A x \in {a, b} : y >= x) => y = m
  BY DEF m
<1> HIDE DEF m
<1>3. Max({a, b}) = m
  BY <1>1, <1>2 DEF Max
<1> QED
  BY <1>3 DEF m

LEMMA MinOfTwo ==
  ASSUME NEW a \in Int, NEW b \in Int
  PROVE  Min({a, b}) = IF a <= b THEN a ELSE b
<1> DEFINE m == IF a <= b THEN a ELSE b
<1>1. m \in {a, b} /\ \A x \in {a, b} : m <= x
  OBVIOUS
<1>2. \A y \in {a, b} : (\A x \in {a, b} : y <= x) => y = m
  BY DEF m
<1> HIDE DEF m
<1>3. Min({a, b}) = m
  BY <1>1, <1>2 DEF Min
<1> QED
  BY <1>3 DEF m

LEMMA LargestIs ==
  ASSUME NEW S, S \subseteq Nat, NEW m \in S, \A x \in S : m >= x
  PROVE  Max(S) = m
<1>1. \A y \in S : (\A x \in S : y >= x) => y = m
  OBVIOUS
<1> QED
  BY <1>1 DEF Max

(* Any set of numbers up to some has a largest.                            *)
LEMMA HasLargest ==
  ASSUME NEW n \in Nat, NEW S \in SUBSET (0 .. n), S # {}
  PROVE  \E m \in S : \A x \in S : m >= x
<1> DEFINE I == {x .. n : x \in S}
<1>1. IsWellFoundedOn(StrictSubsetOrdering(Nat), FiniteSubsetsOf(Nat))
  BY FS_StrictSubsetOrderingWellFounded
<1>2. \A x \in S : x .. n \in FiniteSubsetsOf(Nat)
  BY FS_Interval DEF FiniteSubsetsOf
<1>3. I \subseteq FiniteSubsetsOf(Nat) /\ I # {}
  BY <1>2
<1>4. PICK s \in I : \A t \in I : <<t, s>> \notin StrictSubsetOrdering(Nat)
  <2> HIDE DEF I
  <2> QED
    BY <1>1, <1>3, WFMin
<1>5. PICK m \in S : s = m .. n
  BY <1>4
<1>6. ASSUME NEW x \in S, ~(m >= x) PROVE FALSE
  <2>1. x .. n \in I /\ x \in 0 .. n /\ m \in 0 .. n
    OBVIOUS
  <2>2. m \in s /\ m \notin x .. n /\ x .. n \subseteq s /\ s \subseteq Nat
    BY <1>5, <1>6, <2>1
  <2>3. <<x .. n, s>> \in StrictSubsetOrdering(Nat)
    BY <2>2 DEF StrictSubsetOrdering
  <2> QED
    BY <1>4, <2>1, <2>3
<1> QED
  BY <1>6

LEMMA LowestOf ==
  \A h \in Nat : Max({0, h - InnerHeight}) = IF h >= InnerHeight THEN h - InnerHeight ELSE 0
BY MaxOfTwo, HeightsAssumption

(* Two full pages among the commands are more than one.                    *)
LEMMA SingleIsNotEarlier ==
  ASSUME at \in Nat \ {0}, Full(at), Cardinality({i \in 1 .. at : Full(i)}) <= 1
  PROVE  ~Earlier
<1> SUFFICES ASSUME NEW i \in 1 .. at - 1, Full(i) PROVE FALSE
  BY DEF Earlier
<1> DEFINE S == {j \in 1 .. at : Full(j)}
<1>1. IsFiniteSet(1 .. at)
  BY FS_Interval
<1>2. IsFiniteSet(S)
  BY <1>1, FS_Subset
<1>3. i \in S /\ at \in S /\ i # at
  OBVIOUS
<1> HIDE DEF S
<1>4. /\ Cardinality(S) \in Nat /\ IsFiniteSet(S \ {i}) /\ Cardinality(S \ {i}) = Cardinality(S) - 1
  BY <1>2, <1>3, FS_RemoveElement, FS_CardinalityType
<1>5. Cardinality((S \ {i}) \ {at}) = Cardinality(S \ {i}) - 1 /\ IsFiniteSet((S \ {i}) \ {at})
  BY <1>3, <1>4, FS_RemoveElement
<1>6. Cardinality((S \ {i}) \ {at}) \in Nat
  BY <1>5, FS_CardinalityType
<1>7. Cardinality(S) <= 1
  BY DEF S
<1> QED
  BY <1>4, <1>5, <1>6, <1>7

-----------------------------------------------------------------------------
(* The types, and how the page scrolls.                                    *)
LEMMA LowestIs ==
  ASSUME ScreensTyped
  PROVE  /\ Lowest = IF scrollHeight >= InnerHeight THEN scrollHeight - InnerHeight ELSE 0
         /\ Lowest \in Nat /\ scrollY \in Nat /\ scrollY <= Lowest /\ scrollHeight \in Nat
<1>1. Lowest = IF scrollHeight >= InnerHeight THEN scrollHeight - InnerHeight ELSE 0
  BY LowestOf DEF Lowest, ScreensTyped
<1>2. Lowest \in Nat
  BY <1>1, HeightsAssumption DEF ScreensTyped
<1> QED
  BY <1>1, <1>2 DEF ScreensTyped

LEMMA ScrollIs ==
  ASSUME ScreensTyped, Scroll
  PROVE  /\ scrollY' \in scrollY .. Lowest /\ UNCHANGED <<page, scrollHeight>>
         /\ undisturbed' => /\ undisturbed /\ scrollY' <= scrollY + InnerHeight
                            /\ scrollY' = scrollY => scrollHeight <= scrollY + InnerHeight
<1>1. /\ Lowest = IF scrollHeight >= InnerHeight THEN scrollHeight - InnerHeight ELSE 0
      /\ Lowest \in Nat /\ scrollY \in Nat /\ scrollY <= Lowest /\ scrollHeight \in Nat
  BY LowestIs
<1>2. InnerHeight \in Nat \ {0}
  BY HeightsAssumption
<1>3. Min({scrollY + InnerHeight, Lowest}) =
        IF scrollY + InnerHeight <= Lowest THEN scrollY + InnerHeight ELSE Lowest
  BY <1>1, <1>2, MinOfTwo
<1>4. CASE scrollY' = Min({scrollY + InnerHeight, Lowest}) /\ UNCHANGED undisturbed
  BY <1>1, <1>2, <1>3, <1>4 DEF Scroll
<1>5. CASE undisturbed' = FALSE /\ UNCHANGED scrollY
  BY <1>1, <1>5 DEF Scroll
<1> QED
  BY <1>4, <1>5 DEF Scroll

LEMMA PartIsSaved ==
  ASSUME ScreensTyped, CommandOK, SavePart
  PROVE  /\ PartName \in [visit : 1 .. visit_id, suffix : ShotSuffixes, index : Nat, scroll : Nat]
         /\ PartName.visit = visit_id /\ PartName.index = part /\ PartName.scroll = curr_scrollY
         /\ PartsOfVisit' = PartsOfVisit \cup {PartName} /\ DOMAIN parts' = DOMAIN parts \cup {PartName}
         /\ parts'[PartName] = Row(page, scrollY)
         /\ \A p \in PartsOfVisit : p # PartName => parts'[p] = parts[p]
<1>1. at \in 1 .. Len(commands)
  BY DEF SavePart, CommandOK, Taking, ScreensTyped
<1> DEFINE Command == [kind : {"get", "save", "full"}, suffix : ShotSuffixes]
<1>5. commands[at] \in Command
  <2>1. commands \in Seq(Command)
    BY DEF ScreensTyped
  <2> HIDE DEF Command
  <2> QED
    BY <1>1, <2>1
<1>2. /\ PartName.visit = visit_id /\ PartName.index = part /\ PartName.scroll = curr_scrollY
      /\ PartName \in [visit : 1 .. visit_id, suffix : ShotSuffixes, index : Nat, scroll : Nat]
  BY <1>5 DEF PartName, ScreensTyped
<1>3. parts' = [n \in DOMAIN parts \cup {PartName} |-> IF n = PartName THEN Row(page, scrollY) ELSE parts[n]]
  BY DEF SavePart, Put
<1>4. visit_id' = visit_id
  BY DEF SavePart, sequence
<1> HIDE DEF PartName
<1> QED
  BY <1>2, <1>3, <1>4 DEF PartsOfVisit

LEMMA TypedKept ==
  ASSUME ScreensTyped, CommandOK, [NextScreens]_screenVars
  PROVE  ScreensTyped'
<1> USE HeightsAssumption DEF sequence, browser, locals, files
<1>1. CASE Get
  <2>1. [kind |-> "get", suffix |-> CHOOSE s \in ShotSuffixes : TRUE]
          \in [kind : {"get", "save", "full"}, suffix : ShotSuffixes]
    BY SuffixesAssumption
  <2>2. UNCHANGED <<visit_id, at, browser, undisturbed, locals, parts>> /\ commands' \in
          Seq([kind : {"get", "save", "full"}, suffix : ShotSuffixes]) /\ Len(commands') = Len(commands) + 1
    BY <1>1, <2>1 DEF Get, ScreensTyped
  <2> QED
    BY <2>2 DEF ScreensTyped, Lowest
<1>2. CASE AddScreenshot
  <2>1. PICK k \in {"save", "full"}, s \in ShotSuffixes :
          commands' = Append(commands, [kind |-> k, suffix |-> s])
    BY <1>2 DEF AddScreenshot
  <2>2. [kind |-> k, suffix |-> s] \in [kind : {"get", "save", "full"}, suffix : ShotSuffixes]
    OBVIOUS
  <2>3. UNCHANGED <<visit_id, at, browser, undisturbed, locals, parts>> /\ commands' \in
          Seq([kind : {"get", "save", "full"}, suffix : ShotSuffixes]) /\ Len(commands') = Len(commands) + 1
    BY <1>2, <2>1, <2>2 DEF AddScreenshot, ScreensTyped
  <2> QED
    BY <2>3 DEF ScreensTyped, Lowest
<1>3. CASE NextCommand
  BY <1>3 DEF NextCommand, NoLocals, ScreensTyped, Lowest
<1>4. CASE EndVisit
  <2>1. Lowest' \in Nat
    BY <1>4, LowestOf DEF EndVisit, Lowest
  <2> QED
    BY <1>4, <2>1 DEF EndVisit, NoLocals, ScreensTyped, NoPage
<1>5. CASE Load
  <2>1. scrollHeight' \in Nat /\ Lowest' \in Nat
    BY <1>5, LowestOf DEF Load, Lowest
  <2> QED
    BY <1>5, <2>1 DEF Load, ScreensTyped
<1>6. CASE ScrollDown
  BY <1>6 DEF ScrollDown, ScreensTyped, Lowest
<1>7. CASE SaveScreenshot \/ GiveUp \/ Stitch
  BY <1>7 DEF SaveScreenshot, GiveUp, Stitch, ScreensTyped, Lowest
<1>8. CASE ReadHeight \/ ReadStart \/ ReadScroll
  BY <1>8, LowestIs DEF ReadHeight, ReadStart, ReadScroll, ScreensTyped, Lowest
<1>9. CASE SavePart
  BY <1>9, PartIsSaved DEF SavePart, ScreensTyped, Lowest
<1>10. CASE Scroll
  <2>1. scrollY' \in 0 .. Lowest /\ Lowest' = Lowest
    BY <1>10, ScrollIs, LowestIs DEF Lowest
  <2>2. undisturbed' \in BOOLEAN
    BY <1>10 DEF Scroll, ScreensTyped
  <2>3. /\ part' = part + 1 /\ prev_scrollY' = curr_scrollY
        /\ UNCHANGED <<sequence, page, scrollHeight, max_height, start, curr_scrollY, files>>
    BY <1>10 DEF Scroll
  <2> QED
    BY <2>1, <2>2, <2>3 DEF ScreensTyped
<1>11. CASE Grow
  <2>1. PICK h \in Heights : h > scrollHeight /\ scrollHeight' = h
    BY <1>11 DEF Grow
  <2>2. Lowest' = IF h >= InnerHeight THEN h - InnerHeight ELSE 0
    BY <2>1, LowestOf DEF Lowest
  <2>3. Lowest' \in Nat /\ Lowest <= Lowest' /\ scrollHeight' \in Nat
    BY <2>1, <2>2, LowestIs
  <2>4. scrollY' \in 0 .. Lowest'
    BY <1>11, <2>3, LowestIs DEF Grow
  <2> QED
    BY <1>11, <2>3, <2>4 DEF Grow, ScreensTyped
<1>12. CASE Disturb
  BY <1>12, LowestOf DEF Disturb, ScreensTyped, Lowest
<1>13. CASE UNCHANGED screenVars
  BY <1>13 DEF screenVars, ScreensTyped, Lowest
<1> QED
  BY <1>1, <1>2, <1>3, <1>4, <1>5, <1>6, <1>7, <1>8, <1>9, <1>10, <1>11, <1>12, <1>13
     DEF NextScreens, ScreenCommandNext, Finalize, RestartBrowser

LEMMA CommandTypes ==
  ASSUME ScreensTyped
  PROVE  /\ at \in Nat /\ Len(commands) \in Nat /\ at <= Len(commands)
         /\ \A i \in 1 .. Len(commands) : commands[i].kind \in {"get", "save", "full"}
<1> DEFINE Command == [kind : {"get", "save", "full"}, suffix : ShotSuffixes]
<1>1. commands \in Seq(Command) /\ at \in 0 .. Len(commands)
  BY DEF ScreensTyped
<1> HIDE DEF Command
<1>2. at \in Nat /\ Len(commands) \in Nat /\ at <= Len(commands)
  BY <1>1
<1>3. \A i \in 1 .. Len(commands) : commands[i] \in Command
  BY <1>1
<1> QED
  BY <1>2, <1>3 DEF Command

LEMMA CommandKept ==
  ASSUME ScreensTyped, CommandOK, [NextScreens]_screenVars
  PROVE  CommandOK'
<1>0. /\ at \in Nat /\ Len(commands) \in Nat /\ at <= Len(commands)
      /\ \A i \in 1 .. Len(commands) : commands[i].kind \in {"get", "save", "full"}
  BY CommandTypes
<1> USE DEF sequence, browser, locals, files, Taking
<1>1. CASE Get
  <2>1. /\ commands' = Append(commands, [kind |-> "get", suffix |-> CHOOSE s \in ShotSuffixes : TRUE])
        /\ shot_step = "build" /\ at = 0 /\ contains_get_or_browse' = TRUE
        /\ UNCHANGED <<at, shot_step, page, visit_id>>
    BY <1>1 DEF Get, CommandOK
  <2>2. Len(commands') >= 1 /\ commands'[1].kind = "get"
    <3>1. CASE contains_get_or_browse
      BY <1>0, <2>1, <3>1 DEF CommandOK, ScreensTyped
    <3>2. CASE ~contains_get_or_browse
      <4>1. commands = <<>>
        BY <3>2 DEF CommandOK
      <4> QED
        BY <2>1, <4>1
    <3> QED
      BY <3>1, <3>2
  <2> QED
    BY <2>1, <2>2 DEF CommandOK
<1>2. CASE AddScreenshot
  <2>1. PICK c : commands' = Append(commands, c)
    BY <1>2 DEF AddScreenshot
  <2>2. /\ shot_step = "build" /\ at = 0 /\ contains_get_or_browse
        /\ UNCHANGED <<contains_get_or_browse, at, shot_step, page, visit_id>>
    BY <1>2 DEF AddScreenshot, CommandOK
  <2>3. Len(commands') >= 1 /\ commands'[1] = commands[1]
    BY <1>0, <2>1, <2>2 DEF CommandOK, ScreensTyped
  <2> QED
    BY <2>2, <2>3 DEF CommandOK
<1>3. CASE NextCommand
  <2>1. /\ at' = at + 1 /\ at + 1 \in 1 .. Len(commands) /\ shot_step' = commands[at + 1].kind
        /\ shot_step \in {"build", "next"}
        /\ UNCHANGED <<visit_id, commands, contains_get_or_browse, page>>
    BY <1>0, <1>3 DEF NextCommand
  <2>2. at + 1 = 1 \/ page = visit_id
    BY <2>1, <1>0 DEF CommandOK
  <2>3. at + 1 = 1 => shot_step' = "get"
    BY <2>1 DEF CommandOK
  <2>4. shot_step' \in {"get", "save", "full"}
    BY <1>0, <2>1
  <2> QED
    BY <1>0, <2>1, <2>2, <2>3, <2>4 DEF CommandOK, Full
<1>4. CASE EndVisit
  BY <1>4 DEF EndVisit, CommandOK
<1>5. CASE Load \/ ScrollDown \/ SaveScreenshot
  BY <1>0, <1>5 DEF Load, ScrollDown, SaveScreenshot, CommandOK
<1>6. CASE ReadHeight \/ ReadStart \/ SavePart \/ Scroll \/ ReadScroll \/ GiveUp \/ Stitch
  BY <1>0, <1>6 DEF ReadHeight, ReadStart, SavePart, Scroll, ReadScroll, GiveUp, Stitch, CommandOK, Full
<1>7. CASE Grow \/ Disturb \/ UNCHANGED screenVars
  BY <1>7 DEF Grow, Disturb, screenVars, CommandOK, Full
<1> QED
  BY <1>1, <1>2, <1>3, <1>4, <1>5, <1>6, <1>7
     DEF NextScreens, ScreenCommandNext, Finalize, RestartBrowser

-----------------------------------------------------------------------------
(* The parts on disk.                                                      *)
LEMMA SameParts ==
  ASSUME UNCHANGED <<parts, visit_id>>
  PROVE  PartsOfVisit' = PartsOfVisit /\ Indexes' = Indexes
BY DEF PartsOfVisit, Indexes

LEMMA NoPartsYet ==
  ASSUME ScreensTyped, EndVisit
  PROVE  PartsOfVisit' = {} /\ Indexes' = {} /\ ~Taking' /\ at' = 0
<1>1. \A p \in DOMAIN parts : p.visit \in 1 .. visit_id
  BY DEF ScreensTyped
<1>2. parts' = parts /\ visit_id' = visit_id + 1 /\ visit_id \in Nat
  BY DEF EndVisit, files, ScreensTyped
<1>3. PartsOfVisit' = {}
  BY <1>1, <1>2 DEF PartsOfVisit
<1> QED
  BY <1>3 DEF Indexes, EndVisit, Taking

LEMMA IndexesKept ==
  ASSUME ScreensTyped, CommandOK, IndexesOK, [NextScreens]_screenVars
  PROVE  IndexesOK'
<1> USE DEF sequence, browser, locals, files, Taking
<1>1. CASE EndVisit
  <2>1. Indexes' = 0 .. 0 - 1
    BY <1>1, NoPartsYet
  <2> QED
    BY <1>1, <2>1, NoPartsYet DEF IndexesOK
<1>2. CASE SavePart
  <2>1. Indexes' = Indexes \cup {part}
    BY <1>2, PartIsSaved DEF Indexes
  <2>2. PICK m \in Nat : Indexes = 0 .. m - 1
    BY DEF IndexesOK
  <2>3. 0 .. part - 1 \subseteq Indexes /\ part \in Nat
    BY <1>2 DEF IndexesOK, Limit, SavePart, ScreensTyped
  <2>4. part <= m
    BY <2>2, <2>3
  <2>5. Indexes' = 0 .. m - 1 \/ Indexes' = 0 .. (m + 1) - 1
    BY <2>1, <2>2, <2>3, <2>4
  <2>6. 0 .. (part + 1) - 1 \subseteq Indexes'
    BY <2>1, <2>3
  <2>7. Limit' = part + 1 /\ shot_step' \in {"scroll", "stitch"}
    BY <1>2 DEF SavePart, Limit
  <2> QED
    BY <2>2, <2>5, <2>6, <2>7 DEF IndexesOK
<1>3. CASE NextCommand
  <2>1. Indexes' = Indexes /\ part' = 0 /\ prev_scrollY' = -1
    BY <1>3, SameParts DEF NextCommand, NoLocals
  <2>2. shot_step' \in {"get", "save", "full"}
    BY <1>3, CommandTypes DEF NextCommand
  <2> QED
    BY <2>1, <2>2 DEF IndexesOK, Limit
<1>4. CASE ReadHeight \/ ReadStart \/ ReadScroll \/ Scroll
  <2>1. Indexes' = Indexes /\ Taking
    BY <1>4, SameParts DEF ReadHeight, ReadStart, ReadScroll, Scroll
  <2>2. Limit' = Limit
    BY <1>4 DEF ReadHeight, ReadStart, ReadScroll, Scroll, Limit
  <2>3. shot_step' \in {"full", "first"} => part' = 0 /\ prev_scrollY' = -1
    BY <1>4 DEF ReadHeight, ReadStart, ReadScroll, Scroll, IndexesOK
  <2> QED
    BY <2>1, <2>2, <2>3 DEF IndexesOK
<1>5. CASE Get \/ AddScreenshot \/ Load \/ ScrollDown \/ SaveScreenshot \/ GiveUp \/ Stitch
  <2>1. Indexes' = Indexes /\ ~Taking'
    BY <1>5, SameParts DEF Get, AddScreenshot, Load, ScrollDown, SaveScreenshot, GiveUp, Stitch
  <2> QED
    BY <2>1 DEF IndexesOK
<1>6. CASE Grow \/ Disturb \/ UNCHANGED screenVars
  <2>1. Indexes' = Indexes /\ UNCHANGED <<shot_step, part, prev_scrollY>>
    BY <1>6, SameParts DEF Grow, Disturb, screenVars
  <2> QED
    BY <2>1 DEF IndexesOK, Limit
<1> QED
  BY <1>1, <1>2, <1>3, <1>4, <1>5, <1>6
     DEF NextScreens, ScreenCommandNext, Finalize, RestartBrowser
LEMMA OwnKept ==
  ASSUME ScreensTyped, CommandOK, IndexesOK, OwnParts, [NextScreens]_screenVars
  PROVE  OwnParts'
<1> USE DEF sequence, browser, locals, files, Taking
<1>0. /\ at \in Nat /\ Len(commands) \in Nat /\ at <= Len(commands)
      /\ \A i \in 1 .. Len(commands) : commands[i].kind \in {"get", "save", "full"}
  BY CommandTypes
<1>1. CASE EndVisit
  BY <1>1, NoPartsYet DEF OwnParts
<1>2. CASE SavePart
  <2>1. /\ PartName.index = part /\ PartsOfVisit' = PartsOfVisit \cup {PartName}
        /\ Limit' = part + 1 /\ Limit = part /\ part \in Nat /\ Taking'
    BY <1>2, PartIsSaved DEF SavePart, Limit, ScreensTyped
  <2>2. Earlier' = Earlier
    BY <1>2 DEF SavePart, Earlier, Full
  <2>3. \A p \in PartsOfVisit : p.index \in Nat
    BY DEF PartsOfVisit, ScreensTyped
  <2>4. ASSUME ~Earlier
        PROVE  /\ \A p \in PartsOfVisit : p.index < part
               /\ \A p, q \in PartsOfVisit : p.index = q.index => p = q
    BY <1>2, <2>1, <2>4 DEF OwnParts, SavePart
  <2>5. ASSUME ~Earlier
        PROVE  /\ \A p \in PartsOfVisit' : p.index < part + 1
               /\ \A p, q \in PartsOfVisit' : p.index = q.index => p = q
    <3> HIDE DEF PartName
    <3> QED
      BY <2>1, <2>3, <2>4, <2>5
  <2> QED
    BY <2>1, <2>2, <2>5 DEF OwnParts
<1>3. CASE NextCommand
  <2>1. /\ PartsOfVisit' = PartsOfVisit /\ at' = at + 1 /\ commands' = commands /\ ~Taking
    BY <1>3, SameParts DEF NextCommand
  <2>2. ~(\E i \in 1 .. at : Full(i)) => PartsOfVisit = {}
    BY <2>1 DEF OwnParts
  <2>3. (Taking' /\ ~Earlier') \/ (\A i \in 1 .. at + 1 : ~Full(i)) => ~(\E i \in 1 .. at : Full(i))
    BY <1>0, <2>1 DEF Earlier, Full
  <2> QED
    BY <2>1, <2>2, <2>3 DEF OwnParts, Full
<1>4. CASE ReadHeight \/ ReadStart \/ ReadScroll \/ Scroll
  <2>1. PartsOfVisit' = PartsOfVisit /\ Taking /\ Taking'
    BY <1>4, SameParts DEF ReadHeight, ReadStart, ReadScroll, Scroll
  <2>2. Limit' = Limit /\ Earlier' = Earlier
    BY <1>4 DEF ReadHeight, ReadStart, ReadScroll, Scroll, Limit, Earlier, Full
  <2> QED
    BY <2>1, <2>2 DEF OwnParts
<1>5. CASE Get \/ AddScreenshot
  <2>1. PartsOfVisit' = PartsOfVisit /\ at = 0 /\ at' = 0 /\ ~Taking /\ ~Taking'
    BY <1>5, SameParts DEF Get, AddScreenshot, CommandOK
  <2> QED
    BY <2>1 DEF OwnParts
<1>6. CASE Load \/ ScrollDown \/ SaveScreenshot
  <2>1. PartsOfVisit' = PartsOfVisit /\ ~Taking /\ ~Taking' /\ at' = at /\ commands' = commands
    BY <1>6, SameParts DEF Load, ScrollDown, SaveScreenshot
  <2> QED
    BY <2>1 DEF OwnParts, Full
<1>7. CASE GiveUp \/ Stitch
  <2>1. Taking /\ ~Taking' /\ at' = at /\ commands' = commands
    BY <1>7 DEF GiveUp, Stitch
  <2>2. at \in 1 .. at' /\ Full(at)'
    BY <1>0, <2>1 DEF CommandOK, Full
  <2> QED
    BY <2>1, <2>2 DEF OwnParts, Full
<1>8. CASE Grow \/ Disturb \/ UNCHANGED screenVars
  <2>1. PartsOfVisit' = PartsOfVisit /\ UNCHANGED <<shot_step, part, at, commands>>
    BY <1>8, SameParts DEF Grow, Disturb, screenVars
  <2> QED
    BY <2>1 DEF OwnParts, Limit, Earlier, Full
<1> QED
  BY <1>1, <1>2, <1>3, <1>4, <1>5, <1>6, <1>7, <1>8
     DEF NextScreens, ScreenCommandNext, Finalize, RestartBrowser

(* Where the rows are, while the page keeps its place.                     *)
LEMMA FirstIsSeen ==
  ASSUME NEW images, NEW from \in Nat, NEW p \in images, p.scroll = from, images = {p}
  PROVE  Seen(images, from, from)
BY HeightsAssumption DEF Covers, Seen

LEMMA NextIsSeen ==
  ASSUME NEW before, NEW from \in Nat, NEW old \in Nat, NEW to \in Nat, NEW p,
         old <= to, to <= old + InnerHeight, p.scroll = to,
         \A q \in before : q.scroll \in Nat, Seen(before, from, old)
  PROVE  Seen(before \cup {p}, from, to)
<1>1. ASSUME NEW y \in from .. to + InnerHeight - 1
      PROVE  \E q \in before \cup {p} : Covers(q, y)
  <2>1. CASE y <= old + InnerHeight - 1
    <3>1. y \in from .. old + InnerHeight - 1
      BY <2>1, HeightsAssumption
    <3> QED
      BY <3>1 DEF Seen
  <2>2. CASE ~(y <= old + InnerHeight - 1)
    <3>1. Covers(p, y)
      BY <2>2, HeightsAssumption DEF Covers
    <3> QED
      BY <3>1
  <2> QED
    BY <2>1, <2>2
<1>2. \A q \in before \cup {p} : q.scroll <= to
  BY DEF Seen
<1> QED
  BY <1>1, <1>2 DEF Seen

LEMMA PlaceKept ==
  ASSUME ScreensTyped, CommandOK, IndexesOK, OwnParts, PlaceOK, [NextScreens]_screenVars
  PROVE  PlaceOK'
<1> USE DEF sequence, browser, locals, files, Taking
<1>0. /\ at \in Nat /\ Len(commands) \in Nat /\ at <= Len(commands)
      /\ \A i \in 1 .. Len(commands) : commands[i].kind \in {"get", "save", "full"}
  BY CommandTypes
<1>1. \A p \in PartsOfVisit : p.index \in Nat /\ p.scroll \in Nat
  BY DEF PartsOfVisit, ScreensTyped
<1>2. CASE NextCommand
  <2>1. /\ PartsOfVisit' = PartsOfVisit /\ at' = at + 1 /\ commands' = commands /\ ~Taking
        /\ shot_step' \in {"get", "save", "full"}
    BY <1>0, <1>2, SameParts DEF NextCommand
  <2>2. Taking' /\ ~Earlier' => PartsOfVisit = {}
    BY <1>0, <2>1 DEF OwnParts, Earlier, Full
  <2> QED
    BY <2>1, <2>2 DEF PlaceOK, Undisturbed
<1>3. CASE ReadHeight \/ ReadStart
  <2>1. /\ PartsOfVisit' = PartsOfVisit /\ Earlier' = Earlier /\ Taking
        /\ UNCHANGED <<parts, visit_id, scrollHeight, scrollY, undisturbed, part, prev_scrollY>>
    BY <1>3, SameParts DEF ReadHeight, ReadStart, Earlier, Full
  <2>2. part = 0 /\ prev_scrollY = -1 /\ scrollHeight \in Nat
    BY <1>3 DEF ReadHeight, ReadStart, IndexesOK, ScreensTyped
  <2>3. CASE ReadHeight
    BY <2>1, <2>2, <2>3 DEF ReadHeight, PlaceOK, Undisturbed
  <2>4. CASE ReadStart
    BY <2>1, <2>2, <2>4 DEF ReadStart, PlaceOK, Undisturbed
  <2> QED
    BY <1>3, <2>3, <2>4
<1>4. CASE SavePart
  <2>1. /\ PartName.index = part /\ PartName.scroll = curr_scrollY
        /\ PartsOfVisit' = PartsOfVisit \cup {PartName}
        /\ parts'[PartName] = Row(page, scrollY)
        /\ \A p \in PartsOfVisit : p # PartName => parts'[p] = parts[p]
    BY <1>4, PartIsSaved
  <2>2. /\ shot_step = "part" /\ Taking /\ Earlier' = Earlier /\ undisturbed' = undisturbed
        /\ UNCHANGED <<visit_id, scrollHeight, scrollY, max_height, start, curr_scrollY, prev_scrollY, part>>
        /\ shot_step' \in {"scroll", "stitch"} /\ (shot_step' = "stitch" => ~More)
    BY <1>4 DEF SavePart, Earlier, Full
  <2>3. page = visit_id
    BY <1>0, <2>2 DEF CommandOK
  <2>4. max_height \in Nat /\ curr_scrollY \in Nat /\ start \in Nat /\ part \in Nat
    BY DEF ScreensTyped
  <2> SUFFICES ASSUME ~Earlier, undisturbed PROVE Undisturbed'
    BY <2>2 DEF PlaceOK
  <2>5. Undisturbed
    BY <2>2 DEF PlaceOK
  <2>6. \A p \in PartsOfVisit' : parts'[p] = Row(visit_id, p.scroll)
    <3> HIDE DEF PartName
    <3> QED
      BY <2>1, <2>2, <2>3, <2>5 DEF Undisturbed
  <2>7. SeenTo(curr_scrollY)'
    <3>1. CASE part = 0
      <4>1. PartsOfVisit = {}
        BY <1>1, <2>2, <2>4, <3>1 DEF OwnParts, Limit
      <4>2. PartsOfVisit' = {PartName} /\ PartName.scroll = start /\ curr_scrollY = start
        BY <2>1, <2>2, <2>5, <3>1, <4>1 DEF Undisturbed
      <4> HIDE DEF PartName
      <4> QED
        BY <2>2, <2>4, <4>2, FirstIsSeen DEF SeenTo
    <3>2. CASE part # 0
      <4>1. Scrolled(prev_scrollY, curr_scrollY) /\ SeenTo(prev_scrollY)
        BY <2>2, <2>4, <2>5, <3>2 DEF Undisturbed
      <4> HIDE DEF PartName
      <4>3. PICK p : p = PartName
        OBVIOUS
      <4>4. /\ prev_scrollY \in Nat /\ prev_scrollY <= curr_scrollY
            /\ curr_scrollY <= prev_scrollY + InnerHeight
        BY <4>1 DEF Scrolled
      <4>5. p.scroll = curr_scrollY
        BY <2>1, <4>3
      <4>6. \A q \in PartsOfVisit : q.scroll \in Nat
        BY <1>1
      <4>7. Seen(PartsOfVisit, start, prev_scrollY)
        BY <4>1 DEF SeenTo
      <4>2. Seen(PartsOfVisit \cup {p}, start, curr_scrollY)
        BY <2>4, <4>4, <4>5, <4>6, <4>7, NextIsSeen
      <4> QED
        BY <2>1, <2>2, <4>2, <4>3 DEF SeenTo
    <3> QED
      BY <3>1, <3>2
  <2>8. shot_step' = "stitch" => max_height <= curr_scrollY + InnerHeight
    BY <2>2, <2>4, <2>5, HeightsAssumption DEF More, Undisturbed, Scrolled
  <2> QED
    BY <2>2, <2>5, <2>6, <2>7, <2>8 DEF Undisturbed
<1>5. CASE Scroll
  <2>1. /\ PartsOfVisit' = PartsOfVisit /\ Earlier' = Earlier /\ shot_step = "scroll" /\ Taking
        /\ UNCHANGED <<parts, visit_id, scrollHeight, max_height, start, curr_scrollY>>
        /\ part' = part + 1 /\ prev_scrollY' = curr_scrollY /\ shot_step' = "position"
    BY <1>5, SameParts DEF Scroll, Earlier, Full
  <2> SUFFICES ASSUME ~Earlier, undisturbed' PROVE Undisturbed'
    BY <2>1 DEF PlaceOK
  <2>2. /\ undisturbed /\ scrollY' \in scrollY .. Lowest /\ scrollY' <= scrollY + InnerHeight
        /\ scrollY' = scrollY => scrollHeight <= scrollY + InnerHeight
    BY <1>5, ScrollIs
  <2>3. Undisturbed
    BY <2>1, <2>2 DEF PlaceOK
  <2>4. /\ scrollY \in Nat /\ Lowest \in Nat /\ max_height \in Nat /\ part \in Nat /\ scrollHeight \in Nat
    BY LowestIs DEF ScreensTyped
  <2>5. curr_scrollY = scrollY /\ max_height <= scrollHeight /\ SeenTo(curr_scrollY)
    BY <2>1, <2>3 DEF Undisturbed
  <2>6. Scrolled(prev_scrollY, scrollY)'
    BY <2>1, <2>2, <2>4, <2>5, HeightsAssumption DEF Scrolled
  <2>7. SeenTo(prev_scrollY)'
    BY <2>1, <2>5 DEF SeenTo
  <2> QED
    BY <2>1, <2>3, <2>4, <2>6, <2>7 DEF Undisturbed
<1>6. CASE ReadScroll
  <2>1. /\ PartsOfVisit' = PartsOfVisit /\ Earlier' = Earlier /\ shot_step = "position" /\ Taking
        /\ UNCHANGED <<parts, visit_id, scrollHeight, scrollY, max_height, start, prev_scrollY, part>>
        /\ undisturbed' = undisturbed /\ curr_scrollY' = scrollY /\ shot_step' = "part"
    BY <1>6, SameParts DEF ReadScroll, Earlier, Full
  <2> QED
    BY <2>1 DEF PlaceOK, Undisturbed, Scrolled, SeenTo
<1>7. CASE Grow
  <2>1. /\ PartsOfVisit' = PartsOfVisit /\ Earlier' = Earlier
        /\ UNCHANGED <<parts, visit_id, scrollY, max_height, start, curr_scrollY, prev_scrollY, part>>
        /\ UNCHANGED <<shot_step, undisturbed>>
    BY <1>7, SameParts DEF Grow, Earlier, Full
  <2>2. max_height <= scrollHeight => max_height <= scrollHeight'
    BY <1>7, HeightsAssumption DEF Grow, ScreensTyped
  <2> QED
    BY <2>1, <2>2 DEF PlaceOK, Undisturbed, Scrolled, SeenTo
<1>8. CASE Disturb
  BY <1>8 DEF Disturb, PlaceOK
<1>9. CASE UNCHANGED screenVars
  <2>1. PartsOfVisit' = PartsOfVisit /\ Earlier' = Earlier
    BY <1>9, SameParts DEF screenVars, Earlier, Full
  <2> QED
    BY <1>9, <2>1 DEF screenVars, PlaceOK, Undisturbed, Scrolled, SeenTo
<1>10. CASE \/ Get \/ AddScreenshot \/ EndVisit \/ Load \/ ScrollDown \/ SaveScreenshot \/ GiveUp \/ Stitch
  <2>1. ~Taking'
    BY <1>10 DEF Get, AddScreenshot, EndVisit, Load, ScrollDown, SaveScreenshot, GiveUp, Stitch
  <2> QED
    BY <2>1 DEF PlaceOK
<1> QED
  BY <1>2, <1>3, <1>4, <1>5, <1>6, <1>7, <1>8, <1>9, <1>10
     DEF NextScreens, ScreenCommandNext, Finalize, RestartBrowser

-----------------------------------------------------------------------------
(* The picture that is put together of the parts.                          *)
LEMMA AllPartsAreImages ==
  ASSUME OwnParts, shot_step = "stitch", ~Earlier,
         NEW images \in SUBSET PartsOfVisit, OnePerIndex(images)
  PROVE  images = PartsOfVisit
<1> SUFFICES ASSUME NEW p \in PartsOfVisit PROVE p \in images
  OBVIOUS
<1>1. PICK q \in images : q.index = p.index
  BY DEF OnePerIndex, Indexes
<1>2. q = p
  BY <1>1 DEF OwnParts, Taking
<1> QED
  BY <1>2

LEMMA PastedIs ==
  ASSUME ScreensTyped, OwnParts, PlaceOK, shot_step = "stitch", ~Earlier, undisturbed, NEW y \in Nat
  PROVE  Pasted(PartsOfVisit, y) =
           IF \E p \in PartsOfVisit : Covers(p, y) THEN Row(visit_id, y) ELSE Black
<1> DEFINE on == {p \in PartsOfVisit : p.scroll <= y /\ y < p.scroll + InnerHeight}
           uppermost == CHOOSE p \in on : \A q \in on : q.index <= p.index
<1>1. Pasted(PartsOfVisit, y) =
        IF on = {} THEN Black ELSE Row(parts[uppermost].page, parts[uppermost].row + y - uppermost.scroll)
  BY DEF Pasted
<1>2. on # {} <=> \E p \in PartsOfVisit : Covers(p, y)
  BY DEF Covers
<1>3. CASE on = {}
  BY <1>1, <1>2, <1>3
<1>4. CASE on # {}
  <2>1. \A p \in on : p \in PartsOfVisit /\ p.index \in 0 .. part /\ p.scroll \in Nat
    BY DEF PartsOfVisit, OwnParts, Taking, Limit, ScreensTyped
  <2>2. part \in Nat /\ {p.index : p \in on} \in SUBSET (0 .. part) /\ {p.index : p \in on} # {}
    BY <1>4, <2>1 DEF ScreensTyped
  <2>3. PICK m \in {p.index : p \in on} : \A x \in {p.index : p \in on} : m >= x
    BY <2>2, HasLargest
  <2>4. \E p \in on : \A q \in on : q.index <= p.index
    <3> HIDE DEF on
    <3>1. PICK p \in on : p.index = m
      OBVIOUS
    <3>2. \A q \in on : q.index <= p.index
      BY <2>1, <2>3, <3>1
    <3> QED
      BY <3>2
  <2>5. uppermost \in on
    <3> HIDE DEF on
    <3> QED
      BY <2>4
  <2> HIDE DEF uppermost
  <2>6. uppermost \in PartsOfVisit /\ uppermost.scroll \in Nat
    BY <2>1, <2>5
  <2>7. parts[uppermost] = Row(visit_id, uppermost.scroll)
    BY <2>6 DEF PlaceOK, Undisturbed, Taking
  <2>8. parts[uppermost].page = visit_id /\ parts[uppermost].row + y - uppermost.scroll = y
    BY <2>6, <2>7 DEF Row
  <2> QED
    BY <1>1, <1>2, <1>4, <2>8
<1> QED
  BY <1>3, <1>4

LEMMA BottomIs ==
  ASSUME ScreensTyped, PlaceOK, shot_step = "stitch", ~Earlier, undisturbed
  PROVE  /\ Bottom = curr_scrollY + InnerHeight /\ max_height <= Bottom
         /\ \A y \in start .. Bottom - 1 : \E p \in PartsOfVisit : Covers(p, y)
<1>1. Undisturbed
  BY DEF PlaceOK, Taking
<1>2. SeenTo(curr_scrollY) /\ max_height <= curr_scrollY + InnerHeight /\ curr_scrollY \in Nat
  BY <1>1 DEF Undisturbed, ScreensTyped
<1>3. \A p \in PartsOfVisit : p.scroll \in Nat
  BY DEF PartsOfVisit, ScreensTyped
<1> DEFINE S == {p.scroll : p \in PartsOfVisit}
<1>4. S \subseteq Nat /\ curr_scrollY \in S /\ \A x \in S : curr_scrollY >= x
  BY <1>2, <1>3 DEF SeenTo, Seen
<1> HIDE DEF S
<1>5. Max(S) = curr_scrollY
  BY <1>4, LargestIs
<1>6. Bottom = curr_scrollY + InnerHeight
  BY <1>5 DEF Bottom, S
<1>7. \A y \in start .. curr_scrollY + InnerHeight - 1 : \E p \in PartsOfVisit : Covers(p, y)
  BY <1>2 DEF SeenTo, Seen
<1> QED
  BY <1>2, <1>6, <1>7, HeightsAssumption

LEMMA StitchedShowsThePage ==
  ASSUME ScreensTyped, OwnParts, PlaceOK, shot_step = "stitch", ~Earlier, undisturbed,
         NEW images \in SUBSET PartsOfVisit, OnePerIndex(images)
  PROVE  /\ Bottom \in Nat
         /\ \A y \in 0 .. Bottom - 1 : Pasted(images, y) \in {Row(visit_id, y), Black}
         /\ \A y \in start .. max_height - 1 : y \in 0 .. Bottom - 1 /\ Pasted(images, y) # Black
<1>1. images = PartsOfVisit
  BY AllPartsAreImages
<1>2. /\ Bottom = curr_scrollY + InnerHeight /\ max_height <= Bottom
      /\ \A y \in start .. Bottom - 1 : \E p \in PartsOfVisit : Covers(p, y)
  BY BottomIs
<1>3. /\ max_height \in Nat /\ start \in Nat /\ curr_scrollY \in Nat /\ InnerHeight \in Nat
      /\ visit_id # NoPage
  BY HeightsAssumption DEF ScreensTyped, NoPage
<1>4. Bottom \in Nat
  BY <1>2, <1>3
<1>5. \A y \in 0 .. Bottom - 1 : Pasted(images, y) \in {Row(visit_id, y), Black}
  BY <1>1, <1>4, PastedIs
<1>6. ASSUME NEW y \in start .. max_height - 1
      PROVE  y \in 0 .. Bottom - 1 /\ Pasted(images, y) # Black
  <2>1. y \in Nat /\ y \in 0 .. Bottom - 1 /\ y \in start .. Bottom - 1
    BY <1>2, <1>3, <1>4
  <2>2. \E p \in PartsOfVisit : Covers(p, y)
    BY <1>2, <2>1
  <2>3. Pasted(images, y) = Row(visit_id, y)
    BY <1>1, <2>1, <2>2, PastedIs
  <2>4. Row(visit_id, y).page = visit_id /\ Black.page = NoPage
    BY DEF Row, Black
  <2> QED
    BY <1>3, <2>1, <2>3, <2>4
<1> QED
  BY <1>4, <1>5, <1>6

-----------------------------------------------------------------------------
(* Pictures are saved.                                                     *)
LEMMA RightKept ==
  ASSUME PicturesRight, NEW name, NEW r, Right(name, r), pictures' = Put(pictures, name, r)
  PROVE  PicturesRight'
<1>1. pictures' = [n \in DOMAIN pictures \cup {name} |-> IF n = name THEN r ELSE pictures[n]]
  BY DEF Put
<1>2. \A n \in DOMAIN pictures' : Right(n, pictures'[n])
  BY <1>1 DEF PicturesRight
<1> QED
  BY <1>2 DEF PicturesRight

LEMMA PicturesKept ==
  ASSUME ScreensTyped, CommandOK, OwnParts, PlaceOK, PicturesRight, [NextScreens]_screenVars
  PROVE  PicturesRight'
<1>0. /\ at \in Nat /\ Len(commands) \in Nat /\ at <= Len(commands)
      /\ \A i \in 1 .. Len(commands) : commands[i].kind \in {"get", "save", "full"}
  BY CommandTypes
<1>1. CASE SaveScreenshot
  <2>1. PICK r : r =
          [kind |-> commands[at].kind, asked |-> commands[at].suffix, rows |-> <<>>, page |-> page,
           from |-> start, to |-> max_height, undisturbed |-> undisturbed,
           single |-> Cardinality({i \in 1 .. at : commands[i].kind = "full"}) <= 1,
           over |-> IF [visit |-> visit_id, suffix |-> commands[at].suffix] \in DOMAIN pictures
                    THEN pictures[[visit |-> visit_id, suffix |-> commands[at].suffix]].kind ELSE "none"]
    OBVIOUS
  <2>2. PICK name : name = [visit |-> visit_id, suffix |-> commands[at].suffix]
    OBVIOUS
  <2>3. pictures' = Put(pictures, name, r) /\ shot_step = "save"
    BY <1>1, <2>1, <2>2 DEF SaveScreenshot, SaveAs
  <2>4. commands[at].kind = "save" /\ page = visit_id
    BY <2>3 DEF CommandOK
  <2>5. r.kind = "save" /\ r.page = name.visit
    BY <2>1, <2>2, <2>4
  <2>6. Right(name, r)
    BY <2>5 DEF Right
  <2> QED
    BY <2>3, <2>6, RightKept
<1>2. CASE Stitch /\ pictures' # pictures
  <2>1. PICK last \in PartsOfVisit, images \in SUBSET PartsOfVisit :
          /\ OnePerIndex(images)
          /\ SaveAs([visit |-> visit_id, suffix |-> last.suffix],
                    [y \in 0 .. Bottom - 1 |-> Pasted(images, y)])
    BY <1>2 DEF Stitch, files
  <2>2. PICK name : name = [visit |-> visit_id, suffix |-> last.suffix]
    OBVIOUS
  <2>3. PICK rows : rows = [y \in 0 .. Bottom - 1 |-> Pasted(images, y)]
    OBVIOUS
  <2>4. PICK r : r =
          [kind |-> commands[at].kind, asked |-> commands[at].suffix, rows |-> rows, page |-> page,
           from |-> start, to |-> max_height, undisturbed |-> undisturbed,
           single |-> Cardinality({i \in 1 .. at : commands[i].kind = "full"}) <= 1,
           over |-> IF name \in DOMAIN pictures THEN pictures[name].kind ELSE "none"]
    OBVIOUS
  <2>5. pictures' = Put(pictures, name, r) /\ shot_step = "stitch"
    BY <1>2, <2>1, <2>2, <2>3, <2>4 DEF Stitch, SaveAs
  <2>6. /\ r.page = page /\ r.from = start /\ r.to = max_height
        /\ r.undisturbed = undisturbed /\ r.rows = rows /\ name.visit = visit_id
        /\ r.single = (Cardinality({i \in 1 .. at : commands[i].kind = "full"}) <= 1)
    BY <2>2, <2>4
  <2>7. at \in Nat \ {0} /\ Full(at) /\ page = visit_id
    BY <1>0, <2>5 DEF CommandOK, Taking
  <2>8. ASSUME r.single, r.undisturbed
        PROVE  /\ \A y \in DOMAIN r.rows : r.rows[y] \in {Row(name.visit, y), Black}
               /\ \A y \in r.from .. r.to - 1 : Shows(r, y)
    <3>1. Cardinality({i \in 1 .. at : Full(i)}) <= 1
      BY <2>6, <2>8 DEF Full
    <3>2. ~Earlier /\ undisturbed
      BY <2>6, <2>7, <2>8, <3>1, SingleIsNotEarlier
    <3>3. /\ \A y \in 0 .. Bottom - 1 : Pasted(images, y) \in {Row(visit_id, y), Black}
          /\ \A y \in start .. max_height - 1 : y \in 0 .. Bottom - 1 /\ Pasted(images, y) # Black
      BY <2>1, <2>5, <3>2, StitchedShowsThePage
    <3>4. DOMAIN rows = 0 .. Bottom - 1 /\ \A y \in 0 .. Bottom - 1 : rows[y] = Pasted(images, y)
      BY <2>3
    <3> QED
      BY <2>6, <3>3, <3>4 DEF Shows
  <2>9. Right(name, r)
    BY <2>6, <2>7, <2>8 DEF Right
  <2> QED
    BY <2>5, <2>9, RightKept
<1>3. CASE UNCHANGED pictures
  BY <1>3 DEF PicturesRight
<1>4. CASE \/ Get \/ AddScreenshot \/ NextCommand \/ EndVisit \/ Load \/ ScrollDown
           \/ ReadHeight \/ ReadStart \/ SavePart \/ Scroll \/ ReadScroll \/ GiveUp
           \/ Grow \/ Disturb \/ UNCHANGED screenVars
  BY <1>3, <1>4 DEF Get, AddScreenshot, NextCommand, EndVisit, Load, ScrollDown, ReadHeight, ReadStart,
     SavePart, Scroll, ReadScroll, GiveUp, Grow, Disturb, screenVars, files
<1> QED
  BY <1>1, <1>2, <1>3, <1>4 DEF NextScreens, ScreenCommandNext, Finalize, RestartBrowser

-----------------------------------------------------------------------------
(* In every state: the page of the visit is open once its first command is *)
(* done, there is a part of each index up to some, and of a single full    *)
(* page of a page that kept its place the parts join                       *)
(* (CommandSequence, ScreenshotFullPageCommand).                           *)
THEOREM ScreensAreInOrder == ScreensSpec => []ScreensInv
<1>1. InitScreens => ScreensInv
  <2> SUFFICES ASSUME InitScreens PROVE ScreensInv
    OBVIOUS
  <2>0. scrollHeight \in Nat
    BY DEF InitScreens
  <2>1. Lowest \in Nat
    BY <2>0, LowestOf, HeightsAssumption DEF Lowest
  <2> USE DEF InitScreens
  <2>2. ScreensTyped
    BY <2>1 DEF ScreensTyped, NoPage
  <2>3. PartsOfVisit = {} /\ Indexes = 0 .. 0 - 1
    BY DEF PartsOfVisit, Indexes
  <2>4. CommandOK /\ IndexesOK /\ OwnParts
    BY <2>3 DEF CommandOK, IndexesOK, OwnParts, Taking
  <2>5. PlaceOK /\ PicturesRight
    BY DEF PlaceOK, Taking, PicturesRight
  <2> QED
    BY <2>2, <2>4, <2>5 DEF ScreensInv
<1>2. ScreensInv /\ [NextScreens]_screenVars => ScreensInv'
  BY TypedKept, CommandKept, IndexesKept, OwnKept, PlaceKept, PicturesKept DEF ScreensInv
<1> QED
  BY <1>1, <1>2, PTL DEF ScreensSpec

(* The picture of a page that kept its place, the only one in its visit,   *)
(* shows every row where it was on the page, and all that were on the page *)
(* when the command began, from the place where it was on                  *)
(* (ScreenshotFullPageCommand, _stitch_screenshot_parts).                  *)
THEOREM PicturesAreRight == ScreensSpec => []PicturesShowThePage
<1>1. ScreensInv => PicturesShowThePage
  BY DEF ScreensInv, PicturesRight, Right, PicturesShowThePage, Good
<1> QED
  BY <1>1, ScreensAreInOrder, PTL

(* A picture is of a window in which the page of its visit was asked for   *)
(* (CommandSequence.save_screenshot, screenshot_full_page).                *)
THEOREM PicturesStayInTheirVisit == ScreensSpec => []PicturesAreOfTheirVisit
<1>1. ScreensInv => PicturesAreOfTheirVisit
  BY DEF ScreensInv, PicturesRight, Right, PicturesAreOfTheirVisit
<1> QED
  BY <1>1, ScreensAreInOrder, PTL

(* A part is never missing when the parts are put together, whatever was   *)
(* given up before in this visit (ScreenshotFullPageCommand.execute).      *)
THEOREM PartsAreComplete == ScreensSpec => []NoPartIsMissing
<1>1. ASSUME ScreensInv PROVE NoPartIsMissing
  <2> SUFFICES ASSUME shot_step = "stitch" PROVE Indexes = 0 .. Max(Indexes)
    BY DEF NoPartIsMissing
  <2>1. PICK m \in Nat : Indexes = 0 .. m - 1
    BY <1>1 DEF ScreensInv, IndexesOK
  <2>2. part \in Nat /\ 0 .. (part + 1) - 1 \subseteq Indexes
    BY <1>1 DEF ScreensInv, ScreensTyped, IndexesOK, Taking, Limit
  <2>3. 0 \in Indexes
    BY <2>2
  <2>4. m # 0 /\ m - 1 \in Indexes /\ Indexes \subseteq Nat /\ \A x \in Indexes : m - 1 >= x
    BY <2>1, <2>3
  <2>5. Max(Indexes) = m - 1
    BY <2>4, LargestIs
  <2> QED
    BY <2>1, <2>5
<1> QED
  BY <1>1, ScreensAreInOrder, PTL
=============================================================================
