-------------------------- MODULE ExtensionProofs --------------------------
(***************************************************************************)
(* Attribution in the background page, for any number of visits, requests, *)
(* navigations and any instruments: records go to the visit that is open,  *)
(* the events of a request keep their order, a navigation is not paired    *)
(* with an earlier one.  And in a page, for any settings: what is asked    *)
(* for is watched, accesses are recorded once and in order, and the page   *)
(* reads what it wrote.                                                    *)
(***************************************************************************)
EXTENDS Extension, PageScript, FiniteSetTheorems, WellFoundedInduction, TLAPS

HttpTables == {"http_requests", "http_redirects", "http_responses"}
Stages == {"new", "opened", "sent", "redirected", "done"}
Messages == [action : {"Initialize", "legacy", "Finalize"}, visit_id : Nat \ {0}]

(* The handlers of a table and the steps they wait at.                     *)
Kind(t) ==
    \/ t.table \in HttpTables /\ t.step \in {"tab", "post", "body"} /\ t.id \in Requests
    \/ t.table = "dns_responses" /\ t.step = "dns"
    \/ t.table = "callstacks" /\ t.step = "channel"
    \/ t.table = "navigations" /\ t.step \in {"before", "committed", "pair"}
       /\ t.id \in Nat /\ t.tab \in Tabs
TaskType ==
    [table : HttpTables \cup {"dns_responses", "callstacks", "navigations"},
     id : Requests \cup Nat, event : Nat,
     step : {"tab", "post", "body", "dns", "channel", "before", "committed", "pair"},
     ordinal : Nat, tab : Nat, with : Nat]

TasksOK == tasks \subseteq TaskType /\ \A t \in tasks : Kind(t)

(* The open tab counts the pages the commands have opened.                 *)
BrowserOK ==
    /\ config \in Configs
    /\ manager \in [visit : Nat, pc : {"idle", "initialized", "loaded"}]
    /\ manager.visit <= config.visits
    /\ manager.pc # "idle" => manager.visit > 0
    /\ tab = 2 * manager.visit + (IF manager.pc = "idle" THEN 1
                                  ELSE IF manager.pc = "loaded" THEN 0 ELSE -1)
FrameOK ==
    /\ navigation \in [stage : {"idle", "started"}, n : Nat]
    /\ pending \in [Tabs -> Nat]
HttpTyped ==
    /\ request \in [Requests -> [stage : Stages, tab : Nat, hops : {0, 1}]]
    /\ ordinal \in Nat
Typed == BrowserOK /\ FrameOK /\ HttpTyped /\ TasksOK /\ boot \in {"opening", "registering", "run"}

-----------------------------------------------------------------------------
(* The invariants.                                                         *)

(* The last event of a request that any handler has seen.                  *)
LastEvent(r) ==
    2 * request[r].hops + (IF request[r].stage = "sent" THEN 1
                           ELSE IF request[r].stage = "done" THEN 2 ELSE 0)

(* Handlers and records of http events, in the order of the events.        *)
HttpItems == {x \in tasks \cup records : x.table \in HttpTables}
HttpOK ==
    /\ \A x \in HttpItems :
         /\ x.id \in Requests /\ x.event \in Nat /\ x.ordinal \in Nat
         /\ x.ordinal <= ordinal /\ x.event <= LastEvent(x.id)
    /\ \A x, y \in HttpItems : x.id = y.id /\ x.event < y.event => x.ordinal < y.ordinal

(* A pending navigation is never younger than the last one, and never older *)
(* than the one a handler that looks for it is about.                      *)
PendingOK ==
    /\ \A x \in Tabs : pending[x] <= navigation.n /\ (x > tab => pending[x] = 0)
    /\ navigation.stage = "started" => pending[tab] \in {0, navigation.n}
    /\ ~Runs("navigation") => \A x \in Tabs : pending[x] = 0
NavTask(t) ==
    /\ t.id <= navigation.n /\ t.tab \in 1 .. tab
    /\ t.step = "committed" => pending[t.tab] = 0 \/ pending[t.tab] >= t.id
    /\ t.step = "pair" => t.with >= t.id
NavRecord(r) == r.id \in Nat /\ r.extra \in Nat /\ (r.extra = 0 \/ r.extra >= r.id)
NavOK ==
    /\ PendingOK
    /\ \A t \in tasks : t.table = "navigations" => NavTask(t)
    /\ \A r \in records : r.table = "navigations" => NavRecord(r)

(* The messages of a visit arrive in order, Initialize first and nothing   *)
(* after Finalize.                                                         *)
Announced(v, k) ==
    v \in opened \/ \E i \in 1 .. k : inbox[i].action = "Initialize" /\ inbox[i].visit_id = v
Ended(v) ==
    \/ v \in closed
    \/ \E i \in 1 .. Len(inbox) : inbox[i].action = "Finalize" /\ inbox[i].visit_id = v
InTurn(i) ==
    /\ inbox[i].visit_id <= manager.visit /\ inbox[i].visit_id \notin closed
    /\ inbox[i].action # "Initialize" => Announced(inbox[i].visit_id, i - 1)
    /\ \A k \in 1 .. i - 1 :
         inbox[k].action = "Finalize" => inbox[k].visit_id # inbox[i].visit_id
VisitsOK ==
    /\ inbox \in Seq(Messages)
    /\ opened \subseteq Nat /\ closed \subseteq 1 .. manager.visit
    /\ visitID = Null \/ visitID \in opened \ closed
    /\ \A i \in 1 .. Len(inbox) : InTurn(i)
    /\ manager.pc # "idle" => Announced(manager.visit, Len(inbox)) /\ ~Ended(manager.visit)

IInv == Typed /\ HttpOK /\ NavOK /\ VisitsOK
-----------------------------------------------------------------------------
(* What one step may do.                                                   *)

(* A record has the key of its handler, and the open visit or none.        *)
LEMMA Saved ==
    ASSUME NEW t, NEW of, NEW extra, SaveRecord(t, of, extra), NEW r \in records' \ records
    PROVE  /\ r.table = t.table /\ r.id = t.id /\ r.event = t.event
           /\ r.ordinal = of /\ r.extra = extra
           /\ r.visit = Lost \/ (r.visit = visitID /\ visitID # Null)
  BY DEF SaveRecord, Record

(* A handler goes on with its own key and may record it.                   *)
Follows(u, t) ==
    /\ u \in TaskType /\ Kind(u)
    /\ u.table = t.table /\ u.id = t.id /\ u.event = t.event /\ u.tab = t.tab
    /\ t.table # "navigations" => u.ordinal = t.ordinal
Reports(r, t) ==
    /\ \/ r.table = "page_content"
       \/ /\ r.table = t.table /\ r.id = t.id /\ r.event = t.event
          /\ t.table \in HttpTables => r.ordinal = t.ordinal
    /\ r.visit = Lost \/ (r.visit = visitID /\ visitID # Null)

LEMMA ContinueLeaves ==
    ASSUME NEW t, Continue(t)
    PROVE  UNCHANGED <<config, boot, manager, tab, inbox, visitID, opened, closed, request, before,
                       listener, navigation, pending>>
  BY DEF Continue, TabGone, RequestTabKnown, RedirectTabKnown, ResponseTabKnown, PostKnown,
         BodyArrived, DnsResolved, StackSaved, BeforeNavigateResolved, CommittedTabKnown, PairKnown,
         page, browser, session, http, frame

LEMMA Continued ==
    ASSUME Typed, NEW t \in tasks, Continue(t)
    PROVE  /\ \A u \in tasks' \ tasks : Follows(u, t)
           /\ \A r \in records' \ records : Reports(r, t)
           /\ ordinal' \in Nat /\ ordinal <= ordinal'
<1> DEFINE Goal == /\ \A u \in tasks' \ tasks : Follows(u, t)
                   /\ \A r \in records' \ records : Reports(r, t)
                   /\ ordinal' \in Nat /\ ordinal <= ordinal'
<1>1. t \in TaskType /\ Kind(t) /\ ordinal \in Nat
  BY DEF Typed, TasksOK, HttpTyped
<1>2. ASSUME NEW step \in {"post", "body"}, Becomes(t, step), t.table \in HttpTables
      PROVE  \A u \in tasks' \ tasks : Follows(u, t)
  <2>1. [t EXCEPT !.step = step] \in TaskType /\ Kind([t EXCEPT !.step = step])
    BY <1>1, <1>2 DEF TaskType, Kind, HttpTables
  <2>2. Follows([t EXCEPT !.step = step], t)
    BY <1>1, <2>1 DEF Follows, TaskType
  <2>3. QED  BY <1>2, <2>2 DEF Becomes
<1>3. ASSUME Ends(t) PROVE tasks' \ tasks = {}
  BY <1>3 DEF Ends
<1>4. ASSUME NEW of, NEW extra, SaveRecord(t, of, extra), t.table \in HttpTables => of = t.ordinal
      PROVE  \A r \in records' \ records : Reports(r, t)
  BY <1>4, Saved DEF Reports
<1>5. CASE TabGone(t)
  BY <1>1, <1>3, <1>5 DEF TabGone
<1>6. CASE RequestTabKnown(t)
  <2>1. t.table \in HttpTables /\ ordinal' = ordinal
    BY <1>6 DEF RequestTabKnown, HttpTables
  <2>2. CASE Becomes(t, "post") /\ UNCHANGED records
    BY <1>1, <1>2, <2>1, <2>2
  <2>3. CASE Ends(t) /\ SaveRecord(t, OrdinalOf(t), 0)
    BY <1>1, <1>3, <1>4, <2>1, <2>3 DEF OrdinalOf
  <2>4. QED  BY <1>6, <2>2, <2>3 DEF RequestTabKnown
<1>7. CASE RedirectTabKnown(t)
  BY <1>1, <1>3, <1>4, <1>7 DEF RedirectTabKnown, OrdinalOf
<1>8. CASE ResponseTabKnown(t)
  <2>1. t.table \in HttpTables /\ ordinal' = ordinal
    BY <1>8 DEF ResponseTabKnown, HttpTables
  <2>2. CASE Becomes(t, "body") /\ UNCHANGED records
    BY <1>1, <1>2, <2>1, <2>2
  <2>3. CASE Ends(t) /\ SaveRecord(t, OrdinalOf(t), 0)
    BY <1>1, <1>3, <1>4, <2>1, <2>3 DEF OrdinalOf
  <2>4. QED  BY <1>8, <2>2, <2>3 DEF ResponseTabKnown
<1>9. CASE PostKnown(t)
  BY <1>1, <1>3, <1>4, <1>9 DEF PostKnown, OrdinalOf
<1>10. CASE BodyArrived(t)
  <2>1. Ends(t) /\ ordinal' = ordinal
    BY <1>10 DEF BodyArrived
  <2>2. \A r \in records' \ records : Reports(r, t)
    <3>1. Reports(Content(t), t)
      BY DEF Reports, Content
    <3>2. \A hash : Reports(Record(t, OrdinalOf(t), hash), t)
      BY DEF Reports, Record, OrdinalOf
    <3>3. CASE t.id \in DOMAIN listener
      BY <1>10, <3>1, <3>2, <3>3 DEF BodyArrived
    <3>4. CASE t.id \notin DOMAIN listener
      BY <1>10, <1>4, <3>4 DEF BodyArrived, OrdinalOf
    <3>5. QED  BY <3>3, <3>4
  <2>3. QED  BY <1>1, <1>3, <2>1, <2>2
<1>11. CASE DnsResolved(t)
  <2>1. t.table \notin HttpTables
    BY <1>1, <1>11 DEF DnsResolved, Kind, HttpTables
  <2>2. QED  BY <1>1, <1>3, <1>4, <1>11, <2>1 DEF DnsResolved
<1>12. CASE StackSaved(t)
  <2>1. t.table \notin HttpTables
    BY <1>1, <1>12 DEF StackSaved, Kind, HttpTables
  <2>2. QED  BY <1>1, <1>3, <1>4, <1>12, <2>1 DEF StackSaved
<1>13. CASE BeforeNavigateResolved(t)
  BY <1>1, <1>3, <1>13 DEF BeforeNavigateResolved, Stamped
<1>14. CASE CommittedTabKnown(t)
  <2>1. t.table = "navigations" /\ t.id \in Nat /\ ordinal' = ordinal + 1 /\ t.tab \in Nat
    BY <1>1, <1>14 DEF CommittedTabKnown, Kind, Stamped, TaskType
  <2>2. CASE Counterpart(t) = 0
    BY <1>1, <1>3, <1>4, <1>14, <2>1, <2>2 DEF CommittedTabKnown, HttpTables
  <2>3. CASE Counterpart(t) # 0
    <3> DEFINE u == [t EXCEPT !.step = "pair", !.with = Counterpart(t), !.ordinal = ordinal + 1]
    <3>1. tasks' = (tasks \ {t}) \cup {u} /\ records' = records
      BY <1>14, <2>3 DEF CommittedTabKnown
    <3>2. Counterpart(t) \in Nat
      BY <1>1, <2>1 DEF Kind, HttpTables, Counterpart, Typed, FrameOK
    <3>3. u \in TaskType
      <4>1. ASSUME NEW n \in Nat, NEW m \in Nat
            PROVE  [t EXCEPT !.step = "pair", !.with = n, !.ordinal = m] \in TaskType
        BY <1>1 DEF TaskType
      <4>2. ordinal + 1 \in Nat
        BY <1>1
      <4>3. QED  BY <3>2, <4>1, <4>2
    <3>4. Follows(u, t)
      BY <1>1, <2>1, <3>3 DEF Follows, TaskType, Kind, HttpTables
    <3>5. QED  BY <1>1, <2>1, <3>1, <3>4
  <2>4. QED  BY <2>2, <2>3
<1>15. CASE PairKnown(t)
  <2>1. t.table \notin HttpTables
    BY <1>1, <1>15 DEF PairKnown, Kind, HttpTables
  <2>2. QED  BY <1>1, <1>3, <1>4, <1>15, <2>1 DEF PairKnown
<1>16. QED
  BY <1>5, <1>6, <1>7, <1>8, <1>9, <1>10, <1>11, <1>12, <1>13, <1>14, <1>15 DEF Continue

(* What the listeners of an http event begin, has the key of that event.   *)
Begun(u, r, n) ==
    /\ u \in TaskType /\ Kind(u) /\ u.table # "navigations"
    /\ u.id = r /\ u.event = n
    /\ u.table \in HttpTables => u.ordinal = ordinal + 1 /\ ordinal' = ordinal + 1
Listened(s, n) ==
    /\ \/ s.table \in HttpTables /\ s.step = "tab"
       \/ s.table = "dns_responses" /\ s.step = "dns"
    /\ s.nth = n

LEMMA HttpEvent ==
    ASSUME Typed, NEW r \in Requests, NEW n \in {1, 2}, NEW seen, \A s \in seen : Listened(s, n),
           Noticed(r, seen)
    PROVE  /\ tasks \subseteq tasks'
           /\ \A u \in tasks' \ tasks : Begun(u, r, 2 * request[r].hops + n)
           /\ ordinal' \in Nat /\ ordinal <= ordinal'
<1>1. ordinal \in Nat /\ request[r].hops \in Nat /\ request[r].tab \in Nat
  BY DEF Typed, HttpTyped
<1>2. CASE seen = {}
  BY <1>1, <1>2 DEF Noticed
<1>3. CASE seen # {}
  <2> DEFINE new(s) == Task(s.table, r, 2 * request[r].hops + s.nth, s.step, request[r].tab)
  <2>1. tasks' = tasks \cup {new(s) : s \in seen}
    BY <1>3 DEF Noticed, Arrives
  <2>2. ordinal' = ordinal \/ ordinal' = ordinal + 1
    BY <1>3 DEF Noticed, Stamped
  <2>3. ASSUME NEW s \in seen PROVE Begun(new(s), r, 2 * request[r].hops + n)
    <3>1. Listened(s, n)
      OBVIOUS
    <3>2. 2 * request[r].hops + n \in Nat /\ ordinal + 1 \in Nat
      BY <1>1
    <3>3. new(s) \in TaskType /\ Kind(new(s))
      BY <1>1, <3>1, <3>2 DEF Listened, Task, TaskType, Kind
    <3>4. s.table \in HttpTables => ordinal' = ordinal + 1
      BY <1>3, <3>1 DEF Listened, Noticed, Stamped, HttpTables
    <3>5. new(s).id = r /\ new(s).event = 2 * request[r].hops + n /\ new(s).ordinal = ordinal + 1
          /\ new(s).table = s.table /\ s.table # "navigations"
      BY <3>1 DEF Listened, Task, HttpTables
    <3>6. QED  BY <3>3, <3>4, <3>5 DEF Begun
  <2>4. QED  BY <1>1, <2>1, <2>2, <2>3
<1>4. QED  BY <1>2, <1>3

LEMMA HttpEvents ==
    ASSUME Typed, NEW r \in Requests, NEW n \in {1, 2},
           \/ n = 1 /\ OnBeforeSendHeaders(r)
           \/ n = 2 /\ (OnBeforeRedirect(r) \/ OnCompleted(r))
    PROVE  /\ tasks \subseteq tasks' /\ records' = records
           /\ \A u \in tasks' \ tasks : Begun(u, r, 2 * request[r].hops + n)
           /\ ordinal' \in Nat /\ ordinal <= ordinal'
<1>1. CASE OnBeforeSendHeaders(r) /\ n = 1
  <2>1. \A s \in By("http", "http_requests", 1, "tab") : Listened(s, 1)
    BY DEF By, Listened, HttpTables
  <2>2. QED  BY <1>1, <2>1, HttpEvent DEF OnBeforeSendHeaders
<1>2. CASE OnBeforeRedirect(r) /\ n = 2
  <2>1. \A s \in By("http", "http_redirects", 2, "tab") : Listened(s, 2)
    BY DEF By, Listened, HttpTables
  <2>2. QED  BY <1>2, <2>1, HttpEvent DEF OnBeforeRedirect
<1>3. CASE OnCompleted(r) /\ n = 2
  <2>1. \A s \in By("http", "http_responses", 2, "tab") \cup By("dns", "dns_responses", 2, "dns") :
          Listened(s, 2)
    BY DEF By, Listened, HttpTables
  <2>2. QED  BY <1>3, <2>1, HttpEvent DEF OnCompleted
<1>4. QED  BY <1>1, <1>2, <1>3

(* Only the commands change the visit of the manager and the tab.          *)
Quiet == Boot \/ Receive \/ Firefox \/ (\E r \in Requests : Digested(r))
         \/ (\E t \in tasks : Continue(t))

LEMMA BrowserLeft == ASSUME Quiet PROVE UNCHANGED <<config, manager, tab>>
<1>1. CASE \E t \in tasks : Continue(t)
  BY <1>1, ContinueLeaves
<1>2. CASE Boot \/ Receive \/ (\E r \in Requests : Digested(r))
  BY <1>2 DEF Boot, Receive, Digested, page, browser
<1>3. CASE Firefox
  BY <1>3 DEF Firefox, OnBeforeNavigate, OnCommitted, OnChanged, HandleJsInstrumentationMessage,
              Noted, OnBeforeRequest, OnBeforeSendHeaders, OnBeforeRedirect, OnCompleted, OnData,
              OnStop, OnStackAvailable, page, browser
<1>4. QED  BY <1>1, <1>2, <1>3 DEF Quiet

LEMMA OpenTab == ASSUME ExtensionAssumption, BrowserOK PROVE tab \in Tabs /\ tab \in Nat
<1>1. config.visits \in Nat
  BY DEF ExtensionAssumption, BrowserOK
<1>2. QED  BY <1>1 DEF Tabs, BrowserOK

LEMMA BrowserStep == ASSUME ExtensionAssumption, Typed, Next PROVE BrowserOK'
<1> SUFFICES ASSUME BrowserOK PROVE BrowserOK'
  BY DEF Typed
<1>1. config.visits \in Nat
  BY DEF ExtensionAssumption, BrowserOK
<1>2. CASE Command
  BY <1>1, <1>2 DEF Command, SendInitialize, GetSite, SendFinalize, RestartTab, page, BrowserOK
<1>3. CASE Quiet
  BY <1>3, BrowserLeft DEF BrowserOK
<1>4. QED  BY <1>2, <1>3 DEF Next, Quiet

LEMMA TabsKept == ASSUME Next PROVE config' = config /\ Tabs' = Tabs
<1>1. config' = config
  BY BrowserLeft DEF Next, Quiet, Command, SendInitialize, GetSite, SendFinalize, page
<1>2. QED  BY <1>1 DEF Tabs

(* Firefox navigates.                                                      *)
LEMMA FrameLeft ==
    ASSUME Next, ~OnBeforeNavigate, ~OnCommitted
    PROVE  UNCHANGED <<navigation, pending>>
<1>1. CASE \E t \in tasks : Continue(t)
  BY <1>1, ContinueLeaves
<1>2. CASE Boot \/ Receive \/ Command \/ (\E r \in Requests : Digested(r))
  BY <1>2 DEF Boot, Receive, Digested, Command, SendInitialize, GetSite, SendFinalize, frame
<1>3. CASE Firefox
  BY <1>3 DEF Firefox, OnChanged, HandleJsInstrumentationMessage,
              Noted, OnBeforeRequest, OnBeforeSendHeaders, OnBeforeRedirect, OnCompleted, OnData,
              OnStop, OnStackAvailable, frame
<1>4. QED  BY <1>1, <1>2, <1>3 DEF Next

LEMMA FrameStep == ASSUME ExtensionAssumption, Typed, Next PROVE FrameOK'
<1> USE DEF Typed, FrameOK
<1>1. tab \in Tabs /\ Tabs' = Tabs
  BY OpenTab, TabsKept
<1>2. CASE OnBeforeNavigate
  BY <1>1, <1>2 DEF OnBeforeNavigate, PendingReplaced
<1>3. CASE OnCommitted
  BY <1>1, <1>3 DEF OnCommitted
<1>4. CASE ~OnBeforeNavigate /\ ~OnCommitted
  BY <1>1, <1>4, FrameLeft
<1>5. QED  BY <1>2, <1>3, <1>4

(* The other steps: those that leave handlers and records alone, and the   *)
(* records that are saved at once.                                         *)
Rest ==
    \/ Boot \/ Receive \/ Command
    \/ \E r \in Requests : Digested(r) \/ OnBeforeRequest(r) \/ OnData(r) \/ OnStop(r)
Operation == OnChanged \/ HandleJsInstrumentationMessage
HttpNext(r, n) ==
    \/ n = 1 /\ OnBeforeSendHeaders(r)
    \/ n = 2 /\ (OnBeforeRedirect(r) \/ OnCompleted(r))

LEMMA Cases ==
    ASSUME Next
    PROVE  \/ Rest \/ Operation \/ OnBeforeNavigate \/ OnCommitted
           \/ \E r \in Requests, n \in {1, 2} : HttpNext(r, n)
           \/ \E r \in Requests : OnStackAvailable(r)
           \/ \E t \in tasks : Continue(t)
  BY DEF Next, Firefox, Rest, Operation, HttpNext

LEMMA RestLeaves == ASSUME Rest PROVE tasks' = tasks /\ records' = records /\ ordinal' = ordinal
  BY DEF Rest, Boot, Receive, Command, SendInitialize, GetSite, SendFinalize, Digested,
         OnBeforeRequest, OnData, OnStop, log

LEMMA OperationLeaves ==
    ASSUME Operation
    PROVE  /\ tasks' = tasks /\ request' = request /\ ordinal' = ordinal + 1
           /\ \A r \in records' \ records :
                /\ r.table \in {"javascript", "javascript_cookies"}
                /\ r.visit = Lost \/ (r.visit = visitID /\ visitID # Null)
<1>1. ASSUME NEW instrument, NEW table \in {"javascript", "javascript_cookies"},
             Noted(instrument, table)
      PROVE  /\ tasks' = tasks /\ request' = request /\ ordinal' = ordinal + 1
             /\ \A r \in records' \ records :
                  /\ r.table \in {"javascript", "javascript_cookies"}
                  /\ r.visit = Lost \/ (r.visit = visitID /\ visitID # Null)
  <2>1. Task(table, Null, 0, "save", NoTab).table = table
    BY DEF Task
  <2>2. QED  BY <1>1, <2>1, Saved DEF Noted, Stamped, http
<1>2. QED  BY <1>1 DEF Operation, OnChanged, HandleJsInstrumentationMessage

LEMMA HttpTypedStep == ASSUME ExtensionAssumption, Typed, Next PROVE HttpTyped'
<1>1. HttpTyped /\ tab \in Nat
  BY OpenTab DEF Typed
<1>2. ordinal' \in Nat
  <2>1. CASE Rest \/ Operation
    BY <1>1, <2>1, RestLeaves, OperationLeaves DEF HttpTyped
  <2>2. CASE OnBeforeNavigate \/ OnCommitted \/ \E r \in Requests : OnStackAvailable(r)
    BY <1>1, <2>2 DEF OnBeforeNavigate, OnCommitted, OnStackAvailable, HttpTyped
  <2>3. CASE \E r \in Requests, n \in {1, 2} : HttpNext(r, n)
    BY <2>3, HttpEvents DEF HttpNext
  <2>4. CASE \E t \in tasks : Continue(t)
    BY <2>4, Continued
  <2>5. QED  BY Cases, <2>1, <2>2, <2>3, <2>4
<1>3. request' \in [Requests -> [stage : Stages, tab : Nat, hops : {0, 1}]]
  <2>1. CASE \E r \in Requests : OnBeforeRequest(r)
    <3>1. PICK r \in Requests : OnBeforeRequest(r)
      BY <2>1
    <3>2. PICK of \in {NoTab, tab, request[r].tab} :
            request' = [request EXCEPT ![r] = [request[r] EXCEPT !.stage = "opened", !.tab = of]]
      BY <1>1, <3>1 DEF OnBeforeRequest, HttpTyped
    <3>3. of \in Nat /\ request[r] \in [stage : Stages, tab : Nat, hops : {0, 1}]
      BY <1>1 DEF HttpTyped, NoTab
    <3>4. [request[r] EXCEPT !.stage = "opened", !.tab = of]
            \in [stage : Stages, tab : Nat, hops : {0, 1}]
      BY <3>3 DEF Stages
    <3>5. QED  BY <1>1, <3>2, <3>4 DEF HttpTyped
  <2>2. CASE \E r \in Requests, n \in {1, 2} : HttpNext(r, n)
    BY <1>1, <2>2 DEF HttpNext, OnBeforeSendHeaders, OnBeforeRedirect, OnCompleted, HttpTyped, Stages
  <2>3. CASE \/ Boot \/ Receive \/ Command
             \/ \E r \in Requests : Digested(r) \/ OnData(r) \/ OnStop(r)
    BY <1>1, <2>3 DEF Boot, Receive, Command, SendInitialize, GetSite, SendFinalize, Digested,
                      OnData, OnStop, http, HttpTyped
  <2>4. CASE Operation
    BY <1>1, <2>4, OperationLeaves DEF HttpTyped
  <2>5. CASE OnBeforeNavigate \/ OnCommitted \/ \E r \in Requests : OnStackAvailable(r)
    BY <1>1, <2>5 DEF OnBeforeNavigate, OnCommitted, OnStackAvailable, http, HttpTyped
  <2>6. CASE \E t \in tasks : Continue(t)
    BY <1>1, <2>6, ContinueLeaves DEF HttpTyped
  <2>7. QED  BY Cases, <2>1, <2>2, <2>3, <2>4, <2>5, <2>6 DEF Rest
<1>4. QED  BY <1>2, <1>3 DEF HttpTyped

LEMMA TasksStep == ASSUME ExtensionAssumption, Typed, Next PROVE TasksOK'
<1>1. tab \in Tabs /\ tab \in Nat /\ Tabs' = Tabs
  BY OpenTab, TabsKept DEF Typed
<1>2. SUFFICES ASSUME NEW u \in tasks' \ tasks PROVE u \in TaskType /\ Kind(u)
  <2>1. ASSUME NEW t PROVE Kind(t)' <=> Kind(t)
    BY <1>1 DEF Kind
  <2>2. QED  BY <2>1 DEF TasksOK, Typed
<1>3. CASE Rest \/ Operation
  BY <1>3, RestLeaves, OperationLeaves
<1>4. CASE OnBeforeNavigate \/ OnCommitted
  <2>1. PICK n \in Nat, step \in {"before", "committed"}, event \in {1, 2} :
          u = Task("navigations", n, event, step, tab)
    BY <1>4 DEF OnBeforeNavigate, OnCommitted, Arrives, Typed, FrameOK
  <2>2. ordinal + 1 \in Nat
    BY DEF Typed, HttpTyped
  <2>3. QED  BY <1>1, <2>1, <2>2 DEF Task, TaskType, Kind
<1>5. CASE \E r \in Requests : OnStackAvailable(r)
  <2>1. PICK r \in Requests : u = Task("callstacks", r, 0, "channel", NoTab)
    BY <1>5 DEF OnStackAvailable, Arrives
  <2>2. ordinal + 1 \in Nat
    BY DEF Typed, HttpTyped
  <2>3. QED  BY <2>1, <2>2 DEF Task, TaskType, Kind, NoTab
<1>6. CASE \E r \in Requests, n \in {1, 2} : HttpNext(r, n)
  BY <1>6, HttpEvents DEF HttpNext, Begun
<1>7. CASE \E t \in tasks : Continue(t)
  BY <1>7, Continued DEF Follows
<1>8. QED  BY Cases, <1>3, <1>4, <1>5, <1>6, <1>7

LEMMA BootStep == ASSUME Next PROVE Boot \/ boot' = boot
<1>1. CASE Receive \/ Command \/ \E r \in Requests : Digested(r)
  BY <1>1 DEF Receive, Command, SendInitialize, GetSite, SendFinalize, Digested, page
<1>2. CASE Firefox
  BY <1>2 DEF Firefox, OnBeforeNavigate, OnCommitted, OnChanged, HandleJsInstrumentationMessage,
              Noted, OnBeforeRequest, OnBeforeSendHeaders, OnBeforeRedirect, OnCompleted, OnData,
              OnStop, OnStackAvailable, page
<1>3. CASE \E t \in tasks : Continue(t)
  BY <1>3, ContinueLeaves
<1>4. QED  BY <1>1, <1>2, <1>3 DEF Next

LEMMA TypedStep == ASSUME ExtensionAssumption, Typed, Next PROVE Typed'
<1>1. (boot \in {"opening", "registering", "run"})'
  BY BootStep DEF Boot, Typed
<1>2. QED  BY <1>1, BrowserStep, FrameStep, HttpTypedStep, TasksStep DEF Typed

-----------------------------------------------------------------------------
(* The order of the events of a request.                                   *)

SameKey(x, y) == x.id = y.id /\ x.event = y.event /\ x.ordinal = y.ordinal

(* No new event: handlers and records have keys there were before.         *)
LEMMA KeysKept ==
    ASSUME HttpOK, ordinal \in Nat, ordinal' \in Nat, ordinal <= ordinal',
           \A r \in Requests : LastEvent(r) \in Nat /\ LastEvent(r)' = LastEvent(r),
           \A x \in HttpItems' : \E y \in HttpItems : SameKey(x, y)
    PROVE  HttpOK'
<1>1. ASSUME NEW x \in HttpItems'
      PROVE  /\ x.id \in Requests /\ x.event \in Nat /\ x.ordinal \in Nat
             /\ x.ordinal <= ordinal' /\ x.event <= LastEvent(x.id)'
  BY DEF HttpOK, SameKey
<1>2. ASSUME NEW x \in HttpItems', NEW y \in HttpItems', x.id = y.id, x.event < y.event
      PROVE  x.ordinal < y.ordinal
  BY <1>2 DEF HttpOK, SameKey
<1>3. QED  BY <1>1, <1>2 DEF HttpOK

LEMMA HttpStep == ASSUME ExtensionAssumption, Typed, HttpOK, Next PROVE HttpOK'
<1>1. /\ ordinal \in Nat
      /\ request \in [Requests -> [stage : Stages, tab : Nat, hops : {0, 1}]]
  BY DEF Typed, HttpTyped
<1>2. ASSUME NEW r \in Requests PROVE LastEvent(r) \in Nat
  BY <1>1 DEF LastEvent
<1>3. ASSUME request' = request PROVE \A r \in Requests : LastEvent(r)' = LastEvent(r)
  BY <1>3 DEF LastEvent
<1>4. ASSUME \A x \in (tasks' \cup records') \ (tasks \cup records) :
                x.table \in HttpTables => \E y \in HttpItems : SameKey(x, y)
      PROVE  \A x \in HttpItems' : \E y \in HttpItems : SameKey(x, y)
  BY <1>4 DEF HttpItems, SameKey
<1>5. CASE Rest
  <2>1. HttpItems' = HttpItems /\ ordinal' = ordinal
    BY <1>5, RestLeaves DEF HttpItems
  <2>2. ASSUME NEW r \in Requests PROVE LastEvent(r)' = LastEvent(r)
    <3>1. CASE \E q \in Requests : OnBeforeRequest(q)
      <4>1. PICK q \in Requests : OnBeforeRequest(q)
        BY <3>1
      <4>2. request[q].stage \in {"new", "redirected"}
        BY <4>1 DEF OnBeforeRequest
      <4>3. request'[q].stage = "opened" /\ request'[q].hops = request[q].hops
            /\ \A p \in Requests \ {q} : request'[p] = request[p]
        BY <1>1, <4>1 DEF OnBeforeRequest
      <4>4. QED  BY <4>2, <4>3 DEF LastEvent
    <3>2. CASE \/ Boot \/ Receive \/ Command
               \/ \E q \in Requests : Digested(q) \/ OnData(q) \/ OnStop(q)
      BY <1>3, <3>2 DEF Boot, Receive, Command, SendInitialize, GetSite, SendFinalize, Digested,
                        OnData, OnStop, http
    <3>3. QED  BY <1>5, <3>1, <3>2 DEF Rest
  <2>3. \A x \in HttpItems' : \E y \in HttpItems : SameKey(x, y)
    BY <2>1 DEF SameKey
  <2>4. QED  BY <1>1, <1>2, <2>1, <2>2, <2>3, KeysKept
<1>6. CASE Operation
  <2>1. \A x \in HttpItems' : \E y \in HttpItems : SameKey(x, y)
    BY <1>4, <1>6, OperationLeaves DEF HttpTables
  <2>2. QED  BY <1>1, <1>2, <1>3, <1>6, <2>1, OperationLeaves, KeysKept
<1>7. CASE OnBeforeNavigate \/ OnCommitted \/ \E r \in Requests : OnStackAvailable(r)
  <2>1. /\ request' = request /\ ordinal' = ordinal /\ records' = records
        /\ \A u \in tasks' \ tasks : u.table \notin HttpTables
    BY <1>7 DEF OnBeforeNavigate, OnCommitted, OnStackAvailable, http, Arrives, Task, HttpTables
  <2>2. \A x \in HttpItems' : \E y \in HttpItems : SameKey(x, y)
    BY <1>4, <2>1
  <2>3. QED  BY <1>1, <1>2, <1>3, <2>1, <2>2, KeysKept
<1>8. CASE \E t \in tasks : Continue(t)
  <2>1. PICK t \in tasks : Continue(t)
    BY <1>8
  <2>2. t \in HttpItems \/ t.table \notin HttpTables
    BY DEF HttpItems
  <2>3. \A u \in tasks' \ tasks : u.table \in HttpTables => t \in HttpItems /\ SameKey(u, t)
    BY <2>1, <2>2, Continued DEF Follows, SameKey, HttpTables
  <2>4. \A r \in records' \ records : r.table \in HttpTables => t \in HttpItems /\ SameKey(r, t)
    BY <2>1, <2>2, Continued DEF Reports, SameKey, HttpTables
  <2>5. \A x \in HttpItems' : \E y \in HttpItems : SameKey(x, y)
    BY <1>4, <2>3, <2>4
  <2>6. request' = request
    BY <2>1, ContinueLeaves
  <2>7. QED  BY <1>1, <1>2, <1>3, <2>1, <2>5, <2>6, Continued, KeysKept
<1>9. CASE \E r \in Requests, n \in {1, 2} : HttpNext(r, n)
  <2>1. PICK r \in Requests, n \in {1, 2} : HttpNext(r, n)
    BY <1>9
  <2> DEFINE event == 2 * request[r].hops + n
  <2>2. /\ records' = records /\ ordinal' \in Nat /\ ordinal <= ordinal'
        /\ \A u \in tasks' \ tasks : Begun(u, r, event)
    BY <2>1, HttpEvents DEF HttpNext
  <2>3. /\ LastEvent(r) < event /\ LastEvent(r)' = event /\ event \in Nat
        /\ \A q \in Requests \ {r} : LastEvent(q)' = LastEvent(q)
    <3>1. CASE OnBeforeSendHeaders(r) /\ n = 1
      BY <1>1, <3>1 DEF OnBeforeSendHeaders, LastEvent
    <3>2. CASE OnBeforeRedirect(r) /\ n = 2
      BY <1>1, <3>2 DEF OnBeforeRedirect, LastEvent
    <3>3. CASE OnCompleted(r) /\ n = 2
      BY <1>1, <3>3 DEF OnCompleted, LastEvent
    <3>4. QED  BY <2>1, <3>1, <3>2, <3>3 DEF HttpNext
  <2>4. ASSUME NEW x \in HttpItems'
        PROVE  x \in HttpItems \/ (x.id = r /\ x.event = event /\ x.ordinal = ordinal + 1
                                   /\ ordinal' = ordinal + 1)
    BY <2>2 DEF HttpItems, Begun
  <2>5. ASSUME NEW x \in HttpItems'
        PROVE  /\ x.id \in Requests /\ x.event \in Nat /\ x.ordinal \in Nat
               /\ x.ordinal <= ordinal' /\ x.event <= LastEvent(x.id)'
    <3>1. CASE x \in HttpItems
      <4>1. /\ x.id \in Requests /\ x.event \in Nat /\ x.ordinal \in Nat
            /\ x.ordinal <= ordinal /\ x.event <= LastEvent(x.id)
        BY <3>1 DEF HttpOK
      <4>2. LastEvent(x.id) <= LastEvent(x.id)'
        BY <1>2, <2>3, <4>1
      <4>3. QED  BY <1>1, <1>2, <2>2, <2>3, <4>1, <4>2
    <3>2. CASE x \notin HttpItems
      BY <1>1, <2>3, <2>4, <3>2
    <3>3. QED  BY <3>1, <3>2
  <2>6. ASSUME NEW x \in HttpItems', NEW y \in HttpItems', x.id = y.id, x.event < y.event
        PROVE  x.ordinal < y.ordinal
    <3>1. CASE x \in HttpItems /\ y \in HttpItems
      BY <2>6, <3>1 DEF HttpOK
    <3>2. CASE x \in HttpItems /\ y \notin HttpItems
      BY <1>1, <2>4, <3>2 DEF HttpOK
    <3>3. CASE x \notin HttpItems
      <4>1. x.id = r /\ x.event = event
        BY <2>4, <3>3
      <4>2. y.event <= event
        BY <2>3, <2>5, <2>6, <4>1
      <4>3. QED  BY <2>3, <2>5, <2>6, <4>1, <4>2
    <3>4. QED  BY <3>1, <3>2, <3>3
  <2>7. QED  BY <2>5, <2>6 DEF HttpOK
<1>10. QED  BY Cases, <1>5, <1>6, <1>7, <1>8, <1>9

-----------------------------------------------------------------------------
(* Navigations.                                                            *)

(* Commands open tabs, and nothing else does.                              *)
LEMMA TabStep ==
    ASSUME ExtensionAssumption, Typed, Next
    PROVE  tab \in Nat /\ tab \in Tabs /\ tab' \in Tabs /\ tab' \in {tab, tab + 1}
<1>1. BrowserOK /\ BrowserOK' /\ config.visits \in Nat /\ config' = config
  BY BrowserStep, TabsKept DEF Typed, BrowserOK, ExtensionAssumption
<1>2. tab \in Nat /\ tab \in Tabs
  BY <1>1, OpenTab
<1>3. tab' \in Tabs
  BY <1>1 DEF BrowserOK, Tabs
<1>4. tab' \in {tab, tab + 1}
  BY BrowserLeft DEF Next, Quiet, Command, SendInitialize, GetSite, SendFinalize, RestartTab
<1>5. QED  BY <1>2, <1>3, <1>4

LEMMA PendingStep ==
    ASSUME ExtensionAssumption, Typed, PendingOK, Next
    PROVE  /\ PendingOK' /\ navigation.n <= navigation'.n
           /\ \A x \in Tabs : pending'[x] = pending[x] \/ pending'[x] = navigation'.n
<1>1. /\ navigation \in [stage : {"idle", "started"}, n : Nat]
      /\ pending \in [Tabs -> Nat]
      /\ \A x \in Tabs : x \in Nat
  BY DEF Typed, FrameOK, Tabs
<1>2. tab \in Nat /\ tab \in Tabs /\ tab' \in Tabs /\ tab' \in {tab, tab + 1} /\ Tabs' = Tabs
  BY TabStep, TabsKept
<1>3. Runs("navigation") => Runs("navigation")'
  BY BootStep, TabsKept DEF Boot, Runs
<1>4. CASE OnBeforeNavigate
  <2>1. /\ navigation' = [stage |-> "started", n |-> navigation.n + 1] /\ tab' = tab
        /\ boot' = boot /\ config' = config
    BY <1>4 DEF OnBeforeNavigate, browser, page
  <2>2. CASE Runs("navigation")
    <3>1. pending' = [pending EXCEPT ![tab] = navigation.n + 1]
      BY <1>4, <2>2 DEF OnBeforeNavigate, PendingReplaced
    <3>2. QED  BY <1>1, <1>2, <1>3, <2>1, <2>2, <3>1 DEF PendingOK
  <2>3. CASE ~Runs("navigation")
    <3>1. pending' = pending
      BY <1>4, <2>3 DEF OnBeforeNavigate
    <3>2. \A x \in Tabs : pending'[x] = 0
      BY <2>3, <3>1 DEF PendingOK
    <3>3. QED  BY <1>1, <1>2, <2>1, <3>1, <3>2 DEF PendingOK
  <2>4. QED  BY <2>2, <2>3
<1>5. CASE OnCommitted
  <2>1. /\ navigation' = [navigation EXCEPT !.stage = "idle"] /\ pending' = pending
        /\ tab' = tab
    BY <1>5 DEF OnCommitted, browser
  <2>2. QED  BY <1>1, <1>2, <1>3, <2>1 DEF PendingOK
<1>6. CASE ~OnBeforeNavigate /\ ~OnCommitted
  <2>1. navigation' = navigation /\ pending' = pending
    BY <1>6, FrameLeft
  <2>2. tab' = tab + 1 => pending[tab'] = 0
    BY <1>1, <1>2 DEF PendingOK
  <2>3. QED  BY <1>1, <1>2, <1>3, <2>1, <2>2 DEF PendingOK
<1>7. QED  BY <1>4, <1>5, <1>6

(* A handler that was about the past stays about the past.                 *)
LEMMA NavTaskKept ==
    ASSUME ExtensionAssumption, Typed, PendingOK, Next, NEW u \in tasks, u.table = "navigations",
           NavTask(u)
    PROVE  NavTask(u)'
<1>1. u.id \in Nat /\ u.tab \in Tabs /\ u.with \in Nat
  BY DEF Typed, TasksOK, Kind, HttpTables, TaskType
<1>2. tab \in Nat /\ tab' \in {tab, tab + 1}
  BY TabStep
<1>3. navigation.n \in Nat /\ navigation'.n \in Nat /\ navigation.n <= navigation'.n
  BY PendingStep, FrameStep DEF Typed, FrameOK
<1>4. pending'[u.tab] = pending[u.tab] \/ pending'[u.tab] = navigation'.n
  BY <1>1, PendingStep
<1>5. QED  BY <1>1, <1>2, <1>3, <1>4 DEF NavTask

LEMMA NavStep == ASSUME ExtensionAssumption, Typed, NavOK, Next PROVE NavOK'
<1>1. PendingOK /\ PendingOK'
  BY PendingStep DEF NavOK
<1>2. /\ navigation \in [stage : {"idle", "started"}, n : Nat]
      /\ pending \in [Tabs -> Nat] /\ tab \in Tabs /\ tab \in Nat /\ tab > 0
  BY TabStep DEF Typed, FrameOK, Tabs
<1>3. SUFFICES /\ \A u \in tasks' \ tasks : u.table = "navigations" => NavTask(u)'
               /\ \A r \in records' \ records : r.table = "navigations" => NavRecord(r)
  <2>1. ASSUME NEW u \in tasks, u.table = "navigations" PROVE NavTask(u)'
    BY <1>1, <2>1, NavTaskKept DEF NavOK
  <2>2. QED  BY <1>1, <2>1 DEF NavOK, NavRecord
<1>4. CASE Rest \/ Operation
  BY <1>4, RestLeaves, OperationLeaves
<1>5. CASE OnBeforeNavigate
  <2>1. ASSUME NEW u \in tasks' \ tasks
        PROVE  u = Task("navigations", navigation.n + 1, 1, "before", tab)
    BY <1>5 DEF OnBeforeNavigate, Arrives
  <2>2. navigation'.n = navigation.n + 1 /\ tab' = tab /\ records' = records
    BY <1>5 DEF OnBeforeNavigate, browser
  <2>3. QED  BY <1>2, <2>1, <2>2 DEF Task, NavTask
<1>6. CASE OnCommitted
  <2>1. ASSUME NEW u \in tasks' \ tasks
        PROVE  u = Task("navigations", navigation.n, 2, "committed", tab)
    BY <1>6 DEF OnCommitted, Arrives
  <2>2. /\ navigation'.n = navigation.n /\ tab' = tab /\ records' = records
        /\ pending' = pending /\ navigation.stage = "started"
    BY <1>2, <1>6 DEF OnCommitted, browser
  <2>3. pending[tab] = 0 \/ pending[tab] >= navigation.n
    BY <1>1, <1>2, <2>2 DEF PendingOK
  <2>4. QED  BY <1>2, <2>1, <2>2, <2>3 DEF Task, NavTask
<1>7. CASE \E r \in Requests : OnStackAvailable(r)
  BY <1>7 DEF OnStackAvailable, Arrives, Task
<1>8. CASE \E r \in Requests, n \in {1, 2} : HttpNext(r, n)
  BY <1>8, HttpEvents DEF HttpNext, Begun
<1>9. CASE \E t \in tasks : Continue(t)
  <2>1. PICK t \in tasks : Continue(t)
    BY <1>9
  <2>2. /\ \A u \in tasks' \ tasks : u.table = t.table
        /\ \A r \in records' \ records : r.table \in {t.table, "page_content"}
    BY <2>1, Continued DEF Follows, Reports
  <2>3. CASE t.table # "navigations"
    BY <2>2, <2>3
  <2>4. CASE t.table = "navigations"
    <3>1. /\ t \in TaskType /\ NavTask(t) /\ t.id \in Nat /\ t.tab \in Tabs
          /\ t.step \in {"before", "committed", "pair"}
      BY <2>4 DEF NavOK, Typed, TasksOK, Kind, HttpTables
    <3>2. UNCHANGED <<navigation, pending, tab>>
      BY <2>1, ContinueLeaves
    <3>3. CASE TabGone(t) \/ BeforeNavigateResolved(t)
      BY <3>3 DEF TabGone, BeforeNavigateResolved, Ends
    <3>4. CASE CommittedTabKnown(t)
      <4>1. CASE Counterpart(t) = 0
        BY <3>1, <3>4, <4>1, Saved DEF CommittedTabKnown, Ends, NavRecord
      <4>2. CASE Counterpart(t) # 0
        <5> DEFINE u == [t EXCEPT !.step = "pair", !.with = Counterpart(t), !.ordinal = ordinal + 1]
        <5>1. tasks' = (tasks \ {t}) \cup {u} /\ records' = records
          BY <3>4, <4>2 DEF CommittedTabKnown
        <5>2. Counterpart(t) >= t.id
          BY <3>1, <3>4, <4>2 DEF CommittedTabKnown, NavTask, Counterpart
        <5>3. u.id = t.id /\ u.tab = t.tab /\ u.step = "pair" /\ u.with = Counterpart(t)
          BY <3>1 DEF TaskType
        <5>4. ASSUME NEW v, v.id = t.id, v.tab = t.tab, v.step = "pair", v.with >= t.id
              PROVE  NavTask(v)'
          BY <3>1, <3>2, <5>4 DEF NavTask
        <5>5. ASSUME NEW v \in tasks' \ tasks PROVE NavTask(v)'
          <6>1. v = u
            BY <5>1
          <6>2. v.id = t.id /\ v.tab = t.tab /\ v.step = "pair" /\ v.with >= t.id
            BY <5>2, <5>3, <6>1
          <6>3. QED  BY <5>4, <6>2
        <5>6. QED  BY <5>1, <5>5
      <4>3. QED  BY <4>1, <4>2
    <3>5. CASE PairKnown(t)
      <4>1. t.with \in Nat /\ t.with >= t.id
        BY <3>1, <3>5 DEF PairKnown, NavTask, TaskType
      <4>2. QED  BY <3>1, <3>5, <4>1, Saved DEF PairKnown, Ends, NavRecord
    <3>6. QED
      BY <2>1, <2>4, <3>1, <3>3, <3>4, <3>5 DEF Continue, RequestTabKnown, RedirectTabKnown,
         ResponseTabKnown, PostKnown, BodyArrived, DnsResolved, StackSaved
  <2>5. QED  BY <2>3, <2>4
<1>10. QED  BY Cases, <1>4, <1>5, <1>6, <1>7, <1>8, <1>9

-----------------------------------------------------------------------------
(* The visit of the session.                                               *)

(* A message that keeps its turn when it is sent, keeps the order.         *)
LEMMA Sent ==
    ASSUME VisitsOK, Typed, NEW m \in Messages, inbox' = Append(inbox, m),
           UNCHANGED <<visitID, opened, closed>>,
           manager.visit \in Nat, manager'.visit \in Nat, manager.visit <= manager'.visit,
           m.visit_id <= manager'.visit, m.visit_id \notin closed,
           m.action # "Initialize" => Announced(m.visit_id, Len(inbox)),
           \A k \in 1 .. Len(inbox) :
             inbox[k].action = "Finalize" => inbox[k].visit_id # m.visit_id
    PROVE  /\ inbox' \in Seq(Messages) /\ Len(inbox') = Len(inbox) + 1
           /\ inbox'[Len(inbox) + 1] = m /\ \A i \in 1 .. Len(inbox) : inbox'[i] = inbox[i]
           /\ opened' \subseteq Nat /\ closed' \subseteq 1 .. manager'.visit
           /\ (visitID = Null \/ visitID \in opened \ closed)'
           /\ \A i \in 1 .. Len(inbox') : InTurn(i)'
<1>1. /\ inbox' \in Seq(Messages) /\ Len(inbox') = Len(inbox) + 1 /\ Len(inbox) \in Nat
      /\ inbox'[Len(inbox) + 1] = m /\ \A i \in 1 .. Len(inbox) : inbox'[i] = inbox[i]
  BY DEF VisitsOK
<1>2. ASSUME NEW i \in 1 .. Len(inbox) PROVE InTurn(i)'
  <2>1. InTurn(i) /\ i - 1 \in 0 .. Len(inbox) /\ inbox'[i] = inbox[i] /\ inbox[i] \in Messages
    BY <1>1 DEF VisitsOK
  <2>2. inbox[i].visit_id \in Nat
    BY <2>1 DEF Messages
  <2>3. \A k \in 1 .. i - 1 : inbox'[k] = inbox[k]
    BY <1>1
  <2>4. QED  BY <2>1, <2>2, <2>3 DEF InTurn, Announced
<1>3. ASSUME NEW i, i = Len(inbox) + 1 PROVE InTurn(i)'
  <2>1. inbox'[i] = m /\ i - 1 = Len(inbox)
    BY <1>1, <1>3
  <2>2. QED  BY <1>1, <2>1 DEF InTurn, Announced
<1>4. ASSUME NEW i \in 1 .. Len(inbox') PROVE InTurn(i)'
  <2>1. i \in 1 .. Len(inbox) \/ i = Len(inbox) + 1
    BY <1>1
  <2>2. QED  BY <1>2, <1>3, <2>1
<1>5. QED  BY <1>1, <1>4 DEF VisitsOK

LEMMA SendStep == ASSUME ExtensionAssumption, Typed, VisitsOK, Command PROVE VisitsOK'
<1>1. /\ manager \in [visit : Nat, pc : {"idle", "initialized", "loaded"}]
      /\ manager.pc # "idle" => manager.visit \in Nat \ {0}
      /\ inbox \in Seq(Messages) /\ Len(inbox) \in Nat
  BY DEF Typed, BrowserOK, VisitsOK
<1>2. \A k \in 1 .. Len(inbox) : inbox[k] \in Messages /\ inbox[k].visit_id <= manager.visit
  BY <1>1 DEF VisitsOK, InTurn
<1>3. CASE SendInitialize
  <2> DEFINE v == manager.visit + 1
             m == [action |-> "Initialize", visit_id |-> v]
  <2>1. /\ inbox' = Append(inbox, m) /\ UNCHANGED <<visitID, opened, closed>>
        /\ manager'.visit = v /\ manager'.pc = "initialized" /\ v \in Nat \ {0}
    BY <1>1, <1>3 DEF SendInitialize, Send
  <2>2. m \in Messages /\ m.visit_id = v /\ m.action = "Initialize"
    BY <2>1 DEF Messages
  <2>3. v \notin closed
    BY <1>1 DEF VisitsOK
  <2>4. \A k \in 1 .. Len(inbox) : inbox[k].visit_id # v
    BY <1>1, <1>2 DEF Messages
  <2> HIDE DEF m
  <2>5. /\ inbox' \in Seq(Messages) /\ Len(inbox') = Len(inbox) + 1
        /\ inbox'[Len(inbox) + 1] = m /\ \A i \in 1 .. Len(inbox) : inbox'[i] = inbox[i]
        /\ opened' \subseteq Nat /\ closed' \subseteq 1 .. manager'.visit
        /\ (visitID = Null \/ visitID \in opened \ closed)'
        /\ \A i \in 1 .. Len(inbox') : InTurn(i)'
    BY <1>1, <2>1, <2>2, <2>3, <2>4, Sent
  <2>6. Announced(manager.visit, Len(inbox))'
    BY <1>1, <2>1, <2>2, <2>5 DEF Announced
  <2>7. ~Ended(manager.visit)'
    BY <1>1, <2>1, <2>2, <2>3, <2>4, <2>5 DEF Ended
  <2>8. QED  BY <2>5, <2>6, <2>7 DEF VisitsOK
<1>4. ASSUME NEW m \in Messages, m.visit_id = manager.visit, m.action # "Initialize",
             manager.pc # "idle", inbox' = Append(inbox, m), UNCHANGED <<visitID, opened, closed>>,
             manager'.visit = manager.visit,
             manager'.pc # "idle" => m.action # "Finalize"
      PROVE  VisitsOK'
  <2>1. Announced(manager.visit, Len(inbox)) /\ ~Ended(manager.visit)
    BY <1>4 DEF VisitsOK
  <2>2. /\ inbox' \in Seq(Messages) /\ Len(inbox') = Len(inbox) + 1
        /\ inbox'[Len(inbox) + 1] = m /\ \A i \in 1 .. Len(inbox) : inbox'[i] = inbox[i]
        /\ opened' \subseteq Nat /\ closed' \subseteq 1 .. manager'.visit
        /\ (visitID = Null \/ visitID \in opened \ closed)'
        /\ \A i \in 1 .. Len(inbox') : InTurn(i)'
    <3>1. m.visit_id \notin closed
      BY <1>4, <2>1 DEF Ended
    <3>2. \A k \in 1 .. Len(inbox) :
            inbox[k].action = "Finalize" => inbox[k].visit_id # m.visit_id
      BY <1>4, <2>1 DEF Ended
    <3>3. /\ manager.visit \in Nat /\ manager'.visit \in Nat /\ manager.visit <= manager'.visit
          /\ m.visit_id <= manager'.visit /\ Announced(m.visit_id, Len(inbox))
      BY <1>1, <1>4, <2>1
    <3>4. QED  BY <1>4, <3>1, <3>2, <3>3, Sent
  <2>3. Announced(manager.visit, Len(inbox))'
    BY <1>1, <1>4, <2>1, <2>2 DEF Announced
  <2>4. manager'.pc # "idle" => ~Ended(manager.visit)'
    BY <1>1, <1>4, <2>1, <2>2 DEF Ended
  <2>5. QED  BY <2>2, <2>3, <2>4 DEF VisitsOK
<1>5. CASE GetSite
  <2> DEFINE m == [action |-> "legacy", visit_id |-> manager.visit]
  <2>1. m \in Messages /\ m.visit_id = manager.visit /\ m.action = "legacy"
    BY <1>1, <1>5 DEF GetSite, Messages
  <2>2. /\ manager.pc # "idle" /\ inbox' = Append(inbox, m) /\ UNCHANGED <<visitID, opened, closed>>
        /\ manager'.visit = manager.visit
    BY <1>1, <1>5 DEF GetSite, Send
  <2> HIDE DEF m
  <2>3. QED  BY <1>4, <2>1, <2>2
<1>6. CASE SendFinalize
  <2> DEFINE m == [action |-> "Finalize", visit_id |-> manager.visit]
  <2>1. m \in Messages /\ m.visit_id = manager.visit /\ m.action = "Finalize"
    BY <1>1, <1>6 DEF SendFinalize, Messages
  <2>2. /\ manager.pc # "idle" /\ inbox' = Append(inbox, m) /\ UNCHANGED <<visitID, opened, closed>>
        /\ manager'.visit = manager.visit /\ manager'.pc = "idle"
    BY <1>1, <1>6 DEF SendFinalize, Send
  <2> HIDE DEF m
  <2>3. QED  BY <1>4, <2>1, <2>2
<1>7. QED  BY <1>3, <1>5, <1>6 DEF Command

LEMMA ReceiveStep == ASSUME ExtensionAssumption, Typed, VisitsOK, Receive PROVE VisitsOK'
<1>1. /\ inbox \in Seq(Messages) /\ Len(inbox) \in Nat /\ Len(inbox) > 0
      /\ inbox' \in Seq(Messages) /\ Len(inbox') = Len(inbox) - 1
      /\ \A i \in 1 .. Len(inbox') : inbox'[i] = inbox[i + 1] /\ i + 1 \in 1 .. Len(inbox)
  BY DEF VisitsOK, Receive
<1>0. /\ inbox[1] \in Messages /\ InTurn(1) /\ Head(inbox) = inbox[1]
  BY <1>1 DEF VisitsOK
<1>2. PICK m \in Messages, v \in Nat \ {0} :
        /\ m = inbox[1] /\ v = m.visit_id /\ v <= manager.visit /\ v \notin closed
        /\ m.action # "Initialize" => v \in opened
  <2>1. inbox[1].visit_id \in Nat \ {0}
    BY <1>0 DEF Messages
  <2>2. inbox[1].action # "Initialize" => inbox[1].visit_id \in opened
    BY <1>0 DEF InTurn, Announced
  <2>3. inbox[1].visit_id <= manager.visit /\ inbox[1].visit_id \notin closed
    BY <1>0 DEF InTurn
  <2>4. QED  BY <1>0, <2>1, <2>2, <2>3
<1>3. /\ visitID' = IF m.action = "Finalize" THEN Null ELSE v
      /\ opened' = IF m.action = "Initialize" THEN opened \cup {v} ELSE opened
      /\ closed' = IF m.action = "Finalize" THEN closed \cup {v} ELSE closed
      /\ manager' = manager
  BY <1>0, <1>2 DEF Receive, VisitAfter, browser
<1>4. manager.visit \in Nat /\ opened \subseteq Nat /\ closed \subseteq 1 .. manager.visit
  BY DEF Typed, BrowserOK, VisitsOK
<1>5. opened' \subseteq Nat /\ closed' \subseteq 1 .. manager'.visit
  <2>1. v \in 1 .. manager.visit /\ v \in Nat
    BY <1>2, <1>4
  <2>2. opened \cup {v} \subseteq Nat /\ closed \cup {v} \subseteq 1 .. manager.visit
    BY <1>4, <2>1
  <2>3. QED  BY <1>3, <1>4, <2>2
<1>6. (visitID = Null \/ visitID \in opened \ closed)'
  BY <1>2, <1>3 DEF Messages
<1>7. ASSUME NEW i \in 1 .. Len(inbox') PROVE InTurn(i)'
  <2>0. inbox'[i] = inbox[i + 1] /\ i \in Nat \ {0} /\ i + 1 \in 1 .. Len(inbox)
    BY <1>1
  <2>1. inbox'[i] = inbox[i + 1] /\ InTurn(i + 1) /\ i \in Nat \ {0} /\ i + 1 \in 1 .. Len(inbox)
    BY <2>0 DEF VisitsOK
  <2> DEFINE w == inbox[i + 1].visit_id
  <2>2. w <= manager'.visit /\ w \notin closed'
    <3>1. m.action = "Finalize" => v # w
      <4>1. 1 \in 1 .. (i + 1) - 1
        BY <2>1
      <4>2. QED  BY <1>2, <2>1, <4>1 DEF InTurn
    <3>2. QED  BY <1>3, <2>1, <3>1 DEF InTurn
  <2>3. ASSUME inbox[i + 1].action # "Initialize"
        PROVE  w \in opened' \/ \E k \in 1 .. i - 1 :
                 inbox'[k].action = "Initialize" /\ inbox'[k].visit_id = w
    <3>1. w \in opened \/ \E k \in 1 .. i : inbox[k].action = "Initialize" /\ inbox[k].visit_id = w
      BY <2>1, <2>3 DEF InTurn, Announced
    <3>2. CASE w \in opened
      BY <1>3, <3>2
    <3>3. ASSUME NEW k \in 1 .. i, inbox[k].action = "Initialize", inbox[k].visit_id = w
          PROVE  w \in opened' \/ \E l \in 1 .. i - 1 :
                   inbox'[l].action = "Initialize" /\ inbox'[l].visit_id = w
      <4>1. CASE k = 1
        BY <1>2, <1>3, <3>3, <4>1
      <4>2. CASE k # 1
        <5>1. k - 1 \in 1 .. i - 1 /\ k - 1 \in 1 .. Len(inbox') /\ (k - 1) + 1 = k
          BY <1>1, <2>1, <4>2
        <5>2. inbox'[k - 1] = inbox[k]
          BY <1>1, <5>1
        <5>3. QED  BY <3>3, <5>1, <5>2
      <4>3. QED  BY <4>1, <4>2
    <3>4. QED  BY <3>1, <3>2, <3>3
  <2>4. ASSUME NEW k \in 1 .. i - 1, inbox'[k].action = "Finalize" PROVE inbox'[k].visit_id # w
    <3>1. inbox'[k] = inbox[k + 1] /\ k + 1 \in 1 .. (i + 1) - 1
      BY <1>1, <2>1
    <3>2. QED  BY <2>1, <2>4, <3>1 DEF InTurn
  <2>5. QED  BY <2>1, <2>2, <2>3, <2>4 DEF InTurn, Announced
<1>8. ASSUME manager'.pc # "idle"
      PROVE  (Announced(manager.visit, Len(inbox)) /\ ~Ended(manager.visit))'
  <2> DEFINE w == manager.visit
  <2>1. Announced(w, Len(inbox)) /\ ~Ended(w)
    BY <1>3, <1>8 DEF VisitsOK
  <2>2. w \in opened' \/ \E k \in 1 .. Len(inbox') :
          inbox'[k].action = "Initialize" /\ inbox'[k].visit_id = w
    <3>1. CASE w \in opened
      BY <1>3, <3>1
    <3>2. ASSUME NEW k \in 1 .. Len(inbox), inbox[k].action = "Initialize", inbox[k].visit_id = w
          PROVE  w \in opened' \/ \E l \in 1 .. Len(inbox') :
                   inbox'[l].action = "Initialize" /\ inbox'[l].visit_id = w
      <4>1. CASE k = 1
        BY <1>2, <1>3, <3>2, <4>1
      <4>2. CASE k # 1
        <5>1. k - 1 \in 1 .. Len(inbox') /\ (k - 1) + 1 = k
          BY <1>1, <4>2
        <5>2. inbox'[k - 1] = inbox[k]
          BY <1>1, <5>1
        <5>3. QED  BY <3>2, <5>1, <5>2
      <4>3. QED  BY <4>1, <4>2
    <3>3. QED  BY <2>1, <3>1, <3>2 DEF Announced
  <2>3. w \notin closed'
    BY <1>1, <1>2, <1>3, <2>1 DEF Ended
  <2>4. ASSUME NEW k \in 1 .. Len(inbox'), inbox'[k].action = "Finalize" PROVE inbox'[k].visit_id # w
    BY <1>1, <2>1, <2>4 DEF Ended
  <2>5. QED  BY <1>3, <2>2, <2>3, <2>4 DEF Announced, Ended
<1>9. QED  BY <1>1, <1>5, <1>6, <1>7, <1>8 DEF VisitsOK

LEMMA VisitsStep == ASSUME ExtensionAssumption, Typed, VisitsOK, Next PROVE VisitsOK'
<1>1. CASE Command
  BY <1>1, SendStep
<1>2. CASE Receive
  BY <1>2, ReceiveStep
<1>3. CASE Boot \/ Firefox \/ (\E r \in Requests : Digested(r)) \/ (\E t \in tasks : Continue(t))
  <2>1. UNCHANGED <<manager, inbox, visitID, opened, closed>>
    <3>1. CASE Boot \/ (\E r \in Requests : Digested(r))
      BY <3>1 DEF Boot, Digested, browser, session
    <3>2. CASE Firefox
      BY <3>2 DEF Firefox, OnBeforeNavigate, OnCommitted, OnChanged,
                  HandleJsInstrumentationMessage, Noted, OnBeforeRequest, OnBeforeSendHeaders,
                  OnBeforeRedirect, OnCompleted, OnData, OnStop, OnStackAvailable, browser, session
    <3>3. CASE \E t \in tasks : Continue(t)
      BY <3>3, ContinueLeaves
    <3>4. QED  BY <1>3, <3>1, <3>2, <3>3
  <2>2. QED  BY <2>1 DEF VisitsOK, InTurn, Announced, Ended
<1>4. QED  BY <1>1, <1>2, <1>3 DEF Next

-----------------------------------------------------------------------------
LEMMA Initial == ASSUME ExtensionAssumption, Init PROVE IInv
<1> USE DEF Init
<1>1. config.visits \in Nat
  BY DEF ExtensionAssumption
<1>2. Typed
  <2>1. BrowserOK
    BY <1>1 DEF BrowserOK
  <2>2. FrameOK /\ HttpTyped /\ TasksOK
    BY DEF FrameOK, HttpTyped, TasksOK, NoTab, Stages
  <2>3. QED  BY <2>1, <2>2 DEF Typed
<1>3. HttpOK /\ NavOK
  BY <1>2, OpenTab DEF Typed, HttpOK, HttpItems, NavOK, PendingOK
<1>4. VisitsOK
  BY DEF VisitsOK, Null
<1>5. QED  BY <1>2, <1>3, <1>4 DEF IInv

LEMMA Inductive == ASSUME ExtensionAssumption, IInv, [Next]_vars PROVE IInv'
<1>1. CASE Next
  BY <1>1, TypedStep, HttpStep, NavStep, VisitsStep DEF IInv
<1>2. CASE UNCHANGED vars
  <2> USE <1>2 DEF vars, page, browser, session, http, frame, log
  <2>1. Typed'
    BY DEF IInv, Typed, BrowserOK, FrameOK, HttpTyped, TasksOK, Kind, Tabs
  <2>2. HttpOK' /\ NavOK' /\ VisitsOK'
    BY DEF IInv, HttpOK, HttpItems, LastEvent, NavOK, PendingOK, NavTask, NavRecord, Runs, Tabs,
           VisitsOK, InTurn, Announced, Ended
  <2>3. QED  BY <2>1, <2>2 DEF IInv
<1>3. QED  BY <1>1, <1>2

LEMMA Invariant == Spec => []IInv
<1>1. Init => IInv
  BY Initial, ExtensionAssumption
<1>2. IInv /\ [Next]_vars => IInv'
  BY Inductive, ExtensionAssumption
<1>3. QED  BY <1>1, <1>2, PTL DEF Spec

(* The order of the ordinals of a request is the order of its events, for  *)
(* any number of requests and instruments: every handler takes its ordinal *)
(* before it first waits (http-instrument.ts).                             *)
THEOREM EventsAreOrdered == Spec => []OrdinalsFollowEvents
<1>1. IInv => OrdinalsFollowEvents
  BY DEF IInv, HttpOK, HttpItems, HttpTables, OrdinalsFollowEvents
<1>2. QED  BY <1>1, Invariant, PTL

(* A navigation record is never completed from an earlier navigation of    *)
(* its frame, for any number of navigations and tabs                       *)
(* (navigation-instrument.ts 78-136).                                      *)
THEOREM NavigationsAreTheirOwn == Spec => []NavigationIsNotStale
<1>1. IInv => NavigationIsNotStale
  BY DEF IInv, NavOK, NavRecord, NavigationIsNotStale
<1>2. QED  BY <1>1, Invariant, PTL

(* Every record is attributed to the visit that is open when it is saved,  *)
(* or to none, for any number of visits (loggingdb.ts 106-125).            *)
THEOREM RecordsStayInTheirVisit == Spec => RecordsInOpenVisit
<1>1. ASSUME IInv, [Next]_vars
      PROVE  \A r \in records' \ records : r.visit = Lost \/ r.visit \in opened \ closed
  <2>1. visitID # Null => visitID \in opened \ closed
    BY <1>1 DEF IInv, VisitsOK
  <2>2. CASE Rest \/ Operation
    BY <2>1, <2>2, RestLeaves, OperationLeaves
  <2>3. CASE OnBeforeNavigate \/ OnCommitted \/ \E r \in Requests : OnStackAvailable(r)
    BY <2>3 DEF OnBeforeNavigate, OnCommitted, OnStackAvailable
  <2>4. CASE \E r \in Requests, n \in {1, 2} : HttpNext(r, n)
    BY <1>1, <2>4, HttpEvents DEF HttpNext, IInv
  <2>5. CASE \E t \in tasks : Continue(t)
    BY <1>1, <2>1, <2>5, Continued DEF Reports, IInv
  <2>6. CASE UNCHANGED vars
    BY <2>6 DEF vars, log
  <2>7. QED  BY <1>1, Cases, <2>2, <2>3, <2>4, <2>5, <2>6
<1>2. QED  BY <1>1, Invariant, PTL DEF RecordsInOpenVisit, Spec

-----------------------------------------------------------------------------
(* The script in a page (PageScript), which has a specification of its own.*)

(* A set of numbers that is not empty has a least one.                     *)
LEMMA LeastExists ==
  ASSUME NEW T, T \subseteq Nat, T # {}
  PROVE  \E n \in T : \A m \in T : n <= m
<1>. DEFINE I == {1 .. n : n \in T}
<1>1. IsWellFoundedOn(StrictSubsetOrdering(Nat), FiniteSubsetsOf(Nat))
  BY FS_StrictSubsetOrderingWellFounded
<1>2. \A n \in T : 1 .. n \in FiniteSubsetsOf(Nat)
  BY FS_Interval DEF FiniteSubsetsOf
<1>3. I \subseteq FiniteSubsetsOf(Nat) /\ I # {}
  BY <1>2
<1>4. PICK s \in I : \A t \in I : <<t, s>> \notin StrictSubsetOrdering(Nat)
  <2>. HIDE DEF I
  <2>. QED BY <1>1, <1>3, WFMin
<1>5. PICK n \in T : s = 1 .. n
  BY <1>4
<1>6. ASSUME NEW m \in T, m < n PROVE FALSE
  <2>1. 1 .. m \in I
    OBVIOUS
  <2>2. <<1 .. m, 1 .. n>> \notin StrictSubsetOrdering(Nat)
    BY <1>4, <1>5, <2>1
  <2>3. 1 .. m \subseteq 1 .. n /\ n \in 1 .. n /\ n \notin 1 .. m
    BY <1>6
  <2>4. 1 .. m \subseteq Nat /\ 1 .. n \subseteq Nat /\ 1 .. m # 1 .. n
    BY <2>3
  <2>. QED BY <2>2, <2>3, <2>4 DEF StrictSubsetOrdering
<1>. QED BY <1>6

(* What holds of 0, and of the next number with each, holds up to n.       *)
LEMMA Upwards ==
  ASSUME NEW n \in Nat, NEW G, 0 \in G, \A k \in 1 .. n : k - 1 \in G => k \in G
  PROVE  0 .. n \subseteq G
<1>. DEFINE T == {k \in 0 .. n : k \notin G}
<1>1. SUFFICES ASSUME T # {} PROVE FALSE
  OBVIOUS
<1>2. T \subseteq Nat
  OBVIOUS
<1>3. PICK k \in T : \A m \in T : k <= m
  <2>. HIDE DEF T
  <2>. QED BY <1>1, <1>2, LeastExists
<1>4. k \in 1 .. n /\ k - 1 \notin T /\ k - 1 \in 0 .. n
  BY <1>3
<1>. QED BY <1>3, <1>4

(* A value can be carried on n times.                                      *)
Steps(n, V) == [1 .. n -> [V -> V]]
CanBeCarriedOn(n, V, base, step) ==
    \E g \in [0 .. n -> V] : g[0] = base /\ \A i \in 1 .. n : g[i] = step[i][g[i - 1]]

LEMMA Iteration ==
  ASSUME NEW n \in Nat, NEW V, NEW base \in V, NEW step \in Steps(n, V)
  PROVE  CanBeCarriedOn(n, V, base, step)
<1>. DEFINE Goes(g, k) == g[0] = base /\ \A i \in 1 .. k : g[i] = step[i][g[i - 1]]
            G == {k \in 0 .. n : \E g \in [0 .. k -> V] : Goes(g, k)}
<1>1. 0 \in G
  <2>. DEFINE g == [i \in 0 .. 0 |-> base]
  <2>1. g \in [0 .. 0 -> V] /\ g[0] = base
    OBVIOUS
  <2>. HIDE DEF g
  <2>2. Goes(g, 0)
    BY <2>1
  <2>. HIDE DEF Goes
  <2>3. \E x \in [0 .. 0 -> V] : Goes(x, 0)
    BY <2>1, <2>2
  <2>. QED BY <2>3
<1>2. ASSUME NEW k \in 1 .. n, k - 1 \in G PROVE k \in G
  <2>1. PICK g \in [0 .. k - 1 -> V] : Goes(g, k - 1)
    BY <1>2
  <2>. DEFINE h == [i \in 0 .. k |-> IF i = k THEN step[k][g[k - 1]] ELSE g[i]]
  <2>2. g[k - 1] \in V /\ step[k] \in [V -> V]
    BY <1>2 DEF Steps
  <2>3. h \in [0 .. k -> V]
    BY <2>2
  <2>4. \A i \in 0 .. k - 1 : h[i] = g[i]
    OBVIOUS
  <2>5. h[k] = step[k][h[k - 1]]
    OBVIOUS
  <2>. HIDE DEF h
  <2>6. \A i \in 1 .. k - 1 : h[i] = step[i][h[i - 1]]
    BY <2>1, <2>4
  <2>7. h[0] = base
    BY <2>1, <2>4
  <2>8. \A i \in 1 .. k : i = k \/ i \in 1 .. k - 1
    OBVIOUS
  <2>9. Goes(h, k)
    BY <2>5, <2>6, <2>7, <2>8
  <2>. HIDE DEF Goes
  <2>10. \E x \in [0 .. k -> V] : Goes(x, k)
    BY <2>3, <2>9
  <2>. QED BY <2>10
<1>3. 0 .. n \subseteq G
  <2>. HIDE DEF G
  <2>. QED BY <1>1, <1>2, Upwards
<1>4. n \in G
  BY <1>3
<1>. QED BY <1>4 DEF CanBeCarriedOn

LEMMA JoinedElements ==
  ASSUME NEW S, NEW a \in Seq(S), NEW b \in Seq(S)
  PROVE  a \o b \in Seq(S) /\ ToSet(a \o b) = ToSet(a) \cup ToSet(b)
<1>1. ToSet(a \o b) \subseteq ToSet(a) \cup ToSet(b)
  BY DEF ToSet
<1>2. ASSUME NEW i \in DOMAIN a PROVE a[i] \in ToSet(a \o b)
  <2>1. i \in DOMAIN (a \o b) /\ (a \o b)[i] = a[i]
    OBVIOUS
  <2>. QED BY <2>1 DEF ToSet
<1>3. ASSUME NEW i \in DOMAIN b PROVE b[i] \in ToSet(a \o b)
  <2>1. Len(a) + i \in DOMAIN (a \o b) /\ (a \o b)[Len(a) + i] = b[i]
    OBVIOUS
  <2>. QED BY <2>1 DEF ToSet
<1>4. ToSet(a) \cup ToSet(b) \subseteq ToSet(a \o b)
  <2>. HIDE DEF ToSet
  <2>1. ToSet(a) = {a[i] : i \in DOMAIN a} /\ ToSet(b) = {b[i] : i \in DOMAIN b}
    BY DEF ToSet
  <2>. QED BY <1>2, <1>3, <2>1
<1>5. a \o b \in Seq(S)
  OBVIOUS
<1>. QED BY <1>1, <1>4, <1>5

(* FlattenSeq makes a sequence of the elements of all the sequences.       *)
LEMMA Flattened ==
  ASSUME NEW S, NEW s \in Seq(Seq(S))
  PROVE  /\ FlattenSeq(s) \in Seq(S)
         /\ ToSet(FlattenSeq(s)) = UNION {ToSet(s[i]) : i \in DOMAIN s}
<1>. DEFINE n == Len(s)
            Flat(g) == [i \in 1 .. n |-> IF i = 1 THEN s[i] ELSE g[i - 1] \o s[i]]
            f == CHOOSE g : g = Flat(g)
<1>1. CASE n = 0
  <2>1. FlattenSeq(s) = s /\ s = <<>>
    BY <1>1 DEF FlattenSeq
  <2>2. ToSet(s) = {} /\ UNION {ToSet(s[i]) : i \in DOMAIN s} = {}
    BY <2>1 DEF ToSet
  <2>. QED BY <2>1, <2>2
<1>2. CASE n # 0
  <2>0. n \in Nat \ {0} /\ n - 1 \in Nat /\ \A i \in 1 .. n : s[i] \in Seq(S)
    BY <1>2
  <2>1. \E g : g = Flat(g)
    <3>. DEFINE step == [i \in 1 .. n - 1 |-> [x \in Seq(S) |-> x \o s[i + 1]]]
    <3>1. s[1] \in Seq(S) /\ step \in [1 .. n - 1 -> [Seq(S) -> Seq(S)]]
      <4>1. ASSUME NEW i \in 1 .. n - 1, NEW x \in Seq(S) PROVE x \o s[i + 1] \in Seq(S)
        <5>1. s[i + 1] \in Seq(S)
          BY <2>0
        <5>. QED BY <5>1
      <4>. QED BY <2>0, <4>1
    <3>2. \A i \in 1 .. n - 1, x \in Seq(S) : step[i][x] = x \o s[i + 1]
      OBVIOUS
    <3>. DEFINE m == n - 1
                V == Seq(S)
                first == s[1]
    <3>3. m \in Nat /\ first \in V /\ step \in Steps(m, V)
      BY <2>0, <3>1 DEF Steps
    <3>. HIDE DEF step, n, m, V, first
    <3>. CanBeCarriedOn(m, V, first, step)
      BY <3>3, Iteration
    <3>4. PICK g \in [0 .. m -> V] : g[0] = first /\ \A i \in 1 .. m : g[i] = step[i][g[i - 1]]
      BY DEF CanBeCarriedOn
    <3>. DEFINE h == [i \in 1 .. n |-> g[i - 1]]
    <3>5. g[0] = s[1]
      BY <3>4 DEF first
    <3>6. ASSUME NEW i \in 1 .. n - 1 PROVE g[i] = g[i - 1] \o s[i + 1]
      <4>1. i \in 1 .. m /\ i - 1 \in 0 .. m
        BY <2>0 DEF m
      <4>2. g[i] = step[i][g[i - 1]] /\ g[i - 1] \in Seq(S)
        BY <3>4, <4>1 DEF V
      <4>. QED BY <3>2, <4>2
    <3>7. ASSUME NEW i \in 1 .. n PROVE h[i] = IF i = 1 THEN s[i] ELSE h[i - 1] \o s[i]
      <4>1. CASE i = 1
        BY <2>0, <3>5, <4>1
      <4>2. CASE i # 1
        <5>1. i - 1 \in 1 .. n - 1 /\ i - 1 \in 1 .. n /\ (i - 1) + 1 = i
          BY <2>0, <4>2
        <5>2. h[i] = g[i - 1] /\ h[i - 1] = g[(i - 1) - 1]
          BY <5>1
        <5>. QED BY <3>6, <4>2, <5>1, <5>2
      <4>. QED BY <4>1, <4>2
    <3>8. h = Flat(h)
      BY <3>7
    <3>. QED BY <3>8
  <2>2. f = Flat(f)
    BY <2>1
  <2>3. FlattenSeq(s) = f[n]
    BY <1>2 DEF FlattenSeq
  <2>. HIDE DEF f
  <2>4. f[1] = s[1] /\ \A i \in 2 .. n : f[i] = f[i - 1] \o s[i]
    <3>1. \A i \in 1 .. n : f[i] = IF i = 1 THEN s[i] ELSE f[i - 1] \o s[i]
      BY <2>2
    <3>. HIDE DEF n
    <3>2. 1 \in 1 .. n /\ \A i \in 2 .. n : i \in 1 .. n /\ i # 1
      BY <2>0
    <3>. QED BY <3>1, <3>2
  <2>. HIDE DEF n
  <2>. DEFINE All(k) == UNION {ToSet(s[i]) : i \in 1 .. k}
              G == {k \in 0 .. n : k = 0 \/ (f[k] \in Seq(S) /\ ToSet(f[k]) = All(k))}
  <2>5. 0 \in G
    BY <2>0
  <2>6. ASSUME NEW k \in 1 .. n, k - 1 \in G PROVE k \in G
    <3>1. CASE k = 1
      <4>1. All(1) = ToSet(s[1])
        OBVIOUS
      <4>. QED BY <2>0, <2>4, <3>1, <4>1
    <3>2. CASE k # 1
      <4>1. k \in 2 .. n /\ s[k] \in Seq(S)
        BY <2>0, <3>2
      <4>2. f[k - 1] \in Seq(S) /\ ToSet(f[k - 1]) = All(k - 1)
        BY <2>6, <3>2
      <4>3. f[k] \in Seq(S) /\ ToSet(f[k]) = All(k - 1) \cup ToSet(s[k])
        <5>. DEFINE a == f[k - 1]
                    b == s[k]
        <5>1. f[k] = a \o b /\ a \in Seq(S) /\ b \in Seq(S) /\ ToSet(a) = All(k - 1)
          BY <2>4, <4>1, <4>2
        <5>. HIDE DEF a, All
        <5>2. ToSet(s[k]) = ToSet(b)
          OBVIOUS
        <5>. HIDE DEF b
        <5>3. a \o b \in Seq(S) /\ ToSet(a \o b) = ToSet(a) \cup ToSet(b)
          BY <5>1, JoinedElements
        <5>. QED BY <5>1, <5>2, <5>3
      <4>4. 1 .. k = (1 .. k - 1) \cup {k}
        OBVIOUS
      <4>5. All(k) = All(k - 1) \cup ToSet(s[k])
        BY <4>4
      <4>. QED BY <4>3, <4>5
    <3>. QED BY <3>1, <3>2
  <2>7. 0 .. n \subseteq G
    <3>. HIDE DEF G
    <3>. QED BY <2>0, <2>5, <2>6, Upwards
  <2>8. f[n] \in Seq(S) /\ ToSet(f[n]) = All(n)
    <3>. HIDE DEF G, All
    <3>1. n \in G /\ n # 0
      BY <2>0, <2>7
    <3>. QED BY <3>1 DEF G
  <2>9. DOMAIN s = 1 .. n
    BY DEF n
  <2>. QED BY <2>3, <2>8, <2>9
<1>. QED BY <1>1, <1>2

(* A value for each place of a sequence makes a sequence.                  *)
LEMMA Tabulated ==
  ASSUME NEW S, NEW s \in Seq(S), NEW U, NEW t \in [DOMAIN s -> U]
  PROVE  t \in Seq(U)
<1>1. t \in [1 .. Len(s) -> U] /\ Len(s) \in Nat
  OBVIOUS
<1>. QED BY <1>1

(* Only picks the elements at the places, and no other.                    *)
LEMMA Picked ==
  ASSUME NEW S, NEW s \in Seq(S), NEW places
  PROVE  /\ Only(s, places) \in Seq(S)
         /\ ToSet(Only(s, places)) = {s[i] : i \in DOMAIN s \cap places}
<1>. DEFINE t == [i \in DOMAIN s |-> IF i \in places THEN <<s[i]>> ELSE <<>>]
<1>1. \A i \in DOMAIN s : s[i] \in S /\ t[i] \in Seq(S)
  OBVIOUS
<1>2. t \in Seq(Seq(S)) /\ DOMAIN t = DOMAIN s
  <2>1. t \in [DOMAIN s -> Seq(S)]
    BY <1>1
  <2>. HIDE DEF t
  <2>2. t \in Seq(Seq(S))
    BY <2>1, Tabulated
  <2>. QED BY <2>1, <2>2
<1>3. \A i \in DOMAIN s : ToSet(t[i]) = IF i \in places THEN {s[i]} ELSE {}
  <2>1. \A x \in S : ToSet(<<x>>) = {x}
    BY DEF ToSet
  <2>2. ToSet(<<>>) = {}
    BY DEF ToSet
  <2>. QED BY <1>1, <2>1, <2>2
<1>4. Only(s, places) = FlattenSeq(t)
  BY DEF Only
<1>. HIDE DEF t
<1>5. /\ FlattenSeq(t) \in Seq(S)
      /\ ToSet(FlattenSeq(t)) = UNION {ToSet(t[i]) : i \in DOMAIN t}
  BY <1>2, Flattened
<1>6. UNION {ToSet(t[i]) : i \in DOMAIN t} = {s[i] : i \in DOMAIN s \cap places}
  BY <1>2, <1>3
<1>. QED BY <1>4, <1>5, <1>6

(* SetToSeq lists every element of a finite set, and no other.             *)
LEMMA SetToSeqLists ==
  ASSUME NEW S, IsFiniteSet(S)
  PROVE  SetToSeq(S) \in Seq(S) /\ ToSet(SetToSeq(S)) = S
<1>. DEFINE D == 1 .. Cardinality(S)
            P(f) == \A a, b \in DOMAIN f : f[a] = f[b] => a = b
<1>1. Cardinality(S) \in Nat /\ ExistsBijection(D, S)
  BY FS_CardinalityType
<1>2. \E f \in [D -> S] : P(f)
  BY <1>1 DEF ExistsBijection, Bijection, Injection, Surjection, IsInjective
<1>3. SetToSeq(S) = CHOOSE f \in [D -> S] : P(f)
  BY DEF SetToSeq, IsInjective
<1>4. SetToSeq(S) \in [D -> S] /\ P(SetToSeq(S))
  BY <1>2, <1>3
<1>. DEFINE f == SetToSeq(S)
<1>5. f \in Injection(D, S)
  BY <1>4 DEF Injection, IsInjective
<1>6. f \in Surjection(D, S)
  <2>1. IsFiniteSet(D) /\ Cardinality(D) = Cardinality(S)
    BY <1>1, FS_Interval
  <2>. HIDE DEF D, f
  <2>. QED BY <1>5, <2>1, FS_Injection
<1>7. ToSet(f) = S
  BY <1>4, <1>6 DEF Surjection, ToSet
<1>. QED BY <1>1, <1>4, <1>7

(* Below changes each piece.                                               *)
Moved(name, x) == [x EXCEPT !.path = <<name>> \o @]

AnyPiece(names, logs) ==
    [act : {"read", "replace"}, object : Objects, property : names, path : Seq(names), log : logs]

LEMMA MovedKeeps ==
  ASSUME NEW names, NEW logs, NEW x \in AnyPiece(names, logs), NEW name \in names
  PROVE  /\ Moved(name, x) \in AnyPiece(names, logs)
         /\ Moved(name, x).object = x.object
         /\ Moved(name, x).property = x.property
         /\ Moved(name, x).log = x.log /\ Moved(name, x).act = x.act
<1>1. <<name>> \o x.path \in Seq(names)
  BY DEF AnyPiece
<1>. DEFINE P == Seq(names)
<1>. HIDE DEF P
<1>2. /\ x \in [act : {"read", "replace"}, object : Objects, property : names, path : P, log : logs]
      /\ <<name>> \o x.path \in P
  BY <1>1 DEF AnyPiece, P
<1>3. Moved(name, x) \in
        [act : {"read", "replace"}, object : Objects, property : names, path : P, log : logs]
  BY <1>2 DEF Moved
<1>. QED BY <1>2, <1>3 DEF AnyPiece, Moved, P

LEMMA BelowIs ==
  ASSUME NEW S, NEW s \in Seq(S), NEW name, NEW U, \A x \in S : Moved(name, x) \in U
  PROVE  /\ Below(name, s) \in Seq(U)
         /\ ToSet(Below(name, s)) = {Moved(name, x) : x \in ToSet(s)}
<1>1. \A i \in DOMAIN s : s[i] \in S
  OBVIOUS
<1>2. Below(name, s) = [i \in DOMAIN s |-> Moved(name, s[i])]
  BY DEF Below, Moved
<1>3. Below(name, s) \in [DOMAIN s -> U]
  BY <1>1, <1>2
<1>4. Below(name, s) \in Seq(U)
  BY <1>3, Tabulated
<1>5. ToSet(Below(name, s)) = {Moved(name, s[i]) : i \in DOMAIN s}
  BY <1>2 DEF ToSet
<1>6. {Moved(name, s[i]) : i \in DOMAIN s} = {Moved(name, x) : x \in ToSet(s)}
  BY DEF ToSet
<1>. QED BY <1>4, <1>5, <1>6

-----------------------------------------------------------------------------
(* Full settings as _build_full_settings_object and _merge_settings make   *)
(* them: with a value for every key.                                       *)
FineLog(ls) ==
    /\ DOMAIN ls = DOMAIN DefaultLogSettings /\ ls = [k \in DOMAIN ls |-> ls[k]]
    /\ IsFiniteSet(ls.propertiesToInstrument) /\ IsFiniteSet(ls.nonExisting)
    /\ ls.recursive \in BOOLEAN /\ ls.depth \in Nat

PropertiesOf(ls) == Objects \cup Properties \cup ls.propertiesToInstrument \cup ls.nonExisting

(* What may be read and replaced under these settings.                     *)
CanBeDone(x) == x.act = "replace" => Replaces(x.object, x.property, x.log)
PiecesOf(ls) ==
    {x \in AnyPiece(PropertiesOf(ls), {LogAt(ls, d) : d \in 0 .. ls.depth}) : CanBeDone(x)}

(* The names of the properties of an object, and what is inside it.        *)
LEMMA NamesKnown ==
  ASSUME NEW o \in Objects
  PROVE  /\ PropertyNames[o] \in Seq(Properties)
         /\ \A p \in ToSet(PropertyNames[o]) : p \in DOMAIN Kinds[o]
         /\ \A p : IsObject(o, p) => Target[p] \in Objects /\ p \in Properties
<1>1. Objects = {"api", "part"}
  BY DEF Objects, Kinds
<1>2. DOMAIN Kinds["api"] = {"value", "method", "fixed", "pinned", "constant", "part", "missing"}
  BY DEF Kinds
<1>3. DOMAIN Kinds["part"] = {"size", "parent"}
  BY DEF Kinds
<1>4. DOMAIN Kinds["api"] \subseteq Properties /\ DOMAIN Kinds["part"] \subseteq Properties
  BY <1>1 DEF Properties
<1>5. /\ PropertyNames["api"] \in Seq(DOMAIN Kinds["api"])
      /\ PropertyNames["part"] \in Seq(DOMAIN Kinds["part"])
  BY <1>2, <1>3 DEF PropertyNames
<1>6. PropertyNames[o] \in Seq(DOMAIN Kinds[o])
  BY <1>1, <1>5
<1>7. PropertyNames[o] \in Seq(Properties) /\ \A p \in ToSet(PropertyNames[o]) : p \in DOMAIN Kinds[o]
  BY <1>1, <1>4, <1>6 DEF ToSet
<1>8. ASSUME NEW p, IsObject(o, p) PROVE Target[p] \in Objects /\ p \in Properties
  <2>1. p \in DOMAIN Kinds[o] /\ Kinds[o][p] = "object"
    BY <1>8 DEF IsObject, KindOf
  <2>2. p \in {"part", "parent"}
    BY <1>1, <1>2, <1>3, <2>1 DEF Kinds
  <2>. QED BY <1>1, <1>4, <2>1, <2>2 DEF Target
<1>. QED BY <1>7, <1>8

LEMMA LogAtKeeps ==
  ASSUME NEW ls, FineLog(ls), NEW d \in 0 .. ls.depth
  PROVE  /\ LogAt(ls, d).depth = d
         /\ LogAt(ls, d).recursive = ls.recursive
         /\ LogAt(ls, d).excluded = ls.excluded
         /\ LogAt(ls, d).nonExisting = ls.nonExisting
         /\ LogAt(ls, d).propertiesToInstrument =
              IF d = ls.depth THEN ls.propertiesToInstrument ELSE {}
BY DEF LogAt, FineLog, DefaultLogSettings

(* What instrumentObject goes through, before what is excluded is left out.*)
Wanted(o, setting) ==
    IF setting.propertiesToInstrument = {} THEN ToSet(PropertyNames[o])
    ELSE setting.propertiesToInstrument \ None

LEMMA ToInstrumentIs ==
  ASSUME NEW ls, FineLog(ls), NEW d \in 0 .. ls.depth, NEW o \in Objects
  PROVE  /\ ToInstrument(o, LogAt(ls, d)) \in Seq(PropertiesOf(ls))
         /\ LogAt(ls, d).propertiesToInstrument # None =>
              Wanted(o, LogAt(ls, d)) \subseteq ToSet(ToInstrument(o, LogAt(ls, d)))
<1>. DEFINE setting == LogAt(ls, d)
            asked == setting.propertiesToInstrument
<1>1. asked = ls.propertiesToInstrument \/ asked = {}
  BY LogAtKeeps
<1>2. IsFiniteSet(asked) /\ asked \subseteq PropertiesOf(ls)
  BY <1>1, FS_EmptySet DEF FineLog, PropertiesOf
<1>3. ToInstrument(o, setting) =
        CASE asked = None -> <<>> [] asked = {} -> PropertyNames[o] [] OTHER -> SetToSeq(asked)
  BY DEF ToInstrument
<1>4. Wanted(o, setting) = IF asked = {} THEN ToSet(PropertyNames[o]) ELSE asked \ None
  BY DEF Wanted
<1>5. None # {}
  BY DEF None
<1>6. PropertyNames[o] \in Seq(PropertiesOf(ls))
  BY NamesKnown DEF PropertiesOf
<1>. HIDE DEF setting, asked
<1>7. SetToSeq(asked) \in Seq(asked) /\ ToSet(SetToSeq(asked)) = asked
  BY <1>2, SetToSeqLists
<1>8. SetToSeq(asked) \in Seq(PropertiesOf(ls))
  BY <1>2, <1>7
<1>9. CASE asked = None
  BY <1>3, <1>5, <1>9 DEF setting, asked
<1>10. CASE asked = {}
  BY <1>3, <1>4, <1>5, <1>6, <1>10 DEF setting, asked
<1>11. CASE asked # {} /\ asked # None
  BY <1>3, <1>4, <1>7, <1>8, <1>11 DEF setting, asked
<1>. QED BY <1>9, <1>10, <1>11

LEMMA PieceMoves ==
  ASSUME NEW ls, NEW x \in PiecesOf(ls), NEW name \in PropertiesOf(ls)
  PROVE  /\ Moved(name, x) \in PiecesOf(ls)
         /\ Moved(name, x).object = x.object /\ Moved(name, x).property = x.property
         /\ Moved(name, x).act = x.act
<1>. DEFINE L == {LogAt(ls, e) : e \in 0 .. ls.depth}
<1>1. x \in AnyPiece(PropertiesOf(ls), L) /\ CanBeDone(x)
  BY DEF PiecesOf
<1>2. PiecesOf(ls) = {y \in AnyPiece(PropertiesOf(ls), L) : CanBeDone(y)}
  BY DEF PiecesOf
<1>. HIDE DEF L
<1>3. /\ Moved(name, x) \in AnyPiece(PropertiesOf(ls), L)
      /\ Moved(name, x).object = x.object /\ Moved(name, x).property = x.property
      /\ Moved(name, x).log = x.log /\ Moved(name, x).act = x.act
  BY <1>1, MovedKeeps
<1>. QED BY <1>1, <1>2, <1>3 DEF CanBeDone

Has(s, o, p) == \E x \in ToSet(s) : x.act = "replace" /\ x.object = o /\ x.property = p

LEMMA ReplaceIs ==
  ASSUME NEW ls, FineLog(ls), NEW d \in 0 .. ls.depth, NEW o \in Objects,
         NEW p \in PropertiesOf(ls)
  PROVE  /\ Step("read", o, p, LogAt(ls, d)) \in Seq(PiecesOf(ls))
         /\ Replace(o, p, LogAt(ls, d)) \in Seq(PiecesOf(ls))
         /\ Replaces(o, p, LogAt(ls, d)) => Has(Replace(o, p, LogAt(ls, d)), o, p)
<1>. DEFINE piece ==
              [act |-> "replace", object |-> o, property |-> p, path |-> <<>>, log |-> LogAt(ls, d)]
            look == [act |-> "read", object |-> o, property |-> p, path |-> <<>>, log |-> LogAt(ls, d)]
<1>0. Step("read", o, p, LogAt(ls, d)) \in Seq(PiecesOf(ls))
  <2>1. look \in PiecesOf(ls)
    BY DEF PiecesOf, AnyPiece, CanBeDone
  <2>2. Step("read", o, p, LogAt(ls, d)) = <<look>>
    BY DEF Step
  <2>. HIDE DEF look
  <2>. QED BY <2>1, <2>2
<1>1. CASE Replaces(o, p, LogAt(ls, d))
  <2>1. /\ piece.act = "replace" /\ piece.object = o /\ piece.property = p
        /\ piece \in PiecesOf(ls)
    BY <1>1 DEF PiecesOf, AnyPiece, CanBeDone
  <2>2. Replace(o, p, LogAt(ls, d)) = <<piece>>
    BY <1>1 DEF Replace, Step
  <2>. HIDE DEF piece
  <2>3. piece \in ToSet(<<piece>>) /\ <<piece>> \in Seq(PiecesOf(ls))
    BY <2>1 DEF ToSet
  <2>. QED BY <1>0, <2>1, <2>2, <2>3 DEF Has
<1>2. CASE ~Replaces(o, p, LogAt(ls, d))
  BY <1>0, <1>2 DEF Replace
<1>. QED BY <1>1, <1>2

LEMMA IncludedIs ==
  ASSUME NEW S, NEW names \in Seq(S), NEW setting
  PROVE  /\ Included(names, setting) \in Seq(S)
         /\ ToSet(Included(names, setting)) = ToSet(names) \ setting.excluded
<1>. DEFINE places == {i \in DOMAIN names : names[i] \notin setting.excluded}
<1>1. Included(names, setting) = Only(names, places)
  BY DEF Included
<1>2. {names[i] : i \in DOMAIN names \cap places} = ToSet(names) \ setting.excluded
  BY DEF ToSet
<1>. HIDE DEF places
<1>3. Only(names, places) \in Seq(S) /\ ToSet(Only(names, places)) = {names[i] : i \in DOMAIN names \cap places}
  BY Picked
<1>. QED BY <1>1, <1>2, <1>3

(* What instrumentObject replaces in an object are pieces of its settings; *)
(* every property it goes through is among them that can be replaced, and  *)
(* so is all that was replaced inside it.                                  *)
LEMMA InObjectIs ==
  ASSUME NEW ls, FineLog(ls), NEW d \in 0 .. ls.depth, NEW o \in Objects, NEW inside,
         d = 0 \/ inside \in [Objects -> Seq(PiecesOf(ls))]
  PROVE  LET setting == LogAt(ls, d)
             all == InObject(o, setting, inside)
         IN /\ all \in Seq(PiecesOf(ls))
            /\ setting.propertiesToInstrument # None =>
                 \A p \in Wanted(o, setting) \ setting.excluded :
                   /\ Replaces(o, p, setting) => Has(all, o, p)
                   /\ setting.recursive /\ d > 0 /\ IsObject(o, p) =>
                        \A sub, q : Has(inside[Target[p]], sub, q) => Has(all, sub, q)
<1>. DEFINE setting == LogAt(ls, d)
            S == PiecesOf(ls)
            names == Included(ToInstrument(o, setting), setting)
            expected == Included(SetToSeq(setting.nonExisting), setting)
            Read(p) == Step("read", o, p, setting)
            Into(p) == IF IsObject(o, p) THEN Read(p) \o Below(p, inside[Target[p]]) ELSE <<>>
            Inside(p) == IF setting.recursive /\ setting.depth > 0 THEN Read(p) \o Into(p) ELSE <<>>
            f == [i \in DOMAIN names |-> Inside(names[i]) \o Replace(o, names[i], setting)]
            g == [i \in DOMAIN expected |-> Replace(o, expected[i], setting)]
            all == InObject(o, setting, inside)
<1>1. all = FlattenSeq(f) \o FlattenSeq(g)
  BY DEF InObject
<1>2. setting.depth = d
  BY LogAtKeeps
<1>3. names \in Seq(PropertiesOf(ls)) /\ ToSet(names) = ToSet(ToInstrument(o, setting)) \ setting.excluded
  <2>. DEFINE t == ToInstrument(o, setting)
  <2>1. t \in Seq(PropertiesOf(ls))
    BY ToInstrumentIs
  <2>. HIDE DEF t, setting
  <2>2. Included(t, setting) \in Seq(PropertiesOf(ls)) /\ ToSet(Included(t, setting)) = ToSet(t) \ setting.excluded
    BY <2>1, IncludedIs
  <2>. QED BY <2>2 DEF t
<1>4. expected \in Seq(PropertiesOf(ls))
  <2>1. IsFiniteSet(setting.nonExisting) /\ setting.nonExisting \subseteq PropertiesOf(ls)
    BY LogAtKeeps DEF FineLog, PropertiesOf
  <2>2. SetToSeq(setting.nonExisting) \in Seq(setting.nonExisting)
    BY <2>1, SetToSeqLists
  <2>3. SetToSeq(setting.nonExisting) \in Seq(PropertiesOf(ls))
    BY <2>1, <2>2
  <2>. QED BY <2>3, IncludedIs
<1>5. ASSUME NEW p \in PropertiesOf(ls), setting.recursive, d > 0, IsObject(o, p)
      PROVE  /\ Inside(p) \in Seq(S)
             /\ \A sub, q : Has(inside[Target[p]], sub, q) => Has(Inside(p), sub, q)
  <2>. DEFINE s == inside[Target[p]]
              read == Read(p)
              below == Below(p, s)
  <2>1. s \in Seq(S)
    BY <1>5, NamesKnown
  <2>2. Inside(p) = read \o (read \o below)
    BY <1>2, <1>5
  <2>3. \A x \in S : /\ Moved(p, x) \in S
                     /\ Moved(p, x).object = x.object /\ Moved(p, x).property = x.property
                     /\ Moved(p, x).act = x.act
    BY PieceMoves
  <2>4. read \in Seq(S)
    BY ReplaceIs
  <2>. HIDE DEF s, S, Inside, read
  <2>5. below \in Seq(S) /\ ToSet(below) = {Moved(p, x) : x \in ToSet(s)}
    BY <2>1, <2>3, BelowIs
  <2>6. \A x \in ToSet(s) : x \in S
    BY <2>1 DEF ToSet
  <2>7. \A sub, q : Has(s, sub, q) => Has(below, sub, q)
    BY <2>3, <2>5, <2>6 DEF Has
  <2>. HIDE DEF below
  <2>8. /\ read \o below \in Seq(S) /\ read \o (read \o below) \in Seq(S)
        /\ ToSet(below) \subseteq ToSet(read \o (read \o below))
    <3>1. read \o below \in Seq(S) /\ ToSet(below) \subseteq ToSet(read \o below)
      BY <2>4, <2>5, JoinedElements
    <3>2. PICK t : t = read \o below
      OBVIOUS
    <3>3. t \in Seq(S)
      BY <3>1, <3>2
    <3>4. read \o t \in Seq(S) /\ ToSet(t) \subseteq ToSet(read \o t)
      BY <2>4, <3>3, JoinedElements
    <3>. QED BY <3>1, <3>2, <3>4
  <2>9. PICK both : both = read \o (read \o below)
    OBVIOUS
  <2>10. /\ Inside(p) = both /\ both \in Seq(S)
         /\ \A sub, q : Has(below, sub, q) => Has(both, sub, q)
    <3>1. ToSet(below) \subseteq ToSet(both)
      BY <2>8, <2>9
    <3>2. \A sub, q : Has(below, sub, q) => Has(both, sub, q)
      BY <3>1 DEF Has
    <3>. QED BY <2>2, <2>8, <2>9, <3>2
  <2>. QED BY <2>7, <2>10 DEF s
<1>6. ASSUME NEW p \in PropertiesOf(ls)
      PROVE  Inside(p) \in Seq(S) /\ Replace(o, p, setting) \in Seq(S)
  <2>1. Replace(o, p, setting) \in Seq(S) /\ Read(p) \in Seq(S)
    BY ReplaceIs
  <2>2. CASE setting.recursive /\ d > 0 /\ IsObject(o, p)
    BY <1>5, <2>1, <2>2
  <2>3. CASE setting.recursive /\ d > 0 /\ ~IsObject(o, p)
    <3>1. Inside(p) = Read(p) \o <<>>
      BY <1>2, <2>3
    <3>. HIDE DEF Inside, S, Read
    <3>. QED BY <2>1, <3>1
  <2>4. CASE ~(setting.recursive /\ d > 0)
    <3>1. Inside(p) = <<>>
      BY <1>2, <2>4
    <3>. HIDE DEF Inside, S
    <3>. QED BY <2>1, <3>1
  <2>. QED BY <2>2, <2>3, <2>4
<1>. HIDE DEF S, Inside, names, expected
<1>7. f \in Seq(Seq(S)) /\ DOMAIN f = DOMAIN names
  <2>1. \A i \in DOMAIN names : names[i] \in PropertiesOf(ls)
    BY <1>3
  <2>2. \A i \in DOMAIN names : Inside(names[i]) \o Replace(o, names[i], setting) \in Seq(S)
    BY <1>6, <2>1
  <2>3. f \in [DOMAIN names -> Seq(S)]
    BY <2>2
  <2>. HIDE DEF f
  <2>. QED BY <1>3, <2>3, Tabulated
<1>8. g \in Seq(Seq(S))
  <2>1. \A i \in DOMAIN expected : expected[i] \in PropertiesOf(ls)
    BY <1>4
  <2>2. g \in [DOMAIN expected -> Seq(S)]
    BY <1>6, <2>1
  <2>. HIDE DEF g
  <2>. QED BY <1>4, <2>2, Tabulated
<1>9. ASSUME NEW p \in PropertiesOf(ls), NEW i \in DOMAIN names, names[i] = p
      PROVE  ToSet(f[i]) = ToSet(Inside(p)) \cup ToSet(Replace(o, p, setting))
  BY <1>6, <1>9, JoinedElements
<1>. HIDE DEF f, g
<1>10. /\ FlattenSeq(f) \in Seq(S) /\ FlattenSeq(g) \in Seq(S)
       /\ ToSet(FlattenSeq(f)) = UNION {ToSet(f[i]) : i \in DOMAIN f}
  BY <1>7, <1>8, Flattened
<1>11. all \in Seq(S) /\ ToSet(FlattenSeq(f)) \subseteq ToSet(all)
  BY <1>1, <1>10, JoinedElements
<1>. HIDE DEF all
<1>12. ASSUME setting.propertiesToInstrument # None, NEW p \in Wanted(o, setting) \ setting.excluded
       PROVE  /\ Replaces(o, p, setting) => Has(all, o, p)
              /\ setting.recursive /\ d > 0 /\ IsObject(o, p) =>
                   \A sub, q : Has(inside[Target[p]], sub, q) => Has(all, sub, q)
  <2>1. p \in ToSet(names)
    BY <1>3, <1>12, ToInstrumentIs
  <2>2. PICK i \in DOMAIN names : names[i] = p
    BY <2>1 DEF ToSet
  <2>3. p \in PropertiesOf(ls)
    BY <1>3, <2>2
  <2>4. ToSet(f[i]) \subseteq ToSet(all)
    BY <1>7, <1>10, <1>11, <2>2
  <2>5. ToSet(Inside(p)) \subseteq ToSet(all) /\ ToSet(Replace(o, p, setting)) \subseteq ToSet(all)
    BY <1>9, <2>2, <2>3, <2>4
  <2>6. Replaces(o, p, setting) => Has(all, o, p)
    BY <2>3, <2>5, ReplaceIs DEF Has
  <2>7. ASSUME setting.recursive, d > 0, IsObject(o, p), NEW sub, NEW q, Has(inside[Target[p]], sub, q)
        PROVE  Has(all, sub, q)
    <3>. HIDE DEF setting
    <3>1. Has(Inside(p), sub, q)
      BY <1>5, <2>3, <2>7
    <3>. QED BY <2>5, <3>1 DEF Has
  <2>. QED BY <2>6, <2>7
<1>. QED BY <1>11, <1>12 DEF all, S

(* The recursion of instrumentObject, by depth.                            *)
Level(ls, d, inside) == [o \in Objects |-> InObject(o, LogAt(ls, d), inside)]
Visited(ls, v) ==
    [d \in 0 .. ls.depth |->
       [o \in Objects |-> InObject(o, LogAt(ls, d), IF d = 0 THEN <<>> ELSE v[d - 1])]]
Visit(ls) == CHOOSE v : v = Visited(ls, v)

LEMMA VisitGoes ==
  ASSUME NEW ls, FineLog(ls)
  PROVE  /\ Visit(ls) \in [0 .. ls.depth -> [Objects -> Seq(PiecesOf(ls))]]
         /\ \A d \in 0 .. ls.depth, o \in Objects :
              Visit(ls)[d][o] = InObject(o, LogAt(ls, d), IF d = 0 THEN <<>> ELSE Visit(ls)[d - 1])
<1>. DEFINE n == ls.depth
            V == [Objects -> Seq(PiecesOf(ls))]
            step == [d \in 1 .. n |-> [inside \in V |-> Level(ls, d, inside)]]
            base == Level(ls, 0, <<>>)
<1>1. n \in Nat
  BY DEF FineLog
<1>2. ASSUME NEW d \in 0 .. n, NEW inside, d = 0 \/ inside \in V PROVE Level(ls, d, inside) \in V
  <2>1. \A o \in Objects : InObject(o, LogAt(ls, d), inside) \in Seq(PiecesOf(ls))
    BY <1>2, InObjectIs
  <2>. QED BY <2>1 DEF Level
<1>3. base \in V
  BY <1>1, <1>2
<1>4. step \in Steps(n, V)
  <2>1. \A d \in 1 .. n : d \in 0 .. n
    BY <1>1
  <2>2. \A d \in 1 .. n, inside \in V : Level(ls, d, inside) \in V
    BY <1>2, <2>1
  <2>. HIDE DEF n, V
  <2>. QED BY <2>2 DEF Steps
<1>5. \A d \in 1 .. n, inside \in V : step[d][inside] = Level(ls, d, inside)
  OBVIOUS
<1>6. \E v : v = Visited(ls, v)
  <2>. HIDE DEF V, step, base
  <2>1. CanBeCarriedOn(n, V, base, step)
    <3>. HIDE DEF n
    <3>. QED BY <1>1, <1>3, <1>4, Iteration
  <2>2. PICK v \in [0 .. n -> V] : v[0] = base /\ \A d \in 1 .. n : v[d] = step[d][v[d - 1]]
    BY <2>1 DEF CanBeCarriedOn
  <2>3. ASSUME NEW d \in 0 .. n
        PROVE  v[d] = Level(ls, d, IF d = 0 THEN <<>> ELSE v[d - 1])
    <3>1. CASE d = 0
      BY <2>2, <3>1 DEF base
    <3>2. CASE d # 0
      <4>1. d \in 1 .. n /\ d - 1 \in 0 .. n
        BY <1>1, <3>2
      <4>2. v[d] = step[d][v[d - 1]] /\ v[d - 1] \in V
        BY <2>2, <4>1
      <4>. QED BY <1>5, <3>2, <4>1, <4>2
    <3>. QED BY <3>1, <3>2
  <2>4. v = [d \in 0 .. n |-> Level(ls, d, IF d = 0 THEN <<>> ELSE v[d - 1])]
    BY <2>3
  <2>5. v = Visited(ls, v)
    BY <2>4 DEF Level, Visited
  <2>. QED BY <2>5
<1>. DEFINE v == Visit(ls)
<1>7. v = Visited(ls, v)
  BY <1>6 DEF Visit
<1>. HIDE DEF v
<1>8. \A d \in 0 .. n : v[d] = Level(ls, d, IF d = 0 THEN <<>> ELSE v[d - 1])
  BY <1>7 DEF Visited, Level
<1>9. \A d \in 0 .. n : v[d] \in V
  <2>. DEFINE G == {d \in 0 .. n : v[d] \in V}
  <2>1. 0 \in G
    <3>1. v[0] = base
      BY <1>1, <1>8
    <3>. HIDE DEF V, base
    <3>. QED BY <1>1, <1>3, <3>1
  <2>2. ASSUME NEW d \in 1 .. n, d - 1 \in G PROVE d \in G
    <3>1. d \in 0 .. n /\ d # 0 /\ v[d - 1] \in V
      BY <1>1, <2>2
    <3>. HIDE DEF V
    <3>2. v[d] = Level(ls, d, v[d - 1])
      BY <1>8, <3>1
    <3>. QED BY <1>2, <3>1, <3>2
  <2>3. 0 .. n \subseteq G
    <3>. HIDE DEF G, n
    <3>. QED BY <1>1, <2>1, <2>2, Upwards
  <2>. QED BY <2>3
<1>10. v \in [0 .. n -> V]
  <2>1. v = [d \in 0 .. n |-> v[d]]
    BY <1>7 DEF Visited
  <2>. HIDE DEF V, n
  <2>. QED BY <1>9, <2>1
<1>11. \A d \in 0 .. n, o \in Objects :
         v[d][o] = InObject(o, LogAt(ls, d), IF d = 0 THEN <<>> ELSE v[d - 1])
  BY <1>8 DEF Level
<1>. QED BY <1>10, <1>11 DEF v

(* What instrumentObject replaces: all of it can be replaced; all that is  *)
(* wanted and can be replaced is among it, and so is all in the objects    *)
(* inside it where the settings are recursive.                             *)
LEMMA InstrumentObjectIs ==
  ASSUME NEW ls, FineLog(ls), NEW o \in Objects
  PROVE  LET all == InstrumentObject(o, ls)
             wanted == Wanted(o, ls) \ ls.excluded
         IN /\ all \in Seq(PiecesOf(ls))
            /\ ls.propertiesToInstrument # None =>
                 \A p \in wanted :
                   /\ Replaces(o, p, ls) => Has(all, o, p)
                   /\ ls.recursive /\ ls.depth > 0 /\ IsObject(o, p) =>
                        \A q \in ToSet(PropertyNames[Target[p]]) \ ls.excluded :
                          Replaces(Target[p], q, ls) => Has(all, Target[p], q)
<1>. DEFINE n == ls.depth
            v == Visit(ls)
            all == v[n][o]
<1>1. InstrumentObject(o, ls) = all
  BY DEF InstrumentObject, Visit, Visited
<1>2. n \in 0 .. n /\ n \in Nat
  BY DEF FineLog
<1>3. LogAt(ls, n) = ls
  BY DEF LogAt
<1>4. /\ v \in [0 .. n -> [Objects -> Seq(PiecesOf(ls))]]
      /\ \A d \in 0 .. n, x \in Objects :
           v[d][x] = InObject(x, LogAt(ls, d), IF d = 0 THEN <<>> ELSE v[d - 1])
  BY VisitGoes
<1>. HIDE DEF v
<1>5. all \in Seq(PiecesOf(ls))
  BY <1>2, <1>4
<1>. DEFINE inside == IF n = 0 THEN <<>> ELSE v[n - 1]
<1>6. n = 0 \/ inside \in [Objects -> Seq(PiecesOf(ls))]
  BY <1>2, <1>4
<1>7. all = InObject(o, ls, inside)
  BY <1>2, <1>3, <1>4
<1>. HIDE DEF all, inside
<1>8. ASSUME ls.propertiesToInstrument # None
      PROVE  \A p \in Wanted(o, ls) \ ls.excluded :
               /\ Replaces(o, p, ls) => Has(all, o, p)
               /\ ls.recursive /\ n > 0 /\ IsObject(o, p) =>
                    \A sub, q : Has(inside[Target[p]], sub, q) => Has(all, sub, q)
  <2>. DEFINE setting == LogAt(ls, n)
              one == InObject(o, setting, inside)
  <2>1. setting.propertiesToInstrument # None =>
          \A p \in Wanted(o, setting) \ setting.excluded :
            /\ Replaces(o, p, setting) => Has(one, o, p)
            /\ setting.recursive /\ n > 0 /\ IsObject(o, p) =>
                 \A sub, q : Has(inside[Target[p]], sub, q) => Has(one, sub, q)
    BY <1>2, <1>6, InObjectIs
  <2>2. setting = ls /\ one = all
    BY <1>3, <1>7
  <2>. HIDE DEF setting, one
  <2>. QED BY <1>8, <2>1, <2>2
<1>9. ASSUME n > 0, NEW x \in Objects, NEW q \in ToSet(PropertyNames[x]) \ ls.excluded,
             Replaces(x, q, ls)
      PROVE  Has(inside[x], x, q)
  <2>. DEFINE m == n - 1
              setting == LogAt(ls, m)
              deeper == IF m = 0 THEN <<>> ELSE v[m - 1]
              one == InObject(x, setting, deeper)
  <2>1. m \in 0 .. n /\ m # n
    BY <1>2, <1>9
  <2>2. inside[x] = one
    <3>1. inside = v[m]
      BY <1>2, <1>9 DEF inside
    <3>. HIDE DEF m
    <3>2. v[m][x] = InObject(x, LogAt(ls, m), IF m = 0 THEN <<>> ELSE v[m - 1])
      BY <1>4, <2>1
    <3>. QED BY <3>1, <3>2
  <2>3. m = 0 \/ deeper \in [Objects -> Seq(PiecesOf(ls))]
    BY <1>2, <1>4, <2>1
  <2>4. /\ setting.propertiesToInstrument = {} /\ setting.excluded = ls.excluded
        /\ setting.nonExisting = ls.nonExisting
    BY <2>1, LogAtKeeps
  <2>. HIDE DEF m, deeper
  <2>5. setting.propertiesToInstrument # None =>
          \A p \in Wanted(x, setting) \ setting.excluded : Replaces(x, p, setting) => Has(one, x, p)
    BY <2>1, <2>3, InObjectIs
  <2>. HIDE DEF setting, one
  <2>6. Wanted(x, setting) = ToSet(PropertyNames[x])
    BY <2>4 DEF Wanted
  <2>7. Replaces(x, q, setting)
    BY <1>9, <2>4 DEF Replaces
  <2>. QED BY <1>9, <2>2, <2>4, <2>5, <2>6, <2>7 DEF None
<1>10. ASSUME ls.propertiesToInstrument # None, NEW p \in Wanted(o, ls) \ ls.excluded,
              ls.recursive, n > 0, IsObject(o, p),
              NEW q \in ToSet(PropertyNames[Target[p]]) \ ls.excluded, Replaces(Target[p], q, ls)
       PROVE  Has(all, Target[p], q)
  <2>1. Target[p] \in Objects
    BY <1>10, NamesKnown
  <2>2. Has(inside[Target[p]], Target[p], q)
    BY <1>9, <1>10, <2>1
  <2>. QED BY <1>8, <1>10, <2>2
<1>. QED BY <1>1, <1>5, <1>8, <1>10

-----------------------------------------------------------------------------
LEMMA FirstIs ==
  ASSUME NEW T, T \subseteq Nat, T # {}
  PROVE  First(T) \in T
BY LeastExists DEF First

(* The settings of an object that was requested.                           *)
LEMMA MergedIs ==
  ASSUME NEW r \in Orders, Accepted(r), NEW i \in DOMAIN r
  PROVE  LET o == r[i].object
             same == Settings(r, o)
             ls == Merged(r, o).log
             setting == Full(r[i]).log
         IN /\ Merged(r, o).object = o
            /\ First(same) \in same /\ r[First(same)].object = o
            /\ FineLog(ls)
            /\ ls.recursive = setting.recursive /\ ls.depth = setting.depth
            /\ ls.excluded = UNION {Full(r[j]).log.excluded : j \in same}
            /\ \/ ls.propertiesToInstrument = setting.propertiesToInstrument
               \/ /\ ls.propertiesToInstrument = UNION {AskedFor(r[j]) : j \in same}
                  /\ \A j \in same : AskedFor(r[j]) # None
<1>. DEFINE o == r[i].object
            same == Settings(r, o)
            f == First(same)
            Of1(j) == Full(r[j]).log
            ls == Merged(r, o).log
<1>1. r \in Seq(ToSet(r)) /\ \A j \in DOMAIN r : r[j] \in ToSet(r)
  BY OrdersAssumption DEF ToSet
<1>2. same \subseteq DOMAIN r /\ i \in same /\ \A j \in same : r[j].object = o
  BY DEF Settings
<1>3. IsFiniteSet(DOMAIN r) /\ DOMAIN r \subseteq Nat
  <2>1. DOMAIN r = 1 .. Len(r) /\ Len(r) \in Nat
    BY <1>1
  <2>. QED BY <2>1, FS_Interval
<1>4. IsFiniteSet(same) /\ same \subseteq Nat
  BY <1>2, <1>3, FS_Subset
<1>5. f \in same
  BY <1>2, <1>4, FirstIs
<1>6. \A j \in same : /\ DOMAIN Of1(j) = DOMAIN DefaultLogSettings
                      /\ IsFiniteSet(Of1(j).propertiesToInstrument) /\ IsFiniteSet(Of1(j).nonExisting)
                      /\ Of1(j).recursive \in BOOLEAN /\ Of1(j).depth \in Nat
  <2>1. ASSUME NEW j \in same PROVE DOMAIN Of1(j) = DOMAIN DefaultLogSettings
    BY DEF Full
  <2>2. \A j \in same : r[j] \in ToSet(r)
    BY <1>1, <1>2
  <2>. QED BY <2>1, <2>2, OrdersAssumption
<1>7. /\ DOMAIN ls = DOMAIN DefaultLogSettings /\ ls = [k \in DOMAIN ls |-> ls[k]]
      /\ Merged(r, o).object = o
      /\ \A k \in DOMAIN DefaultLogSettings :
           ls[k] = IF k \in Lists /\ Cardinality(same) > 1 THEN UNION {Of1(j)[k] : j \in same}
                   ELSE Of1(f)[k]
  BY DEF Merged, Joined
<1>8. \A j \in same \ {f} : Agree(Full(r[f]), Full(r[j]))
  BY <1>2 DEF Accepted, Mergeable
<1>. DEFINE K == DOMAIN DefaultLogSettings
<1>9. /\ K = {"propertiesToInstrument", "nonExisting", "excluded", "logFunctionGets",
              "preventSets", "recursive", "depth"}
      /\ Lists = {"propertiesToInstrument", "nonExisting", "excluded"}
  BY DEF DefaultLogSettings, Lists
<1>. HIDE DEF K, ls, f, same, o
<1>10. \A j \in same : \A k \in K \ Lists : Of1(j)[k] = Of1(f)[k]
  BY <1>8 DEF Agree, K
<1>11. CASE Cardinality(same) > 1
  <2>1. \A k \in Lists : ls[k] = UNION {Of1(j)[k] : j \in same}
    BY <1>7, <1>9, <1>11 DEF K
  <2>2. \A k \in K \ Lists : ls[k] = Of1(f)[k]
    BY <1>7 DEF K
  <2>3. \E j \in same : j # f
    <3>1. SUFFICES ASSUME same = {f} PROVE FALSE
      BY <1>5
    <3>2. Cardinality({f}) = 1
      BY FS_Singleton
    <3>3. Cardinality(same) = 1
      BY <3>1, <3>2
    <3>. QED BY <1>11, <3>3
  <2>4. \A j \in same, k \in Lists : Of1(j)[k] # None
    BY <1>8, <1>9, <2>3 DEF Agree, K
  <2>5. ASSUME NEW k \in {"propertiesToInstrument", "nonExisting"} PROVE IsFiniteSet(ls[k])
    <3>. DEFINE Q == {Of1(j)[k] : j \in same}
    <3>1. IsFiniteSet(Q)
      <4>. DEFINE g == [j \in same |-> Of1(j)[k]]
      <4>1. g \in [same -> Q] /\ \A q \in Q : \E j \in same : g[j] = q
        OBVIOUS
      <4>. HIDE DEF g, Q
      <4>2. g \in Surjection(same, Q)
        BY <4>1 DEF Surjection
      <4>. QED BY <1>4, <4>2, FS_Surjection
    <3>2. \A q \in Q : IsFiniteSet(q)
      BY <1>6
    <3>3. ls[k] = UNION Q
      BY <1>9, <2>1
    <3>. HIDE DEF Q
    <3>. QED BY <3>1, <3>2, <3>3, FS_UNION
  <2>6. /\ ls.recursive = Of1(f).recursive /\ ls.depth = Of1(f).depth
        /\ Of1(i).recursive = Of1(f).recursive /\ Of1(i).depth = Of1(f).depth
    BY <1>2, <1>9, <1>10, <2>2
  <2>7. FineLog(ls)
    BY <1>5, <1>6, <1>7, <2>5, <2>6 DEF FineLog
  <2>8. /\ ls.excluded = UNION {Of1(j).excluded : j \in same}
        /\ ls.propertiesToInstrument = UNION {AskedFor(r[j]) : j \in same}
        /\ \A j \in same : AskedFor(r[j]) # None
    BY <1>9, <2>1, <2>4 DEF AskedFor
  <2>. QED BY <1>2, <1>5, <1>6, <1>7, <2>6, <2>7, <2>8 DEF o, same, f, ls
<1>12. CASE ~(Cardinality(same) > 1)
  <2>1. same = {i} /\ f = i
    <3>1. Cardinality(same) \in Nat /\ Cardinality(same) # 0
      BY <1>2, <1>4, FS_CardinalityType, FS_EmptySet
    <3>2. Cardinality(same) = 1
      BY <1>12, <3>1
    <3>3. PICK x : same = {x}
      BY <1>4, <3>2, FS_Singleton
    <3>. QED BY <1>2, <1>5, <3>3
  <2>2. \A k \in K : ls[k] = Of1(i)[k]
    BY <1>7, <1>12, <2>1 DEF K
  <2>3. /\ ls.recursive = Of1(i).recursive /\ ls.depth = Of1(i).depth /\ ls.excluded = Of1(i).excluded
        /\ ls.propertiesToInstrument = Of1(i).propertiesToInstrument
        /\ ls.nonExisting = Of1(i).nonExisting
    BY <1>9, <2>2
  <2>4. FineLog(ls)
    BY <1>2, <1>6, <1>7, <2>3 DEF FineLog
  <2>5. ls.excluded = UNION {Of1(j).excluded : j \in same}
    BY <2>1, <2>3
  <2>. QED BY <1>2, <1>5, <1>6, <1>7, <2>3, <2>4, <2>5 DEF o, same, f, ls
<1>. QED BY <1>11, <1>12

(* clean_js_instrumentation_settings yields the settings of each object    *)
(* that is requested, and no other.                                        *)
LEMMA CleanedIs ==
  ASSUME NEW r \in Orders, Accepted(r)
  PROVE  /\ Cleaned(r) \in Seq({Merged(r, r[i].object) : i \in DOMAIN r})
         /\ \A i \in DOMAIN r : \E j \in DOMAIN Cleaned(r) : Cleaned(r)[j] = Merged(r, r[i].object)
<1>. DEFINE N == DOMAIN r
            numbers == [i \in N |-> i]
            places == {First(Settings(r, r[i].object)) : i \in N}
            firsts == Only(numbers, places)
            M == {Merged(r, r[i].object) : i \in N}
            cleaned == [j \in DOMAIN firsts |-> Merged(r, r[firsts[j]].object)]
<1>1. Cleaned(r) = cleaned
  BY DEF Cleaned
<1>2. r \in Seq(ToSet(r)) /\ N = 1 .. Len(r) /\ Len(r) \in Nat
  BY OrdersAssumption
<1>3. numbers \in Seq(N) /\ DOMAIN numbers = N
  <2>1. numbers \in [N -> N]
    OBVIOUS
  <2>. HIDE DEF numbers
  <2>. QED BY <1>2, <2>1, Tabulated
<1>4. \A i \in N : /\ First(Settings(r, r[i].object)) \in N
                   /\ r[First(Settings(r, r[i].object))].object = r[i].object
  <2>1. \A i \in N : Settings(r, r[i].object) \subseteq N
    BY DEF Settings
  <2>. QED BY <2>1, MergedIs
<1>5. ToSet(firsts) = {numbers[i] : i \in N \cap places} /\ firsts \in Seq(N)
  <2>. HIDE DEF numbers, N, places
  <2>. QED BY <1>3, Picked
<1>6. ToSet(firsts) = N \cap places
  BY <1>5
<1>. HIDE DEF firsts, places
<1>7. \A j \in DOMAIN firsts : firsts[j] \in N
  BY <1>5
<1>8. cleaned \in Seq(M)
  <2>1. cleaned \in [DOMAIN firsts -> M]
    BY <1>7
  <2>. HIDE DEF cleaned, M, N
  <2>. QED BY <1>5, <2>1, Tabulated
<1>9. ASSUME NEW i \in N
      PROVE  \E j \in DOMAIN cleaned : cleaned[j] = Merged(r, r[i].object)
  <2>. DEFINE f == First(Settings(r, r[i].object))
  <2>1. f \in places /\ f \in N /\ r[f].object = r[i].object
    BY <1>4 DEF places
  <2>2. PICK j \in DOMAIN firsts : firsts[j] = f
    BY <1>6, <2>1 DEF ToSet
  <2>. HIDE DEF f
  <2>3. cleaned[j] = Merged(r, r[i].object) /\ j \in DOMAIN cleaned
    BY <2>1, <2>2
  <2>. QED BY <2>3
<1>. QED BY <1>1, <1>8, <1>9

(* The settings of an object are reached before any that throw.            *)
Gets(r, o) ==
    LET settings == Cleaned(r) IN
    /\ o \in Objects
    /\ \E j \in DOMAIN settings :
         settings[j].object = o /\ \A k \in 1 .. j : ~Throws(settings[k])

LEMMA OwnElements ==
  ASSUME NEW U, NEW all \in Seq(U)
  PROVE  all \in Seq(ToSet(all)) /\ ToSet(all) \subseteq U
<1>1. DOMAIN all = 1 .. Len(all) /\ Len(all) \in Nat /\ all \in [1 .. Len(all) -> U]
  OBVIOUS
<1>2. \A i \in DOMAIN all : all[i] \in ToSet(all) /\ all[i] \in U
  BY <1>1 DEF ToSet
<1>3. all \in [1 .. Len(all) -> ToSet(all)]
  BY <1>1, <1>2
<1>4. ToSet(all) \subseteq U
  BY <1>2 DEF ToSet
<1>5. all \in Seq(ToSet(all))
  <2>. DEFINE Z == ToSet(all)
              n == Len(all)
  <2>1. n \in Nat /\ all \in [1 .. n -> Z]
    BY <1>1, <1>3
  <2>. HIDE DEF Z, n
  <2>2. all \in Seq(Z)
    BY <2>1
  <2>. QED BY <2>2 DEF Z
<1>. QED BY <1>4, <1>5

(* Everything that instrumentJS replaces can be replaced, and all that is  *)
(* replaced for the settings of an object that it reaches is among it.     *)
LEMMA InstrumentJSIs ==
  ASSUME NEW r \in Orders, Accepted(r)
  PROVE  LET all == InstrumentJS(Cleaned(r)) IN
         /\ all \in Seq(ToSet(all))
         /\ \A x \in ToSet(all) : x.act = "replace" => KindOf(x.object, x.property) # "unconfigurable"
         /\ \A i \in DOMAIN r :
              LET o == r[i].object IN
              Gets(r, o) =>
                \A sub, p : Has(InstrumentObject(o, Merged(r, o).log), sub, p) => Has(all, sub, p)
<1>. DEFINE s == Cleaned(r)
            M == {Merged(r, r[i].object) : i \in DOMAIN r}
            U == UNION {PiecesOf(m.log) : m \in M}
            part(m) == InstrumentObject(m.object, m.log)
            reached == {i \in DOMAIN s : \A j \in 1 .. i : ~Throws(s[j])}
            f == [j \in DOMAIN s |-> IF j \in reached /\ s[j].object \in Objects
                                    THEN Below(s[j].object, part(s[j])) ELSE <<>>]
            all == InstrumentJS(s)
<1>1. s \in Seq(M) /\ \A j \in DOMAIN s : s[j] \in M
  <2>1. s \in Seq(M)
    BY CleanedIs
  <2>. HIDE DEF s, M
  <2>. QED BY <2>1
<1>2. all = FlattenSeq(f)
  BY DEF InstrumentJS
<1>3. ASSUME NEW m \in M, m.object \in Objects
      PROVE  /\ Below(m.object, part(m)) \in Seq(U)
             /\ \A sub, p : Has(part(m), sub, p) => Has(Below(m.object, part(m)), sub, p)
  <2>1. FineLog(m.log)
    BY MergedIs
  <2>. DEFINE S == PiecesOf(m.log)
              t == part(m)
              b == Below(m.object, t)
  <2>2. t \in Seq(S)
    BY <1>3, <2>1, InstrumentObjectIs
  <2>3. \A x \in S : /\ Moved(m.object, x) \in S
                     /\ Moved(m.object, x).object = x.object
                     /\ Moved(m.object, x).property = x.property
                     /\ Moved(m.object, x).act = x.act
    BY <1>3, PieceMoves DEF PropertiesOf
  <2>4. S \subseteq U
    OBVIOUS
  <2>. HIDE DEF t, S, U, M
  <2>5. b \in Seq(S) /\ ToSet(b) = {Moved(m.object, x) : x \in ToSet(t)}
    BY <2>2, <2>3, BelowIs
  <2>6. \A x \in ToSet(t) : x \in S
    BY <2>2 DEF ToSet
  <2>7. \A sub, p : Has(t, sub, p) => Has(b, sub, p)
    BY <2>3, <2>5, <2>6 DEF Has
  <2>8. b \in Seq(U)
    BY <2>4, <2>5
  <2>. QED BY <2>7, <2>8 DEF t
<1>4. \A m \in M : \E i \in DOMAIN r : m = Merged(r, r[i].object) /\ m.object = r[i].object
  BY MergedIs
<1>5. \A x \in U : x.act = "replace" => KindOf(x.object, x.property) # "unconfigurable"
  BY DEF PiecesOf, Replaces, CanBeDone
<1>6. \A o : Gets(r, o) => /\ o \in Objects
                          /\ \E j \in DOMAIN s : s[j].object = o /\ j \in reached
  BY DEF Gets
<1>. HIDE DEF s, M, U, part, reached
<1>7. f \in Seq(Seq(U)) /\ DOMAIN f = DOMAIN s
  <2>1. f \in [DOMAIN s -> Seq(U)]
    <3>1. <<>> \in Seq(U)
      OBVIOUS
    <3>2. \A j \in DOMAIN s : f[j] \in Seq(U)
      BY <1>1, <1>3, <3>1
    <3>. QED BY <3>2
  <2>. HIDE DEF f
  <2>. QED BY <1>1, <2>1, Tabulated
<1>8. \A j \in DOMAIN s : j \in reached /\ s[j].object \in Objects =>
                           f[j] = Below(s[j].object, part(s[j]))
  OBVIOUS
<1>. HIDE DEF f, all
<1>9. all \in Seq(U) /\ ToSet(all) = UNION {ToSet(f[j]) : j \in DOMAIN f}
  BY <1>2, <1>7, Flattened
<1>10. all \in Seq(ToSet(all)) /\ ToSet(all) \subseteq U
  BY <1>9, OwnElements
<1>11. ASSUME NEW i \in DOMAIN r, Gets(r, r[i].object), NEW sub, NEW p,
              Has(InstrumentObject(r[i].object, Merged(r, r[i].object).log), sub, p)
       PROVE  Has(all, sub, p)
  <2>. DEFINE o == r[i].object
  <2>1. o \in Objects
    BY <1>6, <1>11
  <2>2. PICK j \in DOMAIN s : s[j].object = o /\ j \in reached
    BY <1>6, <1>11
  <2>3. s[j] \in M
    BY <1>1
  <2>4. s[j] = Merged(r, o)
    BY <1>4, <2>2, <2>3
  <2>5. Has(part(s[j]), sub, p)
    BY <1>11, <2>2, <2>4 DEF part
  <2>. HIDE DEF o
  <2>6. Has(f[j], sub, p)
    BY <1>3, <1>8, <2>1, <2>2, <2>3, <2>5
  <2>7. ToSet(f[j]) \subseteq ToSet(all)
    BY <1>7, <1>9, <2>2
  <2>. QED BY <2>6, <2>7 DEF Has
<1>. QED BY <1>5, <1>10, <1>11 DEF all, s

-----------------------------------------------------------------------------
(* What is replaced in the page follows from what was requested.           *)
PiecesInv ==
    /\ requests \in Orders /\ Accepted(requests)
    /\ pieces = IF loaded = "new" THEN <<>> ELSE ReplacedBy(Inserted, Len(Inserted))

(* The pieces in a page are those its accepted requests give, from the     *)
(* insertion of the script to the end.                                     *)
LEMMA PiecesInvariant == ScriptSpec => []PiecesInv
<1>1. InitScript => PiecesInv
  BY DEF InitScript, PiecesInv
<1>2. PiecesInv /\ [NextScript]_scriptVars => PiecesInv'
  <2>. SUFFICES ASSUME PiecesInv, [NextScript]_scriptVars PROVE PiecesInv'
    OBVIOUS
  <2>1. CASE InsertScript
    BY <2>1 DEF PiecesInv, InsertScript, Inserted, given
  <2>2. CASE Leave
    BY <2>2 DEF PiecesInv, Leave, Inserted, given
  <2>3. CASE UNCHANGED <<requests, pieces, loaded>>
    BY <2>3 DEF PiecesInv, Inserted
  <2>4. CASE Postpone \/ EmitMsg \/ HandleMessage
    BY <2>3, <2>4 DEF Postpone, EmitMsg, HandleMessage, given
  <2>5. ASSUME NEW o \in Objects, NEW p \in Properties, NEW by \in Scripts,
               \/ SetThrows(o, p) \/ Get(o, p, by) \/ Call(o, p, by) \/ SetAgain(p)
               \/ \E this \in {"self", "heir"} : Set(o, p, by, this)
        PROVE  PiecesInv'
    BY <2>3, <2>5 DEF SetThrows, Get, Call, Set, SetAgain, given
  <2>6. ASSUME NEW o \in Objects, NEW p \in Properties, SetThrows(o, p) \/ SetAgain(p)
        PROVE  PiecesInv'
    BY <2>3, <2>6 DEF SetThrows, SetAgain, given
  <2>7. CASE UNCHANGED scriptVars
    BY <2>3, <2>7 DEF scriptVars, given
  <2>8. ASSUME NEW p \in Properties, SetAgain(p) PROVE PiecesInv'
    BY <2>3, <2>8 DEF SetAgain, given
  <2>. QED BY <2>1, <2>2, <2>4, <2>5, <2>6, <2>7, <2>8 DEF NextScript
<1>. QED BY <1>1, <1>2, PTL DEF ScriptSpec

(* The pieces are what the steps of instrumentJS replaced.                 *)
LEMMA ReplacedIs ==
  ASSUME NEW steps, steps \in Seq(ToSet(steps)), NEW n \in 0 .. Len(steps)
  PROVE  /\ ReplacedBy(steps, n) \in Seq(ToSet(steps))
         /\ ToSet(ReplacedBy(steps, n)) \subseteq {x \in ToSet(steps) : x.act = "replace"}
         /\ n = Len(steps) =>
              {x \in ToSet(steps) : x.act = "replace"} \subseteq ToSet(ReplacedBy(steps, n))
<1>. DEFINE S == ToSet(steps)
            places == {i \in 1 .. n : steps[i].act = "replace"}
<1>1. DOMAIN steps = 1 .. Len(steps) /\ Len(steps) \in Nat
  OBVIOUS
<1>2. ReplacedBy(steps, n) = Only(steps, places)
  BY DEF ReplacedBy
<1>3. Only(steps, places) \in Seq(S) /\ ToSet(Only(steps, places)) = {steps[i] : i \in DOMAIN steps \cap places}
  <2>1. steps \in Seq(S)
    OBVIOUS
  <2>. HIDE DEF S, places
  <2>. QED BY <2>1, Picked
<1>4. {steps[i] : i \in DOMAIN steps \cap places} \subseteq {x \in S : x.act = "replace"}
  BY DEF ToSet
<1>5. n = Len(steps) => {x \in S : x.act = "replace"} \subseteq {steps[i] : i \in DOMAIN steps \cap places}
  BY <1>1 DEF ToSet
<1>. QED BY <1>2, <1>3, <1>4, <1>5

LEMMA PiecesAre ==
  ASSUME PiecesInv, loaded # "new"
  PROVE  /\ pieces \in Seq(ToSet(pieces))
         /\ ToSet(pieces) = {x \in ToSet(Inserted) : x.act = "replace"}
<1>1. Inserted \in Seq(ToSet(Inserted)) /\ pieces = ReplacedBy(Inserted, Len(Inserted))
  BY InstrumentJSIs DEF PiecesInv, Inserted
<1>. DEFINE steps == Inserted
            S == ToSet(Inserted)
<1>2. Len(steps) \in 0 .. Len(steps)
  BY <1>1
<1>3. pieces \in Seq(S) /\ ToSet(pieces) = {x \in S : x.act = "replace"}
  <2>. HIDE DEF steps
  <2>. QED BY <1>1, <1>2, ReplacedIs DEF steps
<1>. HIDE DEF S
<1>4. pieces \in Seq(ToSet(pieces))
  BY <1>3, OwnElements
<1>. QED BY <1>3, <1>4 DEF S

(* A property is watched as soon as one of the steps replaced it.          *)
LEMMA WatchedIfReplaced ==
  ASSUME PiecesInv, loaded # "new"
  PROVE  /\ \A o, p : Watched(o, p) => KindOf(o, p) # "unconfigurable"
         /\ \A o, p : Has(Inserted, o, p) => Watched(o, p)
<1>1. \A x \in ToSet(Inserted) : x.act = "replace" => KindOf(x.object, x.property) # "unconfigurable"
  BY InstrumentJSIs DEF PiecesInv, Inserted
<1>2. ToSet(pieces) = {x \in ToSet(Inserted) : x.act = "replace"}
  BY PiecesAre
<1>3. \A o, p : Watched(o, p) <=> \E x \in ToSet(pieces) : x.object = o /\ x.property = p
  BY DEF Watched, ToSet
<1>. QED BY <1>1, <1>2, <1>3 DEF Has

(* What a request asks for is among the pieces that the merged settings of *)
(* its object give, and so is what recursion reaches from it.              *)
LEMMA AskedAreReplaced ==
  ASSUME NEW r \in Orders, Accepted(r), NEW i \in DOMAIN r,
         Gets(r, r[i].object),
         AskedFor(r[i]) = {} =>
           \A a, b \in Settings(r, r[i].object) : (AskedFor(r[a]) = {}) = (AskedFor(r[b]) = {})
  PROVE  LET o == r[i].object
             setting == Full(r[i]).log
             excluded == UNION {Full(r[j]).log.excluded : j \in Settings(r, o)}
             asked == Names(o, AskedFor(r[i])) \ excluded
             all == InstrumentJS(Cleaned(r))
         IN /\ \A p \in asked : Watchable(o, p) => Has(all, o, p)
            /\ \A p \in asked : setting.recursive /\ setting.depth > 0 /\ IsObject(o, p) =>
                 \A q \in Names(Target[p], {}) \ excluded :
                   Watchable(Target[p], q) => Has(all, Target[p], q)
<1>. DEFINE o == r[i].object
            setting == Full(r[i]).log
            same == Settings(r, o)
            excluded == UNION {Full(r[j]).log.excluded : j \in same}
            asked == Names(o, AskedFor(r[i])) \ excluded
            all == InstrumentJS(Cleaned(r))
            ls == Merged(r, o).log
            one == InstrumentObject(o, ls)
<1>1. /\ o \in Objects /\ FineLog(ls)
      /\ ls.recursive = setting.recursive /\ ls.depth = setting.depth /\ ls.excluded = excluded
      /\ \/ ls.propertiesToInstrument = AskedFor(r[i])
         \/ /\ ls.propertiesToInstrument = UNION {AskedFor(r[j]) : j \in same}
            /\ \A j \in same : AskedFor(r[j]) # None
  BY MergedIs DEF AskedFor, Gets
<1>2. i \in same
  BY DEF Settings
<1>3. \A sub, p : Has(one, sub, p) => Has(all, sub, p)
  BY InstrumentJSIs
<1>4. \A x, p : Watchable(x, p) => Replaces(x, p, ls)
  BY DEF Watchable, Replaces
<1>5. /\ ls.propertiesToInstrument # None =>
           \A p \in Wanted(o, ls) \ ls.excluded :
             /\ Replaces(o, p, ls) => Has(one, o, p)
             /\ ls.recursive /\ ls.depth > 0 /\ IsObject(o, p) =>
                  \A q \in ToSet(PropertyNames[Target[p]]) \ ls.excluded :
                    Replaces(Target[p], q, ls) => Has(one, Target[p], q)
  BY <1>1, InstrumentObjectIs
<1>. DEFINE mine == AskedFor(r[i])
            list == ls.propertiesToInstrument
<1>6. mine = {} => \A a, b \in same : (AskedFor(r[a]) = {}) = (AskedFor(r[b]) = {})
  OBVIOUS
<1>7. /\ Names(o, mine) = IF mine = {} THEN ToSet(PropertyNames[o]) ELSE mine \ None
      /\ Wanted(o, ls) = IF list = {} THEN ToSet(PropertyNames[o]) ELSE list \ None
  BY DEF Names, Wanted
<1>. HIDE DEF same, list, mine, ls, setting, excluded, all, one, o
<1>8. mine = None => asked = {}
  BY <1>7 DEF None, mine
<1>9. mine # None => list # None /\ Names(o, mine) \subseteq Wanted(o, ls)
  <2>1. CASE list = mine
    BY <1>7, <2>1
  <2>2. CASE list = UNION {AskedFor(r[j]) : j \in same} /\ \A j \in same : AskedFor(r[j]) # None
    <3>1. mine \subseteq list
      BY <1>2, <2>2 DEF mine
    <3>2. CASE mine = {}
      <4>1. \A j \in same : AskedFor(r[j]) = {}
        BY <1>2, <1>6, <3>2 DEF mine
      <4>2. list = {}
        BY <2>2, <4>1
      <4>. QED BY <1>7, <3>2, <4>2 DEF None
    <3>3. CASE mine # {}
      <4>1. list # {}
        BY <3>1, <3>3
      <4>2. mine # None
        BY <1>2, <2>2 DEF mine
      <4>3. list # None
        BY <3>1, <3>3, <4>2 DEF None
      <4>. QED BY <1>7, <3>1, <3>3, <4>1, <4>3
    <3>. QED BY <3>2, <3>3
  <2>. QED BY <1>1, <2>1, <2>2 DEF list, mine
<1>10. \A p \in asked : p \in Wanted(o, ls) \ ls.excluded /\ list # None
  BY <1>1, <1>8, <1>9 DEF mine
<1>11. \A x : Names(x, {}) = ToSet(PropertyNames[x])
  BY DEF Names
<1>12. \A p \in asked : Watchable(o, p) => Has(all, o, p)
  BY <1>3, <1>4, <1>5, <1>10 DEF list
<1>13. ASSUME NEW p \in asked, setting.recursive, setting.depth > 0, IsObject(o, p),
              NEW q \in Names(Target[p], {}) \ excluded, Watchable(Target[p], q)
       PROVE  Has(all, Target[p], q)
  <2>1. list # None /\ p \in Wanted(o, ls) \ ls.excluded
    BY <1>10
  <2>2. q \in ToSet(PropertyNames[Target[p]]) \ ls.excluded /\ Replaces(Target[p], q, ls)
    BY <1>1, <1>4, <1>11, <1>13
  <2>3. ls.recursive /\ ls.depth > 0
    BY <1>1, <1>13
  <2>. QED BY <1>3, <1>5, <1>13, <2>1, <2>2, <2>3 DEF list
<1>. HIDE DEF asked
<1>. QED BY <1>12, <1>13 DEF o, setting, same, excluded, asked, all

(* For any requests that the schema accepts and js_instrumentation.py does *)
(* not refuse, every property that a request lists is watched once the page*)
(* script has run, whatever the other requests of its object are; so is    *)
(* every property of an object requested as a whole, unless another request*)
(* of it has a list; and every property of the objects that recursion      *)
(* reaches; but for what is excluded and for what comes after a request    *)
(* that the page cannot evaluate: merging, deduplicating, instrumentJS and *)
(* instrumentObject (js-instruments.ts) lose nothing else.                 *)
THEOREM AskedWatched == ScriptSpec => []AskedIsWatched
<1>1. PiecesInv => AskedIsWatched
  <2>. SUFFICES ASSUME PiecesInv, loaded # "new", NEW i \in DOMAIN requests,
                       Evaluated(requests[i].object),
                       AskedFor(requests[i]) = {} => Uniform(requests[i].object)
       PROVE  LET o == requests[i].object
                  setting == Full(requests[i]).log
                  excluded == UNION {Full(requests[j]).log.excluded : j \in Settings(requests, o)}
                  asked == Names(o, AskedFor(requests[i])) \ excluded
                  reached == IF setting.recursive /\ setting.depth > 0
                             THEN {Target[p] : p \in {p \in asked : IsObject(o, p)}} ELSE {}
              IN /\ \A p \in asked : Watchable(o, p) => Watched(o, p)
                 /\ \A sub \in reached : \A p \in Names(sub, {}) \ excluded :
                      Watchable(sub, p) => Watched(sub, p)
    BY DEF AskedIsWatched
  <2>. DEFINE o == requests[i].object
              setting == Full(requests[i]).log
              excluded == UNION {Full(requests[j]).log.excluded : j \in Settings(requests, o)}
              asked == Names(o, AskedFor(requests[i])) \ excluded
              all == InstrumentJS(Cleaned(requests))
  <2>1. /\ requests \in Orders /\ Accepted(requests) /\ Inserted = all
        /\ Gets(requests, o)
    BY DEF PiecesInv, Inserted, Evaluated, Gets
  <2>2. \A x, p : Has(all, x, p) => Watched(x, p)
    BY <2>1, WatchedIfReplaced
  <2>3. /\ \A p \in asked : Watchable(o, p) => Has(all, o, p)
        /\ \A p \in asked : setting.recursive /\ setting.depth > 0 /\ IsObject(o, p) =>
             \A q \in Names(Target[p], {}) \ excluded :
               Watchable(Target[p], q) => Has(all, Target[p], q)
    BY <2>1, AskedAreReplaced DEF Uniform
  <2>. HIDE DEF o, setting, excluded, asked, all
  <2>. DEFINE reached == IF setting.recursive /\ setting.depth > 0
                         THEN {Target[p] : p \in {p \in asked : IsObject(o, p)}} ELSE {}
  <2>4. \A p \in asked : Watchable(o, p) => Watched(o, p)
    BY <2>1, <2>2, <2>3
  <2>5. ASSUME NEW sub \in reached, NEW q \in Names(sub, {}) \ excluded, Watchable(sub, q)
        PROVE  Watched(sub, q)
    <3>1. setting.recursive /\ setting.depth > 0 /\ \E p \in asked : IsObject(o, p) /\ sub = Target[p]
      BY <2>5
    <3>2. Has(all, sub, q)
      BY <2>3, <2>5, <3>1
    <3>. QED BY <2>1, <2>2, <3>2
  <2>. QED BY <2>4, <2>5 DEF o, setting, excluded, asked
<1>. QED BY <1>1, PiecesInvariant, PTL

(* A page that is not watched has a place for each, too.                   *)
Values == [Objects -> [Properties -> Nat]]
ReadsInv ==
    /\ accesses \in Nat /\ value \in Values
    /\ DOMAIN plain = {"value", "own"} /\ plain.value \in Values
    /\ ReadsAsWritten

LEMMA OwnWrittenOf ==
  ASSUME NEW owned, NEW p, NEW v, NEW q
  PROVE  Of(OwnWritten(owned, p, v), q) = IF q = p THEN v ELSE Of(owned, q)
BY DEF Of, OwnWritten

LEMMA WrittenIs ==
  ASSUME NEW w \in Values, NEW o \in Objects, NEW p \in Properties, NEW v \in Nat
  PROVE  /\ Written(w, o, p, v) \in Values
         /\ \A x \in Objects, q \in Properties :
              Written(w, o, p, v)[x][q] = IF x = o /\ q = p THEN v ELSE w[x][q]
<1>. DEFINE new == Written(w, o, p, v)
<1>1. new = [w EXCEPT ![o] = [w[o] EXCEPT ![p] = v]]
  BY DEF Written
<1>2. /\ w \in [Objects -> [Properties -> Nat]] /\ w[o] \in [Properties -> Nat]
      /\ [w[o] EXCEPT ![p] = v] \in [Properties -> Nat]
  BY DEF Values
<1>3. \A q \in Properties : [w[o] EXCEPT ![p] = v][q] = IF q = p THEN v ELSE w[o][q]
  BY <1>2
<1>. DEFINE row == [w[o] EXCEPT ![p] = v]
<1>. HIDE DEF new, row
<1>4. new = [w EXCEPT ![o] = row] /\ row \in [Properties -> Nat]
      /\ \A q \in Properties : row[q] = IF q = p THEN v ELSE w[o][q]
  BY <1>1, <1>2, <1>3 DEF row
<1>5. /\ new \in [Objects -> [Properties -> Nat]]
      /\ \A x \in Objects : new[x] = IF x = o THEN row ELSE w[x]
  BY <1>2, <1>4
<1>. QED BY <1>4, <1>5 DEF Values, new

(* A write that does not go astray, as what it does to both pages.         *)
OwnWrites(p, v) ==
    /\ value' = value /\ own' = OwnWritten(own, p, v)
    /\ plain' = [plain EXCEPT !.own = OwnWritten(plain.own, p, v)]
ValueWrites(o, p, v) ==
    /\ value' = Written(value, o, p, v) /\ own' = own
    /\ plain' = [plain EXCEPT !.value = Written(plain.value, o, p, v)]

LEMMA WritesGoTo ==
  ASSUME NEW o \in Objects, NEW p \in Properties, NEW by, NEW this \in {"self", "heir"},
         Set(o, p, by, this), KindOf(o, p) # "unconfigurable"
  PROVE  /\ accesses' = accesses + 1
         /\ this = "heir" => o = "api"
         /\ strayed' = IF Strays(o, p, this) THEN strayed \cup {<<o, p>>} ELSE strayed
         /\ ~Strays(o, p, this) =>
              \/ UNCHANGED <<value, own, plain>>
              \/ this = "heir" /\ OwnWrites(p, accesses')
              \/ ValueWrites(o, p, accesses')
         /\ Strays(o, p, this) =>
              /\ value' = value \/ value' = Written(value, o, p, accesses')
              /\ own' = own \/ (this = "heir" /\ own' = OwnWritten(own, p, accesses'))
              /\ \/ plain' = plain
                 \/ this = "heir" /\ plain' = [plain EXCEPT !.own = OwnWritten(plain.own, p, accesses')]
<1>. DEFINE changes == ~Prevents(o, p) /\ KindOf(o, p) # "readonly"
            onHeir == OnHeir(o, p, this)
            v == accesses'
<1>1. /\ this = "heir" => o = "api"
      /\ ~(onHeir /\ frozen /\ ~Prevents(o, p))
      /\ value' = IF changes /\ ~onHeir THEN Written(value, o, p, v) ELSE value
      /\ own' = IF changes /\ onHeir THEN OwnWritten(own, p, v) ELSE own
      /\ plain' = IF Prevents(o, p) THEN plain ELSE PlainAfter(o, p, this, v)
      /\ strayed' = IF Strays(o, p, this) THEN strayed \cup {<<o, p>>} ELSE strayed
      /\ accesses' = accesses + 1
  BY DEF Set, Access
<1>2. KindOf(o, p) \in {"data", "function", "readonly", "unwritable", "object", "absent", "accessor"}
  BY DEF KindOf, Kinds, Objects
<1>3. onHeir => this = "heir"
  BY DEF OnHeir
<1>4. CASE Strays(o, p, this)
  <2>1. \/ KindOf(o, p) = "unwritable"
        \/ KindOf(o, p) = "absent" /\ this = "heir"
    BY <1>4 DEF Strays
  <2>2. CASE KindOf(o, p) = "unwritable"
    <3>1. plain' = plain
      BY <1>1, <2>2 DEF PlainAfter
    <3>. QED BY <1>1, <1>3, <1>4, <3>1
  <2>3. CASE KindOf(o, p) = "absent" /\ this = "heir"
    <3>1. PlainAfter(o, p, this, v) =
            IF frozen THEN plain ELSE [plain EXCEPT !.own = OwnWritten(plain.own, p, v)]
      BY <2>3 DEF PlainAfter
    <3>2. \/ plain' = plain
          \/ this = "heir" /\ plain' = [plain EXCEPT !.own = OwnWritten(plain.own, p, v)]
      BY <1>1, <2>3, <3>1
    <3>. QED BY <1>1, <1>3, <1>4, <3>2
  <2>. QED BY <2>1, <2>2, <2>3
<1>5. CASE ~Strays(o, p, this)
  <2>1. KindOf(o, p) # "unwritable" /\ ~(KindOf(o, p) = "absent" /\ this = "heir")
    BY <1>5 DEF Strays
  <2>2. CASE ~changes
    <3>1. plain' = plain
      BY <1>1, <2>2 DEF PlainAfter
    <3>. QED BY <1>1, <1>5, <2>2, <3>1
  <2>3. CASE changes /\ onHeir
    <3>1. this = "heir" /\ KindOf(o, p) \in {"data", "function", "object"} /\ ~frozen
      BY <1>1, <2>1, <2>3 DEF OnHeir, HoldsValue
    <3>2. plain' = [plain EXCEPT !.own = OwnWritten(plain.own, p, v)]
      BY <1>1, <2>3, <3>1 DEF PlainAfter
    <3>3. OwnWrites(p, v)
      BY <1>1, <2>3, <3>2 DEF OwnWrites
    <3>. QED BY <1>1, <1>5, <3>1, <3>3
  <2>4. CASE changes /\ ~onHeir
    <3>1. ~(this = "heir" /\ KindOf(o, p) # "accessor") /\ KindOf(o, p) # "readonly"
      BY <1>2, <2>1, <2>4 DEF OnHeir, HoldsValue
    <3>2. plain' = [plain EXCEPT !.value = Written(plain.value, o, p, v)]
      BY <1>1, <2>1, <2>4, <3>1 DEF PlainAfter
    <3>3. ValueWrites(o, p, v)
      BY <1>1, <2>4, <3>2 DEF ValueWrites
    <3>. QED BY <1>1, <1>5, <3>3
  <2>. QED BY <2>2, <2>3, <2>4
<1>. QED BY <1>4, <1>5

(* A write that goes through keeps what the page reads as if it were plain.*)
LEMMA SetReadsBack ==
  ASSUME ReadsInv, NEW o \in Objects, NEW p \in Properties, NEW by, NEW this \in {"self", "heir"},
         Set(o, p, by, this), KindOf(o, p) # "unconfigurable"
  PROVE  ReadsInv'
<1>. DEFINE v == accesses'
<1>1. v \in Nat /\ value \in Values /\ DOMAIN plain = {"value", "own"} /\ plain.value \in Values
  BY WritesGoTo DEF ReadsInv
<1>2. strayed' = IF Strays(o, p, this) THEN strayed \cup {<<o, p>>} ELSE strayed
  BY WritesGoTo
<1>3. /\ \A x \in Objects : \A q \in Properties :
           <<x, q>> \notin strayed => value[x][q] = plain.value[x][q]
      /\ \A q \in Properties : <<"api", q>> \notin strayed => Of(own, q) = Of(plain.own, q)
  BY DEF ReadsInv, ReadsAsWritten
<1>4. /\ Written(value, o, p, v) \in Values /\ Written(plain.value, o, p, v) \in Values
      /\ \A x \in Objects, q \in Properties :
           /\ Written(value, o, p, v)[x][q] = IF x = o /\ q = p THEN v ELSE value[x][q]
           /\ Written(plain.value, o, p, v)[x][q] = IF x = o /\ q = p THEN v ELSE plain.value[x][q]
  BY <1>1, WrittenIs
<1>5. \A owned, q : Of(OwnWritten(owned, p, v), q) = IF q = p THEN v ELSE Of(owned, q)
  BY OwnWrittenOf
<1>6. \A w : LET new == [plain EXCEPT !.own = w] IN
             DOMAIN new = {"value", "own"} /\ new.value = plain.value /\ new.own = w
  BY <1>1
<1>7. \A w : LET new == [plain EXCEPT !.value = w] IN
             DOMAIN new = {"value", "own"} /\ new.own = plain.own /\ new.value = w
  BY <1>1
<1>8. CASE ~Strays(o, p, this)
  <2>1. strayed' = strayed
    BY <1>2, <1>8
  <2>2. \/ UNCHANGED <<value, own, plain>>
        \/ this = "heir" /\ OwnWrites(p, v)
        \/ ValueWrites(o, p, v)
    BY <1>8, WritesGoTo
  <2>. HIDE DEF v
  <2>3. CASE UNCHANGED <<value, own, plain>>
    BY <1>1, <1>3, <2>1, <2>3 DEF ReadsInv, ReadsAsWritten, v
  <2>4. CASE OwnWrites(p, v)
    <3>1. value' = value /\ own' = OwnWritten(own, p, v)
      BY <2>4 DEF OwnWrites
    <3>2. /\ DOMAIN plain' = {"value", "own"} /\ plain'.value = plain.value
          /\ plain'.own = OwnWritten(plain.own, p, v)
      BY <1>6, <2>4 DEF OwnWrites
    <3>3. \A q \in Properties : <<"api", q>> \notin strayed => Of(own', q) = Of(plain'.own, q)
      BY <1>3, <1>5, <3>1, <3>2
    <3>. QED BY <1>1, <1>3, <2>1, <3>1, <3>2, <3>3 DEF ReadsInv, ReadsAsWritten, v
  <2>5. CASE ValueWrites(o, p, v)
    <3>1. own' = own /\ value' = Written(value, o, p, v)
      BY <2>5 DEF ValueWrites
    <3>2. /\ DOMAIN plain' = {"value", "own"} /\ plain'.own = plain.own
          /\ plain'.value = Written(plain.value, o, p, v)
      BY <1>7, <2>5 DEF ValueWrites
    <3>3. \A x \in Objects : \A q \in Properties :
            <<x, q>> \notin strayed => value'[x][q] = plain'.value[x][q]
      BY <1>3, <1>4, <3>1, <3>2
    <3>. QED BY <1>1, <1>3, <1>4, <2>1, <3>1, <3>2, <3>3 DEF ReadsInv, ReadsAsWritten, v
  <2>. QED BY <2>2, <2>3, <2>4, <2>5
<1>9. CASE Strays(o, p, this)
  <2>1. strayed' = strayed \cup {<<o, p>>}
    BY <1>2, <1>9
  <2>2. /\ value' = value \/ value' = Written(value, o, p, v)
        /\ own' = own \/ (o = "api" /\ own' = OwnWritten(own, p, v))
        /\ \/ plain' = plain
           \/ o = "api" /\ plain' = [plain EXCEPT !.own = OwnWritten(plain.own, p, v)]
    BY <1>9, WritesGoTo
  <2>. HIDE DEF v
  <2>3. /\ DOMAIN plain' = {"value", "own"} /\ plain'.value = plain.value
        /\ plain'.own = plain.own \/ (o = "api" /\ plain'.own = OwnWritten(plain.own, p, v))
    BY <1>1, <1>6, <2>2
  <2>4. \A x \in Objects : \A q \in Properties :
          <<x, q>> \notin strayed' => value'[x][q] = plain'.value[x][q]
    <3>. SUFFICES ASSUME NEW x \in Objects, NEW q \in Properties, <<x, q>> \notin strayed'
         PROVE  value'[x][q] = plain'.value[x][q]
      OBVIOUS
    <3>1. <<x, q>> \notin strayed /\ ~(x = o /\ q = p)
      BY <2>1
    <3>. QED BY <1>3, <1>4, <2>2, <2>3, <3>1
  <2>5. \A q \in Properties : <<"api", q>> \notin strayed' => Of(own', q) = Of(plain'.own, q)
    <3>. SUFFICES ASSUME NEW q \in Properties, <<"api", q>> \notin strayed'
         PROVE  Of(own', q) = Of(plain'.own, q)
      OBVIOUS
    <3>1. <<"api", q>> \notin strayed /\ ~(o = "api" /\ q = p)
      BY <2>1
    <3>2. Of(own', q) = Of(own, q)
      BY <1>5, <2>2, <3>1
    <3>3. Of(plain'.own, q) = Of(plain.own, q)
      BY <1>5, <2>3, <3>1
    <3>. QED BY <1>3, <3>1, <3>2, <3>3
  <2>6. value' \in Values
    BY <1>1, <1>4, <2>2
  <2>. QED BY <1>1, <2>3, <2>4, <2>5, <2>6 DEF ReadsInv, ReadsAsWritten, v
<1>. QED BY <1>8, <1>9

(* The page reads through the wrapped accessors of instrumentObjectProperty*)
(* (js-instruments.ts) what it would read without them, after any writes,  *)
(* to the object itself or to one that inherits from it, and however many  *)
(* layers a property has, but for properties with a write of one of the    *)
(* three kinds that go astray in the code.                                 *)
THEOREM ReadsWhatWasWritten == ScriptSpec => []ReadsAsWritten
<1>1. InitScript => ReadsInv
  <2>. SUFFICES ASSUME InitScript PROVE ReadsInv
    OBVIOUS
  <2>1. /\ accesses = 0 /\ value = Untouched /\ own = [p \in {} |-> 0]
        /\ plain = [value |-> Untouched, own |-> [p \in {} |-> 0]]
    BY DEF InitScript
  <2>2. Untouched \in Values
    BY DEF Untouched, Values
  <2>3. DOMAIN plain = {"value", "own"} /\ plain.value = Untouched /\ plain.own = [p \in {} |-> 0]
    BY <2>1
  <2>. QED BY <2>1, <2>2, <2>3 DEF ReadsInv, ReadsAsWritten
<1>2. PiecesInv /\ ReadsInv /\ [NextScript]_scriptVars => ReadsInv'
  <2>. SUFFICES ASSUME PiecesInv, ReadsInv, [NextScript]_scriptVars PROVE ReadsInv'
    OBVIOUS
  <2>1. CASE UNCHANGED <<value, own, plain, strayed>> /\ (accesses' = accesses \/ accesses' = accesses + 1)
    BY <2>1 DEF ReadsInv, ReadsAsWritten
  <2>2. CASE InsertScript \/ Leave \/ Postpone \/ EmitMsg \/ HandleMessage
    BY <2>1, <2>2 DEF InsertScript, Leave, Postpone, EmitMsg, HandleMessage, history
  <2>3. CASE UNCHANGED scriptVars
    BY <2>1, <2>3 DEF scriptVars, history
  <2>4. ASSUME NEW o \in Objects, NEW p \in Properties, SetThrows(o, p) PROVE ReadsInv'
    BY <2>1, <2>4 DEF SetThrows, Access
  <2>5. ASSUME NEW o \in Objects, NEW p \in Properties, NEW by \in Scripts,
               Get(o, p, by) \/ Call(o, p, by)
        PROVE  ReadsInv'
    BY <2>1, <2>5 DEF Get, Call, Access
  <2>6. ASSUME NEW o \in Objects, NEW p \in Properties, NEW by \in Scripts,
               NEW this \in {"self", "heir"}, Set(o, p, by, this)
        PROVE  ReadsInv'
    <3>1. loaded # "new" /\ Watched(o, p)
      BY <2>6 DEF Set, Access
    <3>2. KindOf(o, p) # "unconfigurable"
      BY <3>1, WatchedIfReplaced
    <3>. QED BY <2>6, <3>2, SetReadsBack
  <2>7. ASSUME NEW p \in Properties, SetAgain(p) PROVE ReadsInv'
    <3>1. /\ plain' = [plain EXCEPT !.own = OwnWritten(plain.own, p, accesses')]
          /\ strayed' = strayed \cup {<<"api", p>>} /\ value' = value /\ own' = own
          /\ accesses' = accesses + 1
      BY <2>7 DEF SetAgain, Access
    <3>2. /\ DOMAIN plain' = {"value", "own"} /\ plain'.value = plain.value
          /\ plain'.own = OwnWritten(plain.own, p, accesses')
      BY <3>1 DEF ReadsInv
    <3>3. \A q \in Properties : <<"api", q>> \notin strayed' => Of(own', q) = Of(plain'.own, q)
      <4>. SUFFICES ASSUME NEW q \in Properties, <<"api", q>> \notin strayed'
           PROVE  Of(own', q) = Of(plain'.own, q)
        OBVIOUS
      <4>1. <<"api", q>> \notin strayed /\ q # p
        BY <3>1
      <4>. QED BY <3>1, <3>2, <4>1, OwnWrittenOf DEF ReadsInv, ReadsAsWritten
    <3>. QED BY <3>1, <3>2, <3>3 DEF ReadsInv, ReadsAsWritten
  <2>. QED BY <2>2, <2>3, <2>4, <2>5, <2>6, <2>7 DEF NextScript
<1>3. ReadsInv => ReadsAsWritten
  BY DEF ReadsInv
<1>. QED BY <1>1, <1>2, <1>3, PiecesInvariant, PTL DEF ScriptSpec

-----------------------------------------------------------------------------
(* The records of a page: U has the symbols of all that is watched in it.  *)
Callers == Scripts \cup {OwnScript}
Keys(U) == Callers \X U
PageMessages(U) == [by : Callers, symbol : U, ordinal : Nat]
Counters(keys) == UNION {[K -> Nat] : K \in SUBSET keys}
Closures(U) ==
    [inLog : BOOLEAN, logCounter : Counters(Keys(U)), ordinal : Nat, messages : Seq(PageMessages(U)),
     timeout : BOOLEAN, calledAgain : BOOLEAN]

KeyOf(record) == <<record.by, record.symbol>>
Count(list, key) == Cardinality({i \in DOMAIN list : KeyOf(list[i]) = key})
Capped(n) == IF n < maxLogCount THEN n ELSE maxLogCount

(* The records are numbered in their order, and counted by script and      *)
(* symbol.                                                                 *)
Logged(U, passed, st) ==
    /\ st \in Closures(U) /\ passed \in Seq(PageMessages(U))
    /\ Len(passed) + Len(st.messages) = st.ordinal
    /\ \A i \in 1 .. st.ordinal : (passed \o st.messages)[i].ordinal = i
    /\ \A key \in Keys(U) : /\ Count(passed \o st.messages, key) = Of(st.logCounter, key)
                            /\ Of(st.logCounter, key) <= maxLogCount

LEMMA OfCounter ==
  ASSUME NEW keys, NEW f \in Counters(keys), NEW key
  PROVE  Of(f, key) \in Nat
BY DEF Counters, Of

LEMMA BumpIs ==
  ASSUME NEW keys, NEW f \in Counters(keys), NEW key \in keys, NEW n \in Nat
  PROVE  /\ Bump(f, key, n) \in Counters(keys)
         /\ \A k : Of(Bump(f, key, n), k) = IF k = key THEN Of(f, key) + n ELSE Of(f, k)
<1>1. Of(f, key) + n \in Nat
  BY OfCounter
<1>2. PICK K \in SUBSET keys : f \in [K -> Nat]
  BY DEF Counters
<1>3. Bump(f, key, n) \in [K \cup {key} -> Nat] /\ K \cup {key} \in SUBSET keys
  BY <1>1, <1>2 DEF Bump
<1>4. Bump(f, key, n) \in Counters(keys)
  BY <1>3 DEF Counters
<1>5. \A k : Of(Bump(f, key, n), k) = IF k = key THEN Of(f, key) + n ELSE Of(f, k)
  <2>1. /\ DOMAIN Bump(f, key, n) = K \cup {key}
        /\ \A k \in K \cup {key} : Bump(f, key, n)[k] = IF k = key THEN Of(f, key) + n ELSE f[k]
    BY <1>2 DEF Bump
  <2>. QED BY <1>2, <2>1 DEF Of
<1>. QED BY <1>4, <1>5

LEMMA CountOfAppend ==
  ASSUME NEW S, NEW s \in Seq(S), NEW m \in S, NEW key
  PROVE  /\ Count(s, key) \in Nat
         /\ Count(Append(s, m), key) = IF KeyOf(m) = key THEN Count(s, key) + 1 ELSE Count(s, key)
<1>. DEFINE A == {i \in DOMAIN s : KeyOf(s[i]) = key}
            t == Append(s, m)
            B == {i \in DOMAIN t : KeyOf(t[i]) = key}
            n == Len(s) + 1
<1>1. DOMAIN s = 1 .. Len(s) /\ Len(s) \in Nat
  OBVIOUS
<1>2. IsFiniteSet(A) /\ n \notin A
  <2>1. IsFiniteSet(1 .. Len(s))
    BY <1>1, FS_Interval
  <2>. QED BY <1>1, <2>1, FS_Subset
<1>3. /\ DOMAIN t = DOMAIN s \cup {n} /\ t[n] = m
      /\ \A i \in DOMAIN s : t[i] = s[i]
  BY <1>1
<1>. HIDE DEF t, n
<1>4. B = IF KeyOf(m) = key THEN A \cup {n} ELSE A
  BY <1>3
<1>5. Count(s, key) = Cardinality(A) /\ Count(t, key) = Cardinality(B)
  BY DEF Count
<1>. HIDE DEF A, B
<1>6. Cardinality(A) \in Nat
  BY <1>2, FS_CardinalityType
<1>7. Cardinality(A \cup {n}) = Cardinality(A) + 1
  BY <1>2, FS_AddElement
<1>. QED BY <1>4, <1>5, <1>6, <1>7 DEF t

LEMMA AppendedTo ==
  ASSUME NEW S, NEW a \in Seq(S), NEW b \in Seq(S), NEW m \in S
  PROVE  a \o Append(b, m) = Append(a \o b, m) /\ a \o b \in Seq(S) /\ Len(a \o b) = Len(a) + Len(b)
OBVIOUS

(* One access that is logged: one more record, if it is below the limit.   *)
LEMMA LogIs ==
  ASSUME NEW U, NEW passed, NEW st, Logged(U, passed, st), NEW by \in Callers, NEW symbol \in U
  PROVE  LET new == Log(st, by, symbol) IN
         /\ Logged(U, passed, new)
         /\ new.inLog = st.inLog
         /\ \A key \in Keys(U) :
              Of(new.logCounter, key) =
                IF ~st.inLog /\ key = <<by, symbol>> THEN Capped(Of(st.logCounter, key) + 1)
                ELSE Of(st.logCounter, key)
<1>. DEFINE k == <<by, symbol>>
            new == Log(st, by, symbol)
            m == [by |-> by, symbol |-> symbol, ordinal |-> st.ordinal + 1]
            all == passed \o st.messages
            C == Counters(Keys(U))
            M == PageMessages(U)
            Q == Seq(PageMessages(U))
<1>1. /\ st \in [inLog : BOOLEAN, logCounter : C, ordinal : Nat, messages : Q,
                 timeout : BOOLEAN, calledAgain : BOOLEAN]
      /\ passed \in Q
      /\ Len(passed) + Len(st.messages) = st.ordinal
      /\ \A i \in 1 .. st.ordinal : all[i].ordinal = i
      /\ \A key \in Keys(U) : Count(all, key) = Of(st.logCounter, key) /\ Of(st.logCounter, key) <= maxLogCount
  BY DEF Logged, Closures
<1>2. k \in Keys(U)
  BY DEF Keys
<1>3. \A key : Of(st.logCounter, key) \in Nat
  BY <1>1, OfCounter
<1>4. maxLogCount \in Nat
  BY PageScriptAssumption
<1>5. CASE st.inLog
  <2>1. new = st
    BY <1>5 DEF Log
  <2>. QED BY <1>5, <2>1
<1>6. CASE ~st.inLog /\ OverLimit(st, k)
  <2>1. new = st
    BY <1>6 DEF Log
  <2>2. Of(st.logCounter, k) = maxLogCount
    <3>. HIDE DEF k
    <3>. QED BY <1>1, <1>2, <1>3, <1>4, <1>6 DEF OverLimit
  <2>3. Of(st.logCounter, k) = Capped(Of(st.logCounter, k) + 1)
    <3>. HIDE DEF k
    <3>. QED BY <1>4, <2>2 DEF Capped
  <2>. QED BY <2>1, <2>3
<1>7. CASE ~st.inLog /\ ~OverLimit(st, k)
  <2>. DEFINE counter == Bump(st.logCounter, k, 1)
  <2>1. m \in M /\ m.ordinal = st.ordinal + 1 /\ KeyOf(m) = k
    BY <1>1 DEF PageMessages, KeyOf
  <2>2. /\ counter \in C
        /\ \A key : Of(counter, key) = IF key = k THEN Of(st.logCounter, k) + 1 ELSE Of(st.logCounter, key)
    <3>. HIDE DEF k
    <3>. QED BY <1>1, <1>2, BumpIs
  <2>. HIDE DEF counter, m, C, M, k
  <2>3. new = SendDebounced([st EXCEPT !.logCounter = counter, !.ordinal = st.ordinal + 1], m)
    BY <1>7 DEF Log, counter, m, k
  <2>4. Append(st.messages, m) \in Q
    BY <1>1, <2>1 DEF M
  <2>. HIDE DEF Q
  <2>5. /\ new \in [inLog : BOOLEAN, logCounter : C, ordinal : Nat, messages : Q,
                    timeout : BOOLEAN, calledAgain : BOOLEAN]
        /\ new.logCounter = counter /\ new.ordinal = st.ordinal + 1
        /\ new.messages = Append(st.messages, m) /\ new.inLog = st.inLog
    <3>. DEFINE longer == Append(st.messages, m)
                mid == [st EXCEPT !.logCounter = counter, !.ordinal = st.ordinal + 1]
    <3>0. st.ordinal + 1 \in Nat /\ st.messages \in Q
      BY <1>1
    <3>1. /\ mid \in [inLog : BOOLEAN, logCounter : C, ordinal : Nat, messages : Q,
                      timeout : BOOLEAN, calledAgain : BOOLEAN]
          /\ mid.logCounter = counter /\ mid.ordinal = st.ordinal + 1
          /\ mid.messages = st.messages /\ mid.inLog = st.inLog
      BY <1>1, <2>2, <3>0
    <3>2. new = [mid EXCEPT !.messages = Append(mid.messages, m), !.timeout = TRUE, !.calledAgain = mid.timeout]
      BY <2>3 DEF SendDebounced
    <3>3. longer \in Q
      BY <2>4
    <3>. HIDE DEF mid
    <3>4. Append(mid.messages, m) = longer
      BY <3>1
    <3>. HIDE DEF longer
    <3>5. new = [mid EXCEPT !.messages = longer, !.timeout = TRUE, !.calledAgain = mid.timeout]
      BY <3>2, <3>4
    <3>. HIDE DEF new
    <3>6. /\ new \in [inLog : BOOLEAN, logCounter : C, ordinal : Nat, messages : Q,
                      timeout : BOOLEAN, calledAgain : BOOLEAN]
          /\ new.logCounter = mid.logCounter /\ new.ordinal = mid.ordinal
          /\ new.messages = longer /\ new.inLog = mid.inLog
      BY <3>1, <3>3, <3>5
    <3>. QED BY <3>1, <3>6 DEF longer
  <2>. HIDE DEF new
  <2>6. /\ passed \o new.messages = Append(all, m) /\ all \in Seq(M) /\ Len(all) = st.ordinal
        /\ Len(new.messages) = Len(st.messages) + 1
    <3>1. passed \in Seq(M) /\ st.messages \in Seq(M)
      BY <1>1 DEF M, Q
    <3>2. passed \o Append(st.messages, m) = Append(all, m) /\ all \in Seq(M)
          /\ Len(all) = Len(passed) + Len(st.messages)
      BY <2>1, <3>1, AppendedTo
    <3>. QED BY <1>1, <2>5, <3>1, <3>2
  <2>. HIDE DEF all
  <2>7. Len(passed) + Len(new.messages) = new.ordinal
    <3>1. Len(passed) \in Nat /\ Len(st.messages) \in Nat
      BY <1>1 DEF Q
    <3>. QED BY <1>1, <2>5, <2>6, <3>1
  <2>8. \A i \in 1 .. new.ordinal : (passed \o new.messages)[i].ordinal = i
    <3>1. \A i \in 1 .. st.ordinal : Append(all, m)[i] = all[i]
      BY <2>6
    <3>2. Append(all, m)[st.ordinal + 1] = m
      BY <2>6
    <3>. QED BY <1>1, <2>1, <2>5, <2>6, <3>1, <3>2
  <2>9. Of(st.logCounter, k) + 1 <= maxLogCount
    BY <1>1, <1>2, <1>3, <1>4, <1>7 DEF OverLimit
  <2>10. \A key \in Keys(U) : /\ Count(passed \o new.messages, key) = Of(new.logCounter, key)
                              /\ Of(new.logCounter, key) <= maxLogCount
    <3>. SUFFICES ASSUME NEW key \in Keys(U)
         PROVE  /\ Count(passed \o new.messages, key) = Of(new.logCounter, key)
                /\ Of(new.logCounter, key) <= maxLogCount
      OBVIOUS
    <3>1. Count(Append(all, m), key) = IF KeyOf(m) = key THEN Count(all, key) + 1 ELSE Count(all, key)
      BY <2>1, <2>6, CountOfAppend
    <3>. QED BY <1>1, <2>1, <2>2, <2>5, <2>6, <2>9, <3>1
  <2>11. Logged(U, passed, new)
    <3>1. new \in Closures(U) /\ passed \in Seq(PageMessages(U))
      BY <1>1, <2>5 DEF Closures, C, Q
    <3>. QED BY <2>7, <2>8, <2>10, <3>1 DEF Logged
  <2>12. Capped(Of(st.logCounter, k) + 1) = Of(st.logCounter, k) + 1
    BY <1>3, <1>4, <2>9 DEF Capped
  <2>13. \A key \in Keys(U) :
           Of(new.logCounter, key) =
             IF ~st.inLog /\ key = k THEN Capped(Of(st.logCounter, key) + 1)
             ELSE Of(st.logCounter, key)
    BY <1>7, <2>2, <2>5, <2>12
  <2>. QED BY <2>5, <2>11, <2>13 DEF new, k
<1>. QED BY <1>5, <1>6, <1>7

(* The ways through the layers: each of them once.                         *)
Ways(layers) ==
    {order \in Seq(DOMAIN layers) :
       /\ Len(order) = Len(layers)
       /\ \A i, j \in DOMAIN order : order[i] = order[j] => i = j
       /\ \E i \in DOMAIN order : order[i] = Len(layers)}

LEMMA BothWays ==
  ASSUME NEW S, NEW layers \in Seq(S), layers # <<>>
  PROVE  Inwards(layers) \in Ways(layers) /\ Outwards(layers) \in Ways(layers)
<1>. DEFINE n == Len(layers)
            a == Inwards(layers)
            b == Outwards(layers)
<1>1. n \in Nat /\ n > 0 /\ DOMAIN layers = 1 .. n
  OBVIOUS
<1>2. a = [i \in 1 .. n |-> n + 1 - i] /\ b = [i \in 1 .. n |-> i]
  BY <1>1 DEF Inwards, Outwards
<1>. HIDE DEF n, a, b
<1>3. a \in [1 .. n -> 1 .. n] /\ b \in [1 .. n -> 1 .. n]
  BY <1>1, <1>2
<1>4. /\ a \in Seq(1 .. n) /\ Len(a) = n /\ DOMAIN a = 1 .. n
      /\ b \in Seq(1 .. n) /\ Len(b) = n /\ DOMAIN b = 1 .. n
  <2>. DEFINE D == 1 .. n
  <2>1. a \in [1 .. n -> D] /\ b \in [1 .. n -> D]
    BY <1>3
  <2>. HIDE DEF D
  <2>2. a \in Seq(D) /\ b \in Seq(D)
    BY <1>1, <2>1
  <2>3. Len(a) = n /\ Len(b) = n
    BY <1>1, <2>1
  <2>. QED BY <2>1, <2>2, <2>3 DEF D
<1>5. 1 \in 1 .. n /\ n \in 1 .. n /\ a[1] = n /\ b[n] = n
  BY <1>1, <1>2
<1>6. /\ \A i, j \in 1 .. n : a[i] = a[j] => i = j
      /\ \A i, j \in 1 .. n : b[i] = b[j] => i = j
  BY <1>1, <1>2
<1>. QED BY <1>1, <1>4, <1>5, <1>6 DEF Ways, n, a, b

(* An access that goes through all layers is recorded once for the script, *)
(* and one of the page script for no other.                                *)
LEMMA LogLayersIs ==
  ASSUME NEW U, NEW passed, NEW st, Logged(U, passed, st),
         NEW S, NEW layers \in Seq(S), layers # <<>>, \A x \in S : Symbol(x) \in U,
         NEW order \in Ways(layers), NEW logging, NEW by \in Callers
  PROVE  LET new == LogLayers(st, layers, order, logging, by)
             k == <<by, Symbol(Last(layers))>>
         IN /\ Logged(U, passed, new)
            /\ new.inLog = st.inLog
            /\ k \in Callers \X U
            /\ \A key \in Scripts \X U :
                 Of(new.logCounter, key) =
                   IF ~st.inLog /\ key = k /\ Len(layers) \in logging
                   THEN Capped(Of(st.logCounter, key) + 1)
                   ELSE Of(st.logCounter, key)
<1>. DEFINE N == Len(order)
            one(n, x) == IF order[n] \in logging
                         THEN Log(x, CallerOf(layers, order[n], by), Symbol(layers[order[n]]))
                         ELSE x
            Logs(g) == [n \in 0 .. N |-> IF n = 0 THEN st ELSE one(n, g[n - 1])]
            g == CHOOSE h : h = Logs(h)
            V == {x \in Closures(U) : Logged(U, passed, x)}
            k == <<by, Symbol(Last(layers))>>
            sym(n) == Symbol(layers[order[n]])
            caller(n) == CallerOf(layers, order[n], by)
<1>0. LogLayers(st, layers, order, logging, by) = g[N]
  BY DEF LogLayers
<1>1. /\ Len(layers) \in Nat /\ Len(layers) > 0 /\ DOMAIN layers = 1 .. Len(layers)
      /\ \A i \in DOMAIN layers : layers[i] \in S
  OBVIOUS
<1>2. /\ N = Len(layers) /\ N \in Nat /\ DOMAIN order = 1 .. N
      /\ \A n \in 1 .. N : order[n] \in DOMAIN layers
      /\ \A i, j \in 1 .. N : order[i] = order[j] => i = j
      /\ \E i \in 1 .. N : order[i] = N
  <2>1. /\ order \in Seq(DOMAIN layers) /\ N = Len(layers)
        /\ \A i, j \in DOMAIN order : order[i] = order[j] => i = j
        /\ \E i \in DOMAIN order : order[i] = N
    BY DEF Ways
  <2>2. /\ N \in Nat /\ DOMAIN order = 1 .. N
        /\ \A n \in 1 .. N : order[n] \in DOMAIN layers
    BY <2>1
  <2>. HIDE DEF N
  <2>. QED BY <2>1, <2>2
<1>3. PICK last \in 1 .. N : order[last] = N
  BY <1>2
<1>4. \A n \in 1 .. N : /\ caller(n) \in Callers /\ sym(n) \in U
                        /\ n = last => caller(n) = by /\ sym(n) = k[2]
                        /\ n # last => caller(n) = OwnScript
  <2>1. \A n \in 1 .. N : sym(n) \in U
    BY <1>1, <1>2
  <2>2. \A n \in 1 .. N : (order[n] = Len(layers)) = (n = last)
    BY <1>2, <1>3
  <2>3. Last(layers) = layers[Len(layers)]
    BY DEF Last
  <2>. QED BY <1>2, <1>3, <2>1, <2>2, <2>3 DEF CallerOf, Callers
<1>5. k \in Callers \X U
  BY <1>3, <1>4
<1>6. OwnScript \notin Scripts
  BY PageScriptAssumption
<1>7. st \in V
  BY DEF Logged
<1>. HIDE DEF N, sym, caller, k, g
<1>8. ASSUME NEW n \in 1 .. N, NEW x \in V
      PROVE  /\ one(n, x) \in V
             /\ one(n, x).inLog = x.inLog
             /\ \A key \in Scripts \X U :
                  Of(one(n, x).logCounter, key) =
                    IF ~x.inLog /\ key = k /\ n = last /\ N \in logging
                    THEN Capped(Of(x.logCounter, key) + 1)
                    ELSE Of(x.logCounter, key)
  <2>1. CASE order[n] \notin logging
    <3>1. one(n, x) = x
      BY <2>1
    <3>2. ~(n = last /\ N \in logging)
      BY <1>3, <2>1
    <3>. HIDE DEF V
    <3>. QED BY <3>1, <3>2
  <2>2. CASE order[n] \in logging
    <3>. DEFINE new == Log(x, caller(n), sym(n))
    <3>1. one(n, x) = new
      BY <2>2 DEF caller, sym
    <3>2. caller(n) \in Callers /\ sym(n) \in U
      BY <1>4
    <3>3. Logged(U, passed, x)
      OBVIOUS
    <3>4. /\ Logged(U, passed, new) /\ new.inLog = x.inLog
          /\ \A key \in Keys(U) :
               Of(new.logCounter, key) =
                 IF ~x.inLog /\ key = <<caller(n), sym(n)>> THEN Capped(Of(x.logCounter, key) + 1)
                 ELSE Of(x.logCounter, key)
      BY <3>2, <3>3, LogIs
    <3>5. \A key \in Scripts \X U : key \in Keys(U)
      BY DEF Keys, Callers
    <3>6. \A key \in Scripts \X U : (key = <<caller(n), sym(n)>>) = (n = last /\ key = k)
      <4>1. CASE n = last
        <5>1. <<caller(n), sym(n)>> = k
          BY <1>4, <4>1 DEF k
        <5>. QED BY <4>1, <5>1
      <4>2. CASE n # last
        BY <1>4, <1>6, <4>2
      <4>. QED BY <4>1, <4>2
    <3>7. n = last => N \in logging
      BY <1>3, <2>2
    <3>8. new \in V
      BY <3>4 DEF Logged
    <3>. HIDE DEF V, new, one
    <3>. QED BY <3>1, <3>4, <3>5, <3>6, <3>7, <3>8
  <2>. QED BY <2>1, <2>2
<1>. HIDE DEF one, V
<1>9. g = Logs(g)
  <2>. DEFINE step == [n \in 1 .. N |-> [x \in V |-> one(n, x)]]
  <2>1. step \in Steps(N, V)
    BY <1>8 DEF Steps
  <2>2. \A n \in 1 .. N, x \in V : step[n][x] = one(n, x)
    OBVIOUS
  <2>. HIDE DEF step
  <2>3. CanBeCarriedOn(N, V, st, step)
    BY <1>2, <1>7, <2>1, Iteration
  <2>4. PICK h \in [0 .. N -> V] : h[0] = st /\ \A n \in 1 .. N : h[n] = step[n][h[n - 1]]
    BY <2>3 DEF CanBeCarriedOn
  <2>5. ASSUME NEW n \in 0 .. N PROVE h[n] = IF n = 0 THEN st ELSE one(n, h[n - 1])
    <3>1. CASE n # 0
      <4>1. n \in 1 .. N /\ n - 1 \in 0 .. N
        BY <1>2, <3>1
      <4>2. h[n] = step[n][h[n - 1]] /\ h[n - 1] \in V
        BY <2>4, <4>1
      <4>. QED BY <2>2, <3>1, <4>1, <4>2
    <3>. QED BY <2>4, <3>1
  <2>6. h = Logs(h)
    BY <2>5
  <2>. QED BY <2>6 DEF g, one
<1>10. g[0] = st /\ \A n \in 1 .. N : g[n] = one(n, g[n - 1])
  <2>1. \A n \in 0 .. N : g[n] = IF n = 0 THEN st ELSE one(n, g[n - 1])
    BY <1>9
  <2>2. \A n \in 1 .. N : n \in 0 .. N /\ n # 0
    BY <1>2
  <2>3. 0 \in 0 .. N
    BY <1>2
  <2>4. g[0] = st
    BY <2>1, <2>3
  <2>. QED BY <2>1, <2>2, <2>4
<1>. DEFINE Fine(n) ==
              /\ g[n] \in V /\ g[n].inLog = st.inLog
              /\ \A key \in Scripts \X U :
                   Of(g[n].logCounter, key) =
                     IF ~st.inLog /\ key = k /\ N \in logging /\ last <= n
                     THEN Capped(Of(st.logCounter, key) + 1)
                     ELSE Of(st.logCounter, key)
            G == {n \in 0 .. N : Fine(n)}
<1>11. 0 \in G
  <2>1. ~(last <= 0) /\ 0 \in 0 .. N
    BY <1>2, <1>3
  <2>2. g[0] = st
    BY <1>10
  <2>. QED BY <1>7, <2>1, <2>2
<1>12. ASSUME NEW n \in 1 .. N, n - 1 \in G PROVE n \in G
  <2>. DEFINE x == g[n - 1]
  <2>1. /\ x \in V /\ x.inLog = st.inLog
        /\ \A key \in Scripts \X U :
             Of(x.logCounter, key) =
               IF ~st.inLog /\ key = k /\ N \in logging /\ last <= n - 1
               THEN Capped(Of(st.logCounter, key) + 1)
               ELSE Of(st.logCounter, key)
    BY <1>12
  <2>2. g[n] = one(n, x)
    BY <1>10
  <2>. HIDE DEF x
  <2>3. /\ g[n] \in V /\ g[n].inLog = x.inLog
        /\ \A key \in Scripts \X U :
             Of(g[n].logCounter, key) =
               IF ~x.inLog /\ key = k /\ n = last /\ N \in logging
               THEN Capped(Of(x.logCounter, key) + 1)
               ELSE Of(x.logCounter, key)
    BY <1>8, <2>1, <2>2
  <2>4. (last <= n) = (last <= n - 1 \/ n = last) /\ ~(last <= n - 1 /\ n = last)
    BY <1>2, <1>3
  <2>5. Fine(n)
    BY <2>1, <2>3, <2>4
  <2>6. n \in 0 .. N
    BY <1>2
  <2>. HIDE DEF Fine
  <2>. QED BY <2>5, <2>6
<1>13. 0 .. N \subseteq G
  <2>. HIDE DEF G
  <2>. QED BY <1>2, <1>11, <1>12, Upwards
<1>14. Fine(N) /\ last <= N
  <2>. HIDE DEF Fine
  <2>. QED BY <1>2, <1>3, <1>13
<1>15. Logged(U, passed, g[N])
  BY <1>14 DEF V
<1>. QED BY <1>0, <1>2, <1>5, <1>14, <1>15 DEF k

(* A read through no layers logs nothing.                                  *)
LEMMA NoLayers ==
  ASSUME NEW st, NEW logging, NEW by
  PROVE  LogLayers(st, <<>>, <<>>, logging, by) = st
<1>. DEFINE one(n, x) == IF <<>>[n] \in logging
                         THEN Log(x, CallerOf(<<>>, <<>>[n], by), Symbol(<<>>[<<>>[n]]))
                         ELSE x
            Logs(g) == [n \in 0 .. Len(<<>>) |-> IF n = 0 THEN st ELSE one(n, g[n - 1])]
            g == CHOOSE h : h = Logs(h)
<1>1. LogLayers(st, <<>>, <<>>, logging, by) = g[0]
  BY DEF LogLayers
<1>. DEFINE h == [n \in 0 .. 0 |-> st]
<1>. HIDE DEF one
<1>2. Logs(h) = h
  <2>1. Logs(h) = [n \in 0 .. 0 |-> IF n = 0 THEN st ELSE one(n, h[n - 1])]
    OBVIOUS
  <2>2. \A n \in 0 .. 0 : n = 0
    OBVIOUS
  <2>. QED BY <2>1, <2>2
<1>3. g = Logs(g)
  <2>. HIDE DEF Logs, h
  <2>. QED BY <1>2
<1>. HIDE DEF g
<1>. QED BY <1>1, <1>3

(* The page so far: what was logged is numbered and counted, and is what   *)
(* the accesses are due, up to the limit; inLog is set just after a write  *)
(* that was refused.                                                       *)
Symbols(r) == {Symbol(x) : x \in ToSet(InstrumentJS(Cleaned(r)))}
RecordInvAt(U) ==
    /\ received \in Seq(PageMessages(U)) /\ wire \in Seq(PageMessages(U))
    /\ Logged(U, received \o wire, script)
    /\ due \in Counters(Scripts \X U)
    /\ refused \in BOOLEAN /\ script.inLog = refused
    /\ \A key \in Scripts \X U : Of(script.logCounter, key) = Capped(Of(due, key))
RecordInv == RecordInvAt(Symbols(requests)) /\ (loaded = "new" => ~refused)

LEMMA CappedAgain ==
  ASSUME NEW n \in Nat
  PROVE  Capped(Capped(n) + 1) = Capped(n + 1) /\ Capped(n) \in Nat
BY PageScriptAssumption DEF Capped

LEMMA LayersInAre ==
  ASSUME NEW S, NEW s \in Seq(S), NEW o, NEW p
  PROVE  /\ LayersIn(s, o, p) \in Seq(S)
         /\ (\E i \in DOMAIN s : s[i].object = o /\ s[i].property = p) => LayersIn(s, o, p) # <<>>
<1>. DEFINE places == {i \in DOMAIN s : s[i].object = o /\ s[i].property = p}
            layers == Only(s, places)
<1>1. LayersIn(s, o, p) = layers
  BY DEF LayersIn
<1>2. places \subseteq DOMAIN s
  OBVIOUS
<1>3. (\E i \in DOMAIN s : s[i].object = o /\ s[i].property = p) => places # {}
  OBVIOUS
<1>. HIDE DEF places
<1>4. layers \in Seq(S) /\ ToSet(layers) = {s[i] : i \in DOMAIN s \cap places}
  BY Picked
<1>. HIDE DEF layers
<1>5. ASSUME places # {} PROVE layers # <<>>
  <2>1. PICK i \in places : i \in DOMAIN s
    BY <1>2, <1>5
  <2>2. s[i] \in ToSet(layers)
    BY <1>4, <2>1
  <2>3. ToSet(<<>>) = {}
    BY DEF ToSet
  <2>. QED BY <2>2, <2>3
<1>. QED BY <1>1, <1>3, <1>4, <1>5

LEMMA LayersAre ==
  ASSUME PiecesInv, loaded # "new", NEW o, NEW p
  PROVE  /\ Layers(o, p) \in Seq(ToSet(pieces))
         /\ Watched(o, p) => Layers(o, p) # <<>>
         /\ \A x \in ToSet(pieces) : Symbol(x) \in Symbols(requests)
<1>1. pieces \in Seq(ToSet(pieces)) /\ ToSet(pieces) \subseteq ToSet(Inserted)
  BY PiecesAre
<1>2. Layers(o, p) \in Seq(ToSet(pieces)) /\ (Watched(o, p) => Layers(o, p) # <<>>)
  BY <1>1, LayersInAre DEF Layers, Watched
<1>3. \A x \in ToSet(pieces) : Symbol(x) \in Symbols(requests)
  BY <1>1 DEF Symbols, Inserted
<1>. QED BY <1>2, <1>3

(* n accesses that are due, of which as many are logged one by one.        *)
LEMMA DueIsRecorded ==
  ASSUME NEW U, RecordInvAt(U), NEW k \in Scripts \X U, NEW n \in Nat,
         due' = IF refused' THEN due ELSE Bump(due, k, n), wire' = wire, received' = received,
         Logged(U, received \o wire, script'), refused' \in BOOLEAN, script'.inLog = refused',
         \A key \in Scripts \X U :
           Of(script'.logCounter, key) =
             IF ~refused' /\ key = k THEN Capped(Of(due, k) + n) ELSE Capped(Of(due, key))
  PROVE  RecordInvAt(U)'
<1>1. due \in Counters(Scripts \X U)
  BY DEF RecordInvAt
<1>2. /\ due' \in Counters(Scripts \X U)
      /\ \A key : Of(due', key) = IF ~refused' /\ key = k THEN Of(due, k) + n ELSE Of(due, key)
  BY <1>1, BumpIs
<1>3. \A key \in Scripts \X U : Of(script'.logCounter, key) = Capped(Of(due', key))
  BY <1>2
<1>. QED BY <1>2, <1>3 DEF RecordInvAt

(* A read is recorded as it is due.                                        *)
LEMMA GetRecorded ==
  ASSUME PiecesInv, NEW U, U = Symbols(requests), RecordInvAt(U),
         NEW o, NEW p, NEW by \in Scripts, Get(o, p, by)
  PROVE  RecordInvAt(U)'
<1>. DEFINE layers == Layers(o, p)
            S == ToSet(pieces)
            type == TypeOf(o, p, value[o][p])
            st == script
            new == script'
            k == <<by, Symbol(Last(layers))>>
            logging == Reading(layers, type)
            n == IF LogsGet(Last(layers), type) THEN 1 ELSE 0
<1>0. by \in Callers /\ k[1] \in Scripts
  BY DEF Callers
<1>1. loaded # "new" /\ layers # <<>>
  BY LayersAre DEF Get, Access
<1>2. layers \in Seq(S) /\ \A x \in S : Symbol(x) \in U
  BY <1>1, LayersAre
<1>3. /\ new = LogLayers(st, layers, Outwards(layers), logging, by)
      /\ due' = IF refused' THEN due ELSE Bump(due, k, n)
      /\ refused' = refused /\ wire' = wire /\ received' = received
  BY DEF Get, LogGet, Owed, channel
<1>4. Outwards(layers) \in Ways(layers)
  BY <1>1, <1>2, BothWays
<1>5. Len(layers) \in logging <=> n = 1
  <2>1. Len(layers) \in DOMAIN layers
    BY <1>1, <1>2
  <2>2. Last(layers) = layers[Len(layers)]
    BY DEF Last
  <2>. QED BY <2>1, <2>2 DEF Reading
<1>6. n \in {0, 1}
  OBVIOUS
<1>. HIDE DEF n, logging, layers, S
<1>7. /\ Logged(U, received \o wire, new) /\ new.inLog = st.inLog /\ k \in Scripts \X U
      /\ \A key \in Scripts \X U :
           Of(new.logCounter, key) =
             IF ~st.inLog /\ key = k /\ Len(layers) \in logging
             THEN Capped(Of(st.logCounter, key) + 1)
             ELSE Of(st.logCounter, key)
  <2>1. Logged(U, received \o wire, st)
    BY DEF RecordInvAt
  <2>. HIDE DEF new, k
  <2>2. k \in Callers \X U /\ k[1] \in Scripts => k \in Scripts \X U
    OBVIOUS
  <2>. QED BY <1>0, <1>1, <1>2, <1>3, <1>4, <2>1, <2>2, LogLayersIs DEF k
<1>. HIDE DEF k
<1>8. \A key : Of(due, key) \in Nat
  BY OfCounter DEF RecordInvAt
<1>9. ASSUME NEW key \in Scripts \X U
      PROVE  Of(new.logCounter, key) =
               IF ~refused' /\ key = k THEN Capped(Of(due, k) + n) ELSE Capped(Of(due, key))
  <2>1. Of(st.logCounter, key) = Capped(Of(due, key)) /\ refused' = st.inLog
    BY <1>3 DEF RecordInvAt
  <2>2. Capped(Capped(Of(due, key)) + 1) = Capped(Of(due, key) + 1)
    BY <1>8, CappedAgain
  <2>3. Of(due, key) + 0 = Of(due, key)
    BY <1>8
  <2>. QED BY <1>5, <1>6, <1>7, <2>1, <2>2, <2>3
<1>10. refused' \in BOOLEAN /\ new.inLog = refused'
  BY <1>3, <1>7 DEF RecordInvAt
<1>. QED BY <1>3, <1>6, <1>7, <1>9, <1>10, DueIsRecorded

(* A write is recorded as it is due.                                       *)
LEMMA ResumedIs ==
  ASSUME NEW U, NEW passed, NEW st, Logged(U, passed, st)
  PROVE  /\ Logged(U, passed, Resumed(st))
         /\ Resumed(st).inLog = FALSE /\ Resumed(st).logCounter = st.logCounter
<1>. DEFINE C == Counters(Keys(U))
            Q == Seq(PageMessages(U))
            new == Resumed(st)
<1>1. st \in [inLog : BOOLEAN, logCounter : C, ordinal : Nat, messages : Q,
              timeout : BOOLEAN, calledAgain : BOOLEAN]
  BY DEF Logged, Closures
<1>. HIDE DEF C, Q
<1>2. /\ new \in [inLog : BOOLEAN, logCounter : C, ordinal : Nat, messages : Q,
                   timeout : BOOLEAN, calledAgain : BOOLEAN]
      /\ new.inLog = FALSE /\ new.logCounter = st.logCounter
      /\ new.ordinal = st.ordinal /\ new.messages = st.messages
  BY <1>1 DEF Resumed
<1>. QED BY <1>2 DEF Logged, Closures, C, Q

LEMMA SetRecorded ==
  ASSUME PiecesInv, NEW U, U = Symbols(requests), RecordInvAt(U),
         NEW o, NEW p, NEW by \in Scripts, NEW this, Set(o, p, by, this)
  PROVE  RecordInvAt(U)'
<1>. DEFINE layers == Layers(o, p)
            S == ToSet(pieces)
            st == IF WritesValue(o, p) THEN Resumed(script) ELSE script
            new == script'
            k == <<by, Symbol(Last(layers))>>
<1>0. by \in Callers /\ k[1] \in Scripts
  BY DEF Callers
<1>1. loaded # "new" /\ layers # <<>>
  BY LayersAre DEF Set, Access
<1>2. layers \in Seq(S) /\ \A x \in S : Symbol(x) \in U
  BY <1>1, LayersAre
<1>3. /\ new = LogLayers(st, layers, Outwards(layers), DOMAIN layers, by)
      /\ due' = IF refused' THEN due ELSE Bump(due, k, 1)
      /\ refused' = (refused /\ ~WritesValue(o, p)) /\ wire' = wire /\ received' = received
  BY DEF Set, LogSet, Owed, channel
<1>4. Outwards(layers) \in Ways(layers)
  BY <1>1, <1>2, BothWays
<1>5. Len(layers) \in DOMAIN layers
  BY <1>1, <1>2
<1>6. /\ Logged(U, received \o wire, st) /\ st.logCounter = script.logCounter
      /\ st.inLog = refused' /\ refused' \in BOOLEAN
  <2>1. Logged(U, received \o wire, script) /\ script.inLog = refused /\ refused \in BOOLEAN
    BY DEF RecordInvAt
  <2>2. /\ Logged(U, received \o wire, Resumed(script))
        /\ Resumed(script).inLog = FALSE /\ Resumed(script).logCounter = script.logCounter
    BY <2>1, ResumedIs
  <2>3. CASE WritesValue(o, p)
    BY <1>3, <2>2, <2>3
  <2>4. CASE ~WritesValue(o, p)
    BY <1>3, <2>1, <2>4
  <2>. QED BY <2>3, <2>4
<1>. HIDE DEF layers, S, st
<1>7. /\ Logged(U, received \o wire, new) /\ new.inLog = st.inLog /\ k \in Scripts \X U
      /\ \A key \in Scripts \X U :
           Of(new.logCounter, key) =
             IF ~st.inLog /\ key = k /\ Len(layers) \in DOMAIN layers
             THEN Capped(Of(st.logCounter, key) + 1)
             ELSE Of(st.logCounter, key)
  <2>. HIDE DEF new, k
  <2>1. k \in Callers \X U /\ k[1] \in Scripts => k \in Scripts \X U
    OBVIOUS
  <2>. QED BY <1>0, <1>1, <1>2, <1>3, <1>4, <1>6, <2>1, LogLayersIs DEF k
<1>. HIDE DEF k
<1>8. \A key : Of(due, key) \in Nat
  BY OfCounter DEF RecordInvAt
<1>9. ASSUME NEW key \in Scripts \X U
      PROVE  Of(new.logCounter, key) =
               IF ~refused' /\ key = k THEN Capped(Of(due, k) + 1) ELSE Capped(Of(due, key))
  <2>1. Of(st.logCounter, key) = Capped(Of(due, key))
    BY <1>6 DEF RecordInvAt
  <2>2. Capped(Capped(Of(due, key)) + 1) = Capped(Of(due, key) + 1)
    BY <1>8, CappedAgain
  <2>. QED BY <1>5, <1>6, <1>7, <2>1, <2>2
<1>. QED BY <1>3, <1>6, <1>7, <1>9, DueIsRecorded

(* A call is due once, and once more where the read of the function is     *)
(* logged.                                                                 *)
LEMMA CallRecorded ==
  ASSUME PiecesInv, NEW U, U = Symbols(requests), RecordInvAt(U),
         NEW o, NEW p, NEW by \in Scripts, Call(o, p, by)
  PROVE  RecordInvAt(U)'
<1>. DEFINE layers == Layers(o, p)
            S == ToSet(pieces)
            st == script
            new == script'
            k == <<by, Symbol(Last(layers))>>
            logging == Reading(layers, "function")
            read == LogLayers(st, layers, Outwards(layers), logging, by)
            n == IF LogsGet(Last(layers), "function") THEN 2 ELSE 1
<1>0. by \in Callers /\ k[1] \in Scripts
  BY DEF Callers
<1>1. loaded # "new" /\ layers # <<>>
  BY LayersAre DEF Call, Access
<1>2. layers \in Seq(S) /\ \A x \in S : Symbol(x) \in U
  BY <1>1, LayersAre
<1>3. /\ new = LogLayers(read, layers, Inwards(layers), DOMAIN layers, by)
      /\ due' = IF refused' THEN due ELSE Bump(due, k, n)
      /\ refused' = refused /\ wire' = wire /\ received' = received
  BY DEF Call, LogGet, Owed, channel
<1>4. Outwards(layers) \in Ways(layers) /\ Inwards(layers) \in Ways(layers)
  BY <1>1, <1>2, BothWays
<1>5. Len(layers) \in DOMAIN layers
  BY <1>1, <1>2
<1>6. Len(layers) \in logging <=> n = 2
  <2>1. Last(layers) = layers[Len(layers)]
    BY DEF Last
  <2>. QED BY <1>5, <2>1 DEF Reading
<1>7. n \in {1, 2}
  OBVIOUS
<1>8. read = LogLayers(st, layers, Outwards(layers), logging, by)
  OBVIOUS
<1>. HIDE DEF n, read, logging, layers, S
<1>9. /\ Logged(U, received \o wire, read) /\ read.inLog = st.inLog /\ k \in Scripts \X U
      /\ \A key \in Scripts \X U :
           Of(read.logCounter, key) =
             IF ~st.inLog /\ key = k /\ Len(layers) \in logging
             THEN Capped(Of(st.logCounter, key) + 1)
             ELSE Of(st.logCounter, key)
  <2>1. Logged(U, received \o wire, st)
    BY DEF RecordInvAt
  <2>. HIDE DEF k
  <2>2. k \in Callers \X U /\ k[1] \in Scripts => k \in Scripts \X U
    OBVIOUS
  <2>. QED BY <1>0, <1>1, <1>2, <1>4, <1>8, <2>1, <2>2, LogLayersIs DEF k
<1>10. /\ Logged(U, received \o wire, new) /\ new.inLog = read.inLog
       /\ \A key \in Scripts \X U :
            Of(new.logCounter, key) =
              IF ~read.inLog /\ key = k /\ Len(layers) \in DOMAIN layers
              THEN Capped(Of(read.logCounter, key) + 1)
              ELSE Of(read.logCounter, key)
  <2>. HIDE DEF new, k
  <2>. QED BY <1>0, <1>1, <1>2, <1>3, <1>4, <1>9, LogLayersIs DEF k
<1>. HIDE DEF k
<1>11. \A key : Of(due, key) \in Nat
  BY OfCounter DEF RecordInvAt
<1>12. ASSUME NEW key \in Scripts \X U
       PROVE  Of(new.logCounter, key) =
                IF ~refused' /\ key = k THEN Capped(Of(due, k) + n) ELSE Capped(Of(due, key))
  <2>1. Of(st.logCounter, key) = Capped(Of(due, key)) /\ refused' = st.inLog
    BY <1>3 DEF RecordInvAt
  <2>2. /\ Capped(Capped(Of(due, key)) + 1) = Capped(Of(due, key) + 1)
        /\ Capped(Capped(Of(due, key) + 1) + 1) = Capped((Of(due, key) + 1) + 1)
    BY <1>11, CappedAgain
  <2>3. (Of(due, key) + 1) + 1 = Of(due, key) + 2
    BY <1>11
  <2>4. CASE key # k \/ st.inLog
    BY <1>9, <1>10, <2>1, <2>4
  <2>5. CASE ~st.inLog /\ key = k /\ n = 1
    BY <1>5, <1>6, <1>9, <1>10, <2>1, <2>2, <2>5
  <2>6. CASE ~st.inLog /\ key = k /\ n = 2
    <3>1. Of(read.logCounter, key) = Capped(Of(due, key) + 1)
      BY <1>6, <1>9, <2>1, <2>2, <2>6
    <3>2. Of(new.logCounter, key) = Capped(Capped(Of(due, key) + 1) + 1)
      BY <1>5, <1>9, <1>10, <2>6, <3>1
    <3>. QED BY <2>1, <2>2, <2>3, <2>6, <3>2
  <2>. QED BY <1>7, <2>4, <2>5, <2>6
<1>13. refused' \in BOOLEAN /\ new.inLog = refused'
  BY <1>3, <1>9, <1>10 DEF RecordInvAt
<1>. QED BY <1>3, <1>7, <1>9, <1>10, <1>12, <1>13, DueIsRecorded

(* What the page script reads itself while it instruments is recorded for  *)
(* no other script.                                                        *)
LEMMA OwnReadsRecorded ==
  ASSUME PiecesInv, NEW U, U = Symbols(requests), RecordInvAt(U), InsertScript, ~refused
  PROVE  RecordInvAt(U)'
<1>. DEFINE steps == Inserted
            N == Len(steps)
            passed == received \o wire
            Layered(n) == LayersIn(ReplacedBy(steps, n), steps[n].object, steps[n].property)
            Type(n) == TypeOf(steps[n].object, steps[n].property, 0)
            one(n, x) == IF steps[n].act = "read" THEN LogGet(x, Layered(n), Type(n), OwnScript) ELSE x
            Logs(g) == [n \in 0 .. N |-> IF n = 0 THEN script ELSE one(n, g[n - 1])]
            g == CHOOSE h : h = Logs(h)
            Same(x) == /\ Logged(U, passed, x) /\ x.inLog = FALSE
                       /\ \A key \in Scripts \X U :
                            Of(x.logCounter, key) = Of(script.logCounter, key)
            V == {x \in Closures(U) : Same(x)}
<1>1. /\ script' = ReadsItself(steps) /\ wire' = wire /\ received' = received
      /\ due' = due /\ refused' = refused
  BY DEF InsertScript, channel, history
<1>2. ReadsItself(steps) = g[N]
  BY DEF ReadsItself
<1>3. /\ steps \in Seq(ToSet(steps)) /\ N \in Nat
      /\ \A x \in ToSet(steps) : Symbol(x) \in U
  <2>1. steps \in Seq(ToSet(steps))
    BY InstrumentJSIs DEF PiecesInv, Inserted
  <2>2. \A x \in ToSet(steps) : Symbol(x) \in U
    BY DEF Symbols, Inserted
  <2>. HIDE DEF steps
  <2>. QED BY <2>1, <2>2
<1>4. script \in V
  BY DEF RecordInvAt, Logged
<1>5. OwnScript \in Callers /\ OwnScript \notin Scripts
  BY PageScriptAssumption DEF Callers
<1>. HIDE DEF steps, N, g
<1>6. ASSUME NEW n \in 1 .. N, NEW x \in V
      PROVE  one(n, x) \in V
  <2>1. CASE steps[n].act # "read"
    BY <2>1
  <2>2. CASE steps[n].act = "read"
    <3>. DEFINE layers == Layered(n)
                logging == Reading(layers, Type(n))
                S == ToSet(steps)
    <3>1. one(n, x) = LogLayers(x, layers, Outwards(layers), logging, OwnScript)
      BY <2>2 DEF LogGet
    <3>2. layers \in Seq(S)
      <4>1. n \in 0 .. N
        BY <1>3
      <4>2. ReplacedBy(steps, n) \in Seq(S)
        BY <1>3, <4>1, ReplacedIs DEF N
      <4>. HIDE DEF S
      <4>. QED BY <4>2, LayersInAre
    <3>3. \A y \in S : Symbol(y) \in U
      BY <1>3
    <3>. HIDE DEF layers, logging, S, one
    <3>4. CASE layers = <<>>
      <4>1. Outwards(layers) = <<>>
        BY <3>4 DEF Outwards
      <4>2. one(n, x) = x
        BY <3>1, <3>4, <4>1, NoLayers
      <4>. QED BY <4>2
    <3>5. CASE layers # <<>>
      <4>1. Outwards(layers) \in Ways(layers)
        BY <3>2, <3>5, BothWays
      <4>2. PICK y : y = LogLayers(x, layers, Outwards(layers), logging, OwnScript)
        OBVIOUS
      <4>3. Logged(U, passed, x) /\ x.inLog = FALSE
        OBVIOUS
      <4>4. PICK k : k = <<OwnScript, Symbol(Last(layers))>>
        OBVIOUS
      <4>5. /\ Logged(U, passed, y) /\ y.inLog = x.inLog
            /\ \A key \in Scripts \X U :
                 Of(y.logCounter, key) =
                   IF ~x.inLog /\ key = k /\ Len(layers) \in logging
                   THEN Capped(Of(x.logCounter, key) + 1)
                   ELSE Of(x.logCounter, key)
        BY <1>5, <3>2, <3>3, <3>5, <4>1, <4>2, <4>3, <4>4, LogLayersIs
      <4>6. \A key \in Scripts \X U : key # k
        BY <1>5, <4>4
      <4>7. y \in Closures(U)
        BY <4>5 DEF Logged
      <4>8. \A key \in Scripts \X U : Of(y.logCounter, key) = Of(script.logCounter, key)
        BY <4>5, <4>6
      <4>9. y \in V
        BY <4>3, <4>5, <4>7, <4>8
      <4>. QED BY <3>1, <4>2, <4>9
    <3>. QED BY <3>4, <3>5
  <2>. QED BY <2>1, <2>2
<1>. HIDE DEF one, V
<1>7. g = Logs(g)
  <2>. DEFINE step == [n \in 1 .. N |-> [x \in V |-> one(n, x)]]
  <2>1. step \in Steps(N, V)
    BY <1>6 DEF Steps
  <2>2. \A n \in 1 .. N, x \in V : step[n][x] = one(n, x)
    OBVIOUS
  <2>. HIDE DEF step
  <2>3. CanBeCarriedOn(N, V, script, step)
    BY <1>3, <1>4, <2>1, Iteration
  <2>4. PICK h \in [0 .. N -> V] : h[0] = script /\ \A n \in 1 .. N : h[n] = step[n][h[n - 1]]
    BY <2>3 DEF CanBeCarriedOn
  <2>5. ASSUME NEW n \in 0 .. N PROVE h[n] = IF n = 0 THEN script ELSE one(n, h[n - 1])
    <3>1. CASE n # 0
      <4>1. n \in 1 .. N /\ n - 1 \in 0 .. N
        BY <1>3, <3>1
      <4>2. h[n] = step[n][h[n - 1]] /\ h[n - 1] \in V
        BY <2>4, <4>1
      <4>. QED BY <2>2, <3>1, <4>1, <4>2
    <3>. QED BY <2>4, <3>1
  <2>6. h = Logs(h)
    BY <2>5
  <2>. QED BY <2>6 DEF g, one
<1>. DEFINE G == {n \in 0 .. N : g[n] \in V}
<1>8. \A n \in 0 .. N : g[n] = IF n = 0 THEN script ELSE one(n, g[n - 1])
  BY <1>7
<1>9. 0 \in G
  BY <1>3, <1>4, <1>8
<1>10. ASSUME NEW n \in 1 .. N, n - 1 \in G PROVE n \in G
  <2>1. n \in 0 .. N /\ n # 0 /\ g[n - 1] \in V
    BY <1>3, <1>10
  <2>. QED BY <1>6, <1>8, <2>1
<1>11. N \in G
  <2>. HIDE DEF G
  <2>1. 0 .. N \subseteq G
    BY <1>3, <1>9, <1>10, Upwards
  <2>2. N \in 0 .. N
    BY <1>3
  <2>. QED BY <2>1, <2>2
<1>12. script' \in V
  BY <1>1, <1>2, <1>11
<1>. QED BY <1>1, <1>12 DEF RecordInvAt, V

(* Messages change hands in their order.                                   *)
LEMMA Handed ==
  ASSUME NEW S, NEW a \in Seq(S), NEW b \in Seq(S), NEW c \in Seq(S)
  PROVE  /\ (a \o (b \o c)) \o <<>> = (a \o b) \o c
         /\ b # <<>> => Append(a, Head(b)) \o Tail(b) = a \o b
<1>. DEFINE l == a \o (b \o c)
            r == (a \o b) \o c
<1>1. /\ l \in Seq(S) /\ r \in Seq(S)
      /\ Len(l) = Len(a) + Len(b) + Len(c) /\ Len(r) = Len(a) + Len(b) + Len(c)
  OBVIOUS
<1>2. Len(a) \in Nat /\ Len(b) \in Nat /\ Len(c) \in Nat
  OBVIOUS
<1>3. ASSUME NEW i \in 1 .. Len(l) PROVE l[i] = r[i]
  <2>1. CASE i <= Len(a)
    BY <1>1, <1>2, <2>1
  <2>2. CASE Len(a) < i /\ i <= Len(a) + Len(b)
    BY <1>1, <1>2, <2>2
  <2>3. CASE Len(a) + Len(b) < i
    BY <1>1, <1>2, <2>3
  <2>. QED BY <1>1, <1>2, <2>1, <2>2, <2>3
<1>4. l = r
  <2>. HIDE DEF l, r
  <2>. QED BY <1>1, <1>3
<1>5. l \o <<>> = l
  <2>. HIDE DEF l
  <2>. QED BY <1>1
<1>6. ASSUME b # <<>> PROVE Append(a, Head(b)) \o Tail(b) = a \o b
  <2>1. /\ Append(a, Head(b)) \in Seq(S) /\ Tail(b) \in Seq(S)
        /\ Len(Append(a, Head(b))) = Len(a) + 1 /\ Len(Tail(b)) = Len(b) - 1
    BY <1>6
  <2>. DEFINE x == Append(a, Head(b)) \o Tail(b)
              y == a \o b
  <2>2. x \in Seq(S) /\ y \in Seq(S) /\ Len(x) = Len(y) /\ Len(y) = Len(a) + Len(b)
    BY <1>2, <2>1
  <2>3. ASSUME NEW i \in 1 .. Len(y) PROVE x[i] = y[i]
    <3>1. CASE i <= Len(a)
      BY <1>2, <1>6, <2>1, <2>2, <3>1
    <3>2. CASE i = Len(a) + 1
      BY <1>2, <1>6, <2>1, <2>2, <3>2
    <3>3. CASE Len(a) + 1 < i
      BY <1>2, <1>6, <2>1, <2>2, <3>3
    <3>. QED BY <1>2, <2>2, <3>1, <3>2, <3>3
  <2>. HIDE DEF x, y
  <2>4. x = y
    BY <2>2, <2>3
  <2>. QED BY <2>4 DEF x, y
<1>. QED BY <1>4, <1>5, <1>6

(* The inductive invariant of the records: every action of the page, the   *)
(* timers and the background page keeps numbers and counts in step with the*)
(* accesses.                                                               *)
LEMMA RecordInvariant == ScriptSpec => []RecordInv
<1>1. InitScript => RecordInv
  <2>. SUFFICES ASSUME InitScript PROVE RecordInv
    OBVIOUS
  <2>. DEFINE U == Symbols(requests)
  <2>1. /\ received = <<>> /\ wire = <<>> /\ due = [k \in {} |-> 0]
        /\ script = [inLog |-> FALSE, logCounter |-> [k \in {} |-> 0], ordinal |-> 0,
                     messages |-> <<>>, timeout |-> FALSE, calledAgain |-> FALSE]
        /\ refused = FALSE
    BY DEF InitScript
  <2>. HIDE DEF U
  <2>2. \A keys : [k \in {} |-> 0] \in Counters(keys)
    <3>1. [k \in {} |-> 0] \in [{} -> Nat]
      OBVIOUS
    <3>. QED BY <3>1 DEF Counters
  <2>3. script \in Closures(U)
    BY <2>1, <2>2 DEF Closures
  <2>4. \A key : Of([k \in {} |-> 0], key) = 0
    BY DEF Of
  <2>5. \A key : Count(<<>>, key) = 0
    BY FS_EmptySet DEF Count
  <2>6. received \o wire = <<>> /\ (received \o wire) \o script.messages = <<>>
    BY <2>1
  <2>7. Logged(U, received \o wire, script)
    <3>1. received \o wire \in Seq(PageMessages(U))
      BY <2>6
    <3>2. Len(received \o wire) + Len(script.messages) = script.ordinal
      BY <2>1, <2>6
    <3>3. \A i \in 1 .. script.ordinal : FALSE
      BY <2>1
    <3>4. \A key \in Keys(U) : /\ Count((received \o wire) \o script.messages, key) = Of(script.logCounter, key)
                               /\ Of(script.logCounter, key) <= maxLogCount
      BY <2>1, <2>4, <2>5, <2>6, PageScriptAssumption
    <3>. QED BY <2>3, <3>1, <3>2, <3>3, <3>4 DEF Logged
  <2>8. \A key : Of(script.logCounter, key) = Capped(Of(due, key))
    BY <2>1, <2>4, PageScriptAssumption DEF Capped
  <2>9. received \in Seq(PageMessages(U)) /\ wire \in Seq(PageMessages(U))
    BY <2>1
  <2>10. due \in Counters(Scripts \X U)
    BY <2>1, <2>2
  <2>11. refused \in BOOLEAN /\ script.inLog = refused /\ ~refused
    BY <2>1
  <2>12. RecordInvAt(U)
    BY <2>7, <2>8, <2>9, <2>10, <2>11 DEF RecordInvAt
  <2>. QED BY <2>11, <2>12 DEF RecordInv, U
<1>2. PiecesInv /\ RecordInv /\ [NextScript]_scriptVars => RecordInv'
  <2>. SUFFICES ASSUME PiecesInv, RecordInv, [NextScript]_scriptVars PROVE RecordInv'
    OBVIOUS
  <2>1. PICK U : U = Symbols(requests)
    OBVIOUS
  <2>2. RecordInvAt(U)
    BY <2>1 DEF RecordInv
  <2>. SUFFICES RecordInvAt(U)'
    <3>0. loaded' = "new" => loaded = "new" /\ refused' = refused
      BY DEF NextScript, InsertScript, Postpone, EmitMsg, HandleMessage, Leave, SetThrows, Get, Call,
             Set, SetAgain, scriptVars, Access, history
    <3>1. requests' = requests
      BY DEF NextScript, InsertScript, Postpone, EmitMsg, HandleMessage, Leave, SetThrows, Get, Call,
             Set, SetAgain, scriptVars, given
    <3>2. Symbols(requests)' = U
      BY <2>1, <3>1 DEF Symbols
    <3>. QED BY <3>0, <3>2 DEF RecordInv
  <2>3. CASE UNCHANGED <<script, wire, received, due, refused>>
    BY <2>2, <2>3 DEF RecordInvAt
  <2>4. CASE InsertScript \/ Leave
    <3>1. CASE Leave
      BY <2>3, <3>1 DEF Leave, channel, history
    <3>2. CASE InsertScript
      <4>1. ~refused
        BY <3>2 DEF RecordInv, InsertScript
      <4>. QED BY <2>1, <2>2, <3>2, <4>1, OwnReadsRecorded
    <3>. QED BY <2>4, <3>1, <3>2
  <2>5. CASE UNCHANGED scriptVars
    BY <2>3, <2>5 DEF scriptVars, channel, history
  <2>6. ASSUME NEW p \in Properties, SetAgain(p) PROVE RecordInvAt(U)'
    BY <2>3, <2>6 DEF SetAgain, channel
  <2>. DEFINE M == PageMessages(U)
              Q == Seq(PageMessages(U))
              C == Counters(Keys(U))
  <2>7. /\ received \in Q /\ wire \in Q /\ due \in Counters(Scripts \X U)
        /\ script \in [inLog : BOOLEAN, logCounter : C, ordinal : Nat, messages : Q,
                       timeout : BOOLEAN, calledAgain : BOOLEAN]
        /\ received \o wire \in Q
        /\ Logged(U, received \o wire, script)
        /\ refused \in BOOLEAN /\ script.inLog = refused
        /\ \A key \in Scripts \X U : Of(script.logCounter, key) = Capped(Of(due, key))
    BY <2>2 DEF RecordInvAt, Logged, Closures
  <2>8. CASE Postpone
    <3>1. /\ script' = [script EXCEPT !.calledAgain = FALSE]
          /\ wire' = wire /\ received' = received /\ due' = due /\ refused' = refused
      BY <2>8 DEF Postpone, channel, history
    <3>. HIDE DEF Q, C
    <3>2. /\ script' \in [inLog : BOOLEAN, logCounter : C, ordinal : Nat, messages : Q,
                          timeout : BOOLEAN, calledAgain : BOOLEAN]
          /\ script'.inLog = script.inLog /\ script'.logCounter = script.logCounter
          /\ script'.ordinal = script.ordinal /\ script'.messages = script.messages
      BY <2>7, <3>1
    <3>3. Logged(U, received \o wire, script')
      BY <2>7, <3>2 DEF Logged, Closures, C, Q
    <3>. QED BY <2>7, <3>1, <3>2, <3>3 DEF RecordInvAt, Q
  <2>9. ASSUME NEW o \in Objects, NEW p \in Properties, SetThrows(o, p) PROVE RecordInvAt(U)'
    <3>1. /\ script' = [script EXCEPT !.inLog = TRUE]
          /\ wire' = wire /\ received' = received /\ due' = due /\ refused' = TRUE
      BY <2>9 DEF SetThrows, channel
    <3>. HIDE DEF Q, C
    <3>2. /\ script' \in [inLog : BOOLEAN, logCounter : C, ordinal : Nat, messages : Q,
                          timeout : BOOLEAN, calledAgain : BOOLEAN]
          /\ script'.inLog = TRUE /\ script'.logCounter = script.logCounter
          /\ script'.ordinal = script.ordinal /\ script'.messages = script.messages
      BY <2>7, <3>1
    <3>3. Logged(U, received \o wire, script')
      BY <2>7, <3>2 DEF Logged, Closures, C, Q
    <3>. QED BY <2>7, <3>1, <3>2, <3>3 DEF RecordInvAt, Q
  <2>10. CASE EmitMsg
    <3>1. /\ script' = [script EXCEPT !.timeout = FALSE, !.messages = <<>>]
          /\ wire' = wire \o script.messages /\ received' = received /\ due' = due /\ refused' = refused
      BY <2>10 DEF EmitMsg, Cleared, PassedOn, history
    <3>2. <<>> \in Q /\ script.messages \in Q
      BY <2>7
    <3>. HIDE DEF Q, C
    <3>3. /\ script' \in [inLog : BOOLEAN, logCounter : C, ordinal : Nat, messages : Q,
                          timeout : BOOLEAN, calledAgain : BOOLEAN]
          /\ script'.inLog = script.inLog /\ script'.logCounter = script.logCounter
          /\ script'.ordinal = script.ordinal /\ script'.messages = <<>>
      BY <2>7, <3>1, <3>2
    <3>4. (received \o wire') \o script'.messages = (received \o wire) \o script.messages
      <4>1. received \in Seq(M) /\ wire \in Seq(M) /\ script.messages \in Seq(M)
        BY <2>7, <3>2 DEF Q
      <4>2. wire' = wire \o script.messages /\ script'.messages = <<>>
        BY <3>1, <3>3
      <4>. DEFINE m == script.messages
      <4>3. m \in Seq(M) /\ wire' = wire \o m
        BY <4>1, <4>2
      <4>. HIDE DEF M, m
      <4>4. (received \o (wire \o m)) \o <<>> = (received \o wire) \o m
        BY <4>1, <4>3, Handed
      <4>5. (received \o wire') \o <<>> = (received \o wire) \o m
        BY <4>3, <4>4
      <4>. QED BY <4>2, <4>5 DEF m
    <3>5. /\ wire' \in Seq(M) /\ received \o wire' \in Seq(M)
          /\ Len(received \o wire') + Len(script'.messages) = Len(received \o wire) + Len(script.messages)
      BY <2>7, <3>1, <3>2, <3>3 DEF Q
    <3>6. Logged(U, received \o wire', script')
      BY <2>7, <3>3, <3>4, <3>5 DEF Logged, Closures, C, Q
    <3>. QED BY <2>7, <3>1, <3>3, <3>5, <3>6 DEF RecordInvAt, Q
  <2>11. CASE HandleMessage
    <3>1. /\ script' = script /\ due' = due /\ refused' = refused /\ wire # <<>>
          /\ received' = Append(received, Head(wire)) /\ wire' = Tail(wire)
      BY <2>11 DEF HandleMessage, history
    <3>2. received' \in Q /\ wire' \in Q /\ received' \o wire' = received \o wire
      <4>1. received \in Seq(M) /\ wire \in Seq(M) /\ Head(wire) \in M /\ Tail(wire) \in Seq(M)
        BY <2>7, <3>1
      <4>. HIDE DEF M
      <4>2. Append(received, Head(wire)) \o Tail(wire) = received \o wire
        BY <3>1, <4>1, Handed
      <4>. QED BY <3>1, <4>1, <4>2 DEF M
    <3>. QED BY <2>7, <3>1, <3>2 DEF RecordInvAt
  <2>12. ASSUME NEW o \in Objects, NEW p \in Properties, NEW by \in Scripts,
                \/ Get(o, p, by) \/ Call(o, p, by)
                \/ \E this \in {"self", "heir"} : Set(o, p, by, this)
         PROVE  RecordInvAt(U)'
    BY <2>1, <2>2, <2>12, GetRecorded, CallRecorded, SetRecorded
  <2>. QED BY <2>4, <2>5, <2>6, <2>8, <2>9, <2>10, <2>11, <2>12 DEF NextScript
<1>. QED BY <1>1, <1>2, PiecesInvariant, PTL DEF ScriptSpec

(* The background page gets the records of a page in the order in which    *)
(* logValue and logCall (js-instruments.ts) numbered them, and each once,  *)
(* in whatever batches the debounced sending hands them over.              *)
THEOREM RecordsAreInOrder == ScriptSpec => []RecordsInOrder
<1>1. RecordInv => RecordsInOrder
  <2>. SUFFICES ASSUME RecordInv PROVE RecordsInOrder
    OBVIOUS
  <2>1. PICK U : U = Symbols(requests)
    OBVIOUS
  <2>. DEFINE all == (received \o wire) \o script.messages
  <2>2. Logged(U, received \o wire, script)
    BY <2>1 DEF RecordInv, RecordInvAt
  <2>3. /\ received \o wire \in Seq(PageMessages(U)) /\ script.messages \in Seq(PageMessages(U))
        /\ Len(received \o wire) + Len(script.messages) = script.ordinal
        /\ \A i \in 1 .. script.ordinal : all[i].ordinal = i
    BY <2>2 DEF Logged, Closures
  <2>4. DOMAIN all = 1 .. script.ordinal
    <3>. DEFINE M == PageMessages(U)
                a == received \o wire
                b == script.messages
    <3>1. a \in Seq(M) /\ b \in Seq(M) /\ Len(a) + Len(b) = script.ordinal
      BY <2>3
    <3>. HIDE DEF M, a, b
    <3>2. a \o b \in Seq(M) /\ Len(a \o b) = script.ordinal
      BY <3>1
    <3>3. DOMAIN (a \o b) = 1 .. script.ordinal
      BY <3>2
    <3>. QED BY <3>3 DEF a, b
  <2>. HIDE DEF all
  <2>5. Records = all
    BY DEF Records, all
  <2>. QED BY <2>3, <2>4, <2>5 DEF RecordsInOrder
<1>. QED BY <1>1, RecordInvariant, PTL

(* Every access to a watched property is in exactly one record under the   *)
(* script that made it, up to maxLogCount of them, whatever the layers of  *)
(* the property, the other scripts and the page script itself do, but for  *)
(* those from a write that a frozen object refused to the next write to a  *)
(* value: updateCounterAndCheckIfOver and logValue, logCall (js-           *)
(* instruments.ts) count what they record, the inner layers of a property  *)
(* log as the page script, and inLog is left set by no other way.          *)
THEOREM AccessesAreRecorded == ScriptSpec => []RecordedOnce
<1>1. RecordInv => RecordedOnce
  <2>. SUFFICES ASSUME RecordInv, NEW key \in DOMAIN due
       PROVE  Recorded(key) = IF due[key] < maxLogCount THEN due[key] ELSE maxLogCount
    BY DEF RecordedOnce
  <2>1. PICK U : U = Symbols(requests)
    OBVIOUS
  <2>2. RecordInvAt(U)
    BY <2>1 DEF RecordInv
  <2>3. key \in Scripts \X U /\ key \in Keys(U)
    BY <2>2 DEF RecordInvAt, Counters, Keys, Callers
  <2>4. Of(due, key) = due[key]
    BY DEF Of
  <2>5. Count((received \o wire) \o script.messages, key) = Of(script.logCounter, key)
    BY <2>2, <2>3 DEF RecordInvAt, Logged
  <2>6. Of(script.logCounter, key) = Capped(due[key])
    BY <2>2, <2>3, <2>4 DEF RecordInvAt
  <2>7. Recorded(key) = Count((received \o wire) \o script.messages, key)
    BY DEF Recorded, Records, Count, KeyOf
  <2>. QED BY <2>5, <2>6, <2>7 DEF Capped
<1>. QED BY <1>1, RecordInvariant, PTL
=============================================================================
