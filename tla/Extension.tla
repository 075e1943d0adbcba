----------------------------- MODULE Extension -----------------------------
(***************************************************************************)
(* The background page of the OpenWPM extension in one browser session:    *)
(* start-up (feature.ts), the visit it works for and what it sends to the  *)
(* storage controller (loggingdb.ts), and the instruments.  A listener     *)
(* runs to its first await in one step; what follows an await is a task    *)
(* that goes on later, when the visit may have changed.                    *)
(* Firefox and the commands of the browser manager are the environment.    *)
(***************************************************************************)
EXTENDS Integers, Sequences, FiniteSets

CONSTANTS
    NumNavigations,     \* bound: navigations of the one frame looked at
    NumNotes,           \* bound: cookie changes and script operations
    Requests,           \* bound: requests of the session
    Configs             \* browser_params.json: [instruments, save_content], and the
                        \* bound on the visits of the session: visits

Instruments == {"navigation", "cookie", "js", "http", "callstack", "dns"}

ASSUME ExtensionAssumption ==
    /\ NumNavigations \in Nat /\ NumNotes \in Nat
    /\ Configs \subseteq [instruments : SUBSET Instruments, save_content : BOOLEAN, visits : Nat]

VARIABLES
    config, boot,       \* what main has read, how far it has come
    manager,            \* the command sequence under way: [visit, pc]
    tab,                \* the tab that is open; smaller numbers are closed
    inbox,              \* messages on the way to the listening socket
    visitID,            \* the visit records are saved for, Null when there is none
    opened, closed,     \* visits whose meta_information was sent
    request,            \* Firefox: [stage, tab, hops] of each request
    before,             \* requests whose onBeforeRequest was seen
    listener,           \* the response body listener of each request
    navigation,         \* Firefox: [stage, n], the n-th navigation
    pending,            \* pendingNavigations: of each tab, the navigation it is for
    resolved,           \* navigations whose onBeforeNavigate event is resolved
    tasks,              \* handlers that wait
    records,            \* what saveRecord sent to the storage controller
    ordinal,            \* eventOrdinal
    notes               \* cookie changes and script operations so far

browser == <<manager, tab>>
frame == <<navigation, pending, resolved>>
http == <<request, before, listener>>
session == <<visitID, opened, closed, inbox>>
log == <<tasks, records, ordinal, notes>>
page == <<config, boot>>
vars == <<page, browser, session, http, frame, log>>

Null == 0
Lost == -1
NoTab == 0
Tabs == 1 .. 2 * config.visits + 1

NoListener == [chunks |-> 0, hash |-> 0, stopped |-> FALSE]

Init ==
    /\ config \in Configs /\ boot = "opening"
    /\ manager = [visit |-> 0, pc |-> "idle"] /\ tab = 1 /\ inbox = <<>>
    /\ visitID = Null /\ opened = {} /\ closed = {}
    /\ request = [r \in Requests |-> [stage |-> "new", tab |-> NoTab, hops |-> 0]]
    /\ before = {} /\ listener = [r \in {} |-> NoListener]
    /\ navigation = [stage |-> "idle", n |-> 0]
    /\ pending = [t \in Tabs |-> 0] /\ resolved = {}
    /\ tasks = {} /\ records = {} /\ ordinal = 0 /\ notes = 0

-----------------------------------------------------------------------------
(* main opens the sockets, starts the instruments that need no content     *)
(* script, registers the scripts, starts the others and writes             *)
(* OPENWPM_STARTUP_SUCCESS.txt, which the browser manager waits for.       *)
Boot ==
    /\ boot # "run"
    /\ boot' = IF boot = "opening" THEN "registering" ELSE "run"
    /\ UNCHANGED <<config, browser, session, http, frame, log>>

Runs(instrument) ==
    /\ instrument \in config.instruments
    /\ boot = "run" \/ (boot = "registering" /\ instrument \in {"navigation", "cookie", "js"})

-----------------------------------------------------------------------------
(* The commands of a visit.  Get and Finalize open a new tab.              *)
Send(message) == inbox' = Append(inbox, message)

SendInitialize ==
    /\ boot = "run" /\ manager.pc = "idle" /\ manager.visit < config.visits
    /\ manager' = [visit |-> manager.visit + 1, pc |-> "initialized"]
    /\ Send([action |-> "Initialize", visit_id |-> manager.visit + 1])
    /\ UNCHANGED <<page, tab, visitID, opened, closed, http, frame, log>>

(* A new tab takes the place of the old one.                               *)
RestartTab == tab' = tab + 1

GetSite ==
    /\ manager.pc = "initialized"
    /\ manager' = [manager EXCEPT !.pc = "loaded"]
    /\ RestartTab
    /\ Send([action |-> "legacy", visit_id |-> manager.visit])
    /\ UNCHANGED <<page, visitID, opened, closed, http, frame, log>>

SendFinalize ==
    /\ manager.pc = "loaded"
    /\ manager' = [manager EXCEPT !.pc = "idle"]
    /\ RestartTab
    /\ Send([action |-> "Finalize", visit_id |-> manager.visit])
    /\ UNCHANGED <<page, visitID, opened, closed, http, frame, log>>

(* Seeded bug: Finalize leaves the visit in place.                         *)
VisitKept(message) == message.visit_id

(* listeningSocketCallback.                                                *)
VisitAfter(message) == IF message.action = "Finalize" THEN Null ELSE message.visit_id

Receive ==
    /\ inbox # <<>>
    /\ LET message == Head(inbox) IN
       /\ visitID' = VisitAfter(message)
       /\ opened' = IF message.action = "Initialize" THEN opened \cup {message.visit_id} ELSE opened
       /\ closed' = IF message.action = "Finalize" THEN closed \cup {message.visit_id} ELSE closed
    /\ inbox' = Tail(inbox)
    /\ UNCHANGED <<page, browser, http, frame, log>>

-----------------------------------------------------------------------------
(* Listeners.  Most take the next event ordinal before they first wait.    *)
(* Which event of its request a handler is for is kept as history.         *)
Task(table, id, event, step, of) ==
    [table |-> table, id |-> id, event |-> event, step |-> step, ordinal |-> ordinal + 1,
     tab |-> of, with |-> 0]

Arrives(new) == tasks' = tasks \cup new
Stamped == ordinal' = ordinal + 1

(* Seeded bug: the ordinal is taken when the record is put together.       *)
OrdinalWhenSaved(t) == ordinal + 1

OrdinalOf(t) == t.ordinal

(* saveRecord: the visit is looked up when the record is saved.  Without   *)
(* one the record is marked Lost, or dropped if it is the navigation to    *)
(* about:blank of a new tab.                                               *)
Record(t, of, extra) ==
    [table |-> t.table, id |-> t.id, ordinal |-> of, event |-> t.event,
     visit |-> IF visitID = Null THEN Lost ELSE visitID, extra |-> extra]

SaveRecord(t, of, extra) ==
    \/ records' = records \cup {Record(t, of, extra)}
    \/ visitID = Null /\ t.table = "navigations" /\ UNCHANGED records

-----------------------------------------------------------------------------
(* The http instrument, for requests of a type whose content is saved when *)
(* save_content is set.  A request of a document has the open tab, one of  *)
(* Firefox itself none; a redirect keeps the id and asks again.            *)
OnBeforeRequest(r) ==
    /\ request[r].stage \in {"new", "redirected"}
    /\ config.instruments \cap {"http", "callstack", "dns"} # {}
    /\ \E of \in IF request[r].stage = "new" THEN {NoTab, tab} ELSE {request[r].tab} :
         request' = [request EXCEPT ![r].stage = "opened", ![r].tab = of]
    /\ IF Runs("http")
       THEN /\ before' = before \cup {r}
            /\ listener' = IF config.save_content
                           THEN [q \in DOMAIN listener \cup {r} |->
                                   IF q = r THEN NoListener ELSE listener[q]]
                           ELSE listener
       ELSE UNCHANGED <<before, listener>>
    /\ UNCHANGED <<page, browser, session, frame, log>>

(* What the listeners of an http event of request r begin.                 *)
Noticed(r, seen) ==
    IF seen = {} THEN UNCHANGED <<tasks, ordinal>>
    ELSE /\ Arrives({Task(s.table, r, 2 * request[r].hops + s.nth, s.step, request[r].tab) : s \in seen})
         /\ IF \E s \in seen : s.step = "tab" THEN Stamped ELSE UNCHANGED ordinal

By(instrument, table, nth, step) ==
    IF Runs(instrument) THEN {[table |-> table, nth |-> nth, step |-> step]} ELSE {}

OnBeforeSendHeaders(r) ==
    /\ request[r].stage = "opened"
    /\ request' = [request EXCEPT ![r].stage = "sent"]
    /\ Noticed(r, By("http", "http_requests", 1, "tab"))
    /\ UNCHANGED <<page, browser, session, before, listener, frame, records, notes>>

OnBeforeRedirect(r) ==
    /\ request[r].stage = "sent" /\ request[r].hops = 0
    /\ r \in DOMAIN listener => listener[r].chunks = 0
    /\ request' = [request EXCEPT ![r].stage = "redirected", ![r].hops = 1]
    /\ Noticed(r, By("http", "http_redirects", 2, "tab"))
    /\ UNCHANGED <<page, browser, session, before, listener, frame, records, notes>>

(* onCompleted has two listeners: the http and the dns instrument.         *)
OnCompleted(r) ==
    /\ request[r].stage = "sent"
    /\ request' = [request EXCEPT ![r].stage = "done"]
    /\ Noticed(r, By("http", "http_responses", 2, "tab") \cup By("dns", "dns_responses", 2, "dns"))
    /\ UNCHANGED <<page, browser, session, before, listener, frame, records, notes>>

(* The filter of the response: each chunk is hashed on its own, the first  *)
(* digest that is ready becomes the content hash, the body is complete     *)
(* when the stream stops.                                                  *)
Streams(r) == r \in DOMAIN listener /\ ~listener[r].stopped

OnData(r) ==
    /\ Streams(r) /\ request[r].stage \in {"sent", "done"} /\ listener[r].chunks < 2
    /\ listener' = [listener EXCEPT ![r].chunks = @ + 1]
    /\ UNCHANGED <<page, browser, session, request, before, frame, log>>

(* Seeded bug: a digest that is ready after the stream stopped is dropped. *)
DigestsWhileStreaming(r) == Streams(r) /\ listener[r].hash = 0

Digests(r) == r \in DOMAIN listener /\ listener[r].hash = 0

Digested(r) ==
    /\ Digests(r)
    /\ \E chunk \in 1 .. listener[r].chunks : listener' = [listener EXCEPT ![r].hash = chunk]
    /\ UNCHANGED <<page, browser, session, request, before, frame, log>>

OnStop(r) ==
    /\ Streams(r) /\ request[r].stage = "done"
    /\ listener' = [listener EXCEPT ![r].stopped = TRUE]
    /\ UNCHANGED <<page, browser, session, request, before, frame, log>>

-----------------------------------------------------------------------------
(* The navigation instrument takes its ordinals only after the tab and the *)
(* window are known.                                                       *)
(* Seeded bug: like a pending request, a pending navigation is kept.       *)
PendingKept(n) == [pending EXCEPT ![tab] = IF @ = 0 THEN n ELSE @]

(* instantiatePendingNavigation: the entry of the frame is replaced.       *)
PendingReplaced(n) == [pending EXCEPT ![tab] = n]

OnBeforeNavigate ==
    /\ navigation.n < NumNavigations /\ "navigation" \in config.instruments
    /\ navigation' = [stage |-> "started", n |-> navigation.n + 1]
    /\ IF Runs("navigation")
       THEN /\ pending' = PendingReplaced(navigation.n + 1)
            /\ Arrives({Task("navigations", navigation.n + 1, 1, "before", tab)})
       ELSE UNCHANGED <<pending, tasks>>
    /\ UNCHANGED <<page, browser, session, http, resolved, records, ordinal, notes>>

OnCommitted ==
    /\ navigation.stage = "started"
    /\ navigation' = [navigation EXCEPT !.stage = "idle"]
    /\ IF Runs("navigation")
       THEN Arrives({Task("navigations", navigation.n, 2, "committed", tab)})
       ELSE UNCHANGED tasks
    /\ UNCHANGED <<page, browser, session, http, pending, resolved, records, ordinal, notes>>

(* Cookie changes and the operations the page script reports are saved at  *)
(* once.                                                                   *)
Noted(instrument, table) ==
    /\ Runs(instrument) /\ notes < NumNotes
    /\ notes' = notes + 1
    /\ Stamped
    /\ SaveRecord(Task(table, Null, 0, "save", NoTab), ordinal + 1, 0)
    /\ UNCHANGED <<page, browser, session, http, frame, tasks>>

OnChanged == Noted("cookie", "javascript_cookies")

HandleJsInstrumentationMessage == Noted("js", "javascript")

(* A content process reports the call stack of a request it opens.  The    *)
(* configuration check refuses this instrument for the time being          *)
(* (config.py); the extension still has it.                                *)
OnStackAvailable(r) ==
    /\ Runs("callstack") /\ notes < NumNotes /\ request[r].stage = "opened" /\ request[r].hops = 0
    /\ notes' = notes + 1
    /\ Arrives({Task("callstacks", r, 0, "channel", NoTab)})
    /\ UNCHANGED <<page, browser, session, http, frame, records, ordinal>>

-----------------------------------------------------------------------------
(* What follows an await.                                                  *)
Tabbed(t) == t.step \in {"tab", "before", "committed"}

(* logWithResponseBody: without a listener the record says <error>.        *)
BodyKnown(t) ==
    t.id \in DOMAIN listener => listener[t.id].hash # 0 /\ listener[t.id].stopped

Becomes(t, step) == tasks' = (tasks \ {t}) \cup {[t EXCEPT !.step = step]}
Ends(t) == tasks' = tasks \ {t}

(* tabs.get of a tab that was closed is refused: no record is saved.       *)
TabGone(t) ==
    /\ Tabbed(t) /\ t.tab \notin {NoTab, tab}
    /\ Ends(t)
    /\ UNCHANGED <<page, browser, session, http, frame, records, ordinal, notes>>

(* A POST waits for the other event of its request.                        *)
RequestTabKnown(t) ==
    /\ t.step = "tab" /\ t.table = "http_requests"
    /\ \/ Becomes(t, "post") /\ UNCHANGED records
       \/ Ends(t) /\ SaveRecord(t, OrdinalOf(t), 0)
    /\ UNCHANGED <<page, browser, session, http, frame, ordinal, notes>>

RedirectTabKnown(t) ==
    /\ t.step = "tab" /\ t.table = "http_redirects"
    /\ Ends(t) /\ SaveRecord(t, OrdinalOf(t), 0)
    /\ UNCHANGED <<page, browser, session, http, frame, ordinal, notes>>

ResponseTabKnown(t) ==
    /\ t.step = "tab" /\ t.table = "http_responses"
    /\ IF config.save_content
       THEN Becomes(t, "body") /\ UNCHANGED records
       ELSE Ends(t) /\ SaveRecord(t, OrdinalOf(t), 0)
    /\ UNCHANGED <<page, browser, session, http, frame, ordinal, notes>>

(* Both events resolved, or given up after a second.                       *)
PostResolved(t) == t.id \in before

PostKnown(t) ==
    /\ t.step = "post"
    /\ Ends(t) /\ SaveRecord(t, OrdinalOf(t), IF PostResolved(t) THEN 1 ELSE 0)
    /\ UNCHANGED <<page, browser, session, http, frame, ordinal, notes>>

(* saveContent sends the body under its hash, for no visit.                *)
Content(t) ==
    [table |-> "page_content", id |-> t.id, ordinal |-> 0, event |-> t.event,
     visit |-> Lost, extra |-> listener[t.id].hash]

BodyArrived(t) ==
    /\ t.step = "body" /\ BodyKnown(t) /\ Ends(t)
    /\ IF t.id \in DOMAIN listener
       THEN records' = records \cup {Content(t), Record(t, OrdinalOf(t), listener[t.id].hash)}
       ELSE SaveRecord(t, OrdinalOf(t), Lost)
    /\ UNCHANGED <<page, browser, session, http, frame, ordinal, notes>>

DnsResolved(t) ==
    /\ t.step = "dns"
    /\ Ends(t)
    /\ SaveRecord(t, 0, 0) \/ UNCHANGED records
    /\ UNCHANGED <<page, browser, session, http, frame, ordinal, notes>>

(* The parent of the stack actor waits for the channel to be registered.   *)
ChannelKnown(t) == request[t.id].stage \in {"opened", "sent"} /\ request[t.id].hops = 0

StackSaved(t) ==
    /\ t.step = "channel" /\ ChannelKnown(t)
    /\ Ends(t) /\ SaveRecord(t, 0, 0)
    /\ UNCHANGED <<page, browser, session, http, frame, ordinal, notes>>

BeforeNavigateResolved(t) ==
    /\ t.step = "before"
    /\ Ends(t) /\ Stamped
    /\ resolved' = resolved \cup {t.id}
    /\ UNCHANGED <<page, browser, session, http, navigation, pending, records, notes>>

(* The pending navigation is looked up now, whatever it is by now for.     *)
Counterpart(t) == pending[t.tab]

CommittedTabKnown(t) ==
    /\ t.step = "committed" /\ Stamped
    /\ IF Counterpart(t) = 0
       THEN Ends(t) /\ SaveRecord(t, ordinal + 1, 0)
       ELSE /\ tasks' = (tasks \ {t}) \cup
                 {[t EXCEPT !.step = "pair", !.with = Counterpart(t), !.ordinal = ordinal + 1]}
            /\ UNCHANGED records
    /\ UNCHANGED <<page, browser, session, http, frame, notes>>

(* Both events came within a second, or the record goes without the first. *)
PairResolved(t) == t.with \in resolved

PairKnown(t) ==
    /\ t.step = "pair" /\ Ends(t)
    /\ \/ PairResolved(t) /\ SaveRecord(t, t.ordinal, t.with)
       \/ SaveRecord(t, t.ordinal, 0)
    /\ UNCHANGED <<page, browser, session, http, frame, ordinal, notes>>

Continue(t) ==
    \/ TabGone(t) \/ RequestTabKnown(t) \/ RedirectTabKnown(t) \/ ResponseTabKnown(t)
    \/ PostKnown(t) \/ BodyArrived(t) \/ DnsResolved(t)
    \/ StackSaved(t) \/ BeforeNavigateResolved(t) \/ CommittedTabKnown(t) \/ PairKnown(t)

Command == SendInitialize \/ GetSite \/ SendFinalize

Firefox ==
    \/ OnBeforeNavigate \/ OnCommitted
    \/ OnChanged \/ HandleJsInstrumentationMessage
    \/ \E r \in Requests :
         \/ OnBeforeRequest(r) \/ OnBeforeSendHeaders(r) \/ OnBeforeRedirect(r) \/ OnCompleted(r)
         \/ OnData(r) \/ OnStop(r) \/ OnStackAvailable(r)

Next ==
    \/ Boot \/ Receive \/ Command \/ Firefox
    \/ \E r \in Requests : Digested(r)
    \/ \E t \in tasks : Continue(t)

Spec == Init /\ [][Next]_vars

(* The event loop of the extension serves every callback that is due.      *)
FairSpec ==
    /\ Spec
    /\ WF_vars(\E t \in tasks : Continue(t))
    /\ WF_vars(\E r \in Requests : Digested(r))

-----------------------------------------------------------------------------

(* The events of a request are numbered in the order they arrived, however *)
(* late and in whatever order their records are saved: the handlers of     *)
(* http-instrument.ts wait for tabs, POST data and bodies in between.      *)
OrdinalsFollowEvents ==
    \A r, s \in records :
        /\ {r.table, s.table} \subseteq {"http_requests", "http_redirects", "http_responses"}
        /\ r.id = s.id /\ r.event < s.event
        => r.ordinal < s.ordinal

(* A record goes to a visit between its Initialize and its Finalize, or is *)
(* marked as Lost: the background page never writes to a visit whose       *)
(* meta_information was not sent, or that the storage controller was told  *)
(* to finish, however long the handler waited (loggingdb.ts).              *)
RecordsInOpenVisit ==
    [][\A r \in records' \ records : r.visit = Lost \/ r.visit \in opened \ closed]_vars

(* The first half of a navigation record is never that of an earlier       *)
(* navigation of the frame: onBeforeNavigate replaces the pending          *)
(* navigation before it waits (navigation-instrument.ts).                  *)
NavigationIsNotStale ==
    \A r \in records : r.table = "navigations" => r.extra = 0 \/ r.extra >= r.id

(* A request the http instrument saw from the start and that completed is  *)
(* in both tables in the end, if its tab is not closed and, when content   *)
(* is saved, its last response has a body that came to its end.            *)
Answered(r) ==
    /\ r \in before /\ request[r].stage = "done" /\ request[r].tab \in {NoTab, tab}
    /\ config.save_content => listener[r].stopped /\ listener[r].chunks > 0

RequestsAreSaved ==
    <>[](\A r \in Requests : Answered(r) =>
            \A table \in {"http_requests", "http_responses"} :
                \E s \in records : s.table = table /\ s.id = r)
=============================================================================
