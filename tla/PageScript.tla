----------------------------- MODULE PageScript -----------------------------
(***************************************************************************)
(* The script that OpenWPM puts into every page to watch JavaScript APIs   *)
(* (js-instruments.ts), from the settings the browser was given            *)
(* (ScriptSettings) to the background page that receives the records.      *)
(* The page's own scripts are the environment: they read, write and call   *)
(* properties of an API object, or of an heir, an object whose prototype   *)
(* it is.  A watched property is an accessor laid over the original; a     *)
(* property that is instrumented again gets one more layer.                *)
(***************************************************************************)
EXTENDS ScriptSettings

CONSTANTS
    Orders,             \* js_instrument_settings: lists of requests
    Scripts,            \* scripts of the page
    maxLogCount,        \* 500 in the code
    NumAccesses         \* bound: accesses of watched properties

OwnScript == "openwpm"   \* the page script, in a stack trace

ASSUME PageScriptAssumption ==
    maxLogCount \in Nat \ {0} /\ NumAccesses \in Nat /\ OwnScript \notin Scripts

-----------------------------------------------------------------------------
(* The API of the page: an object with a property of every kind, and an    *)
(* object inside it that points back.  "readonly" is an accessor without a *)
(* setter, "unwritable" a value that defineProperty may still replace.     *)
Kinds == [api  |-> [value |-> "data", method |-> "function", fixed |-> "readonly",
                    pinned |-> "unwritable", constant |-> "unconfigurable",
                    part |-> "object", missing |-> "absent"],
          part |-> [size |-> "accessor", parent |-> "object"]]

Objects == DOMAIN Kinds
Target == [part |-> "part", parent |-> "api"]
KindOf(o, p) == IF p \in DOMAIN Kinds[o] THEN Kinds[o][p] ELSE "absent"

(* Object.getPropertyNames.                                                *)
PropertyNames == [api |-> <<"constant", "fixed", "method", "part", "pinned", "value">>,
                  part |-> <<"parent", "size">>]

IsObject(o, p) == KindOf(o, p) = "object"

(* An expression that the page evaluates to undefined.  Any other that is  *)
(* no object of the page is an error where it is evaluated.                *)
Undefined == {"hollow"}

(* What a request may be: js_instrument_settings.schema.json, with a depth *)
(* that is no negative number, as instrumentObject takes it for 0.         *)
ASSUME OrdersAssumption ==
    \A order \in Orders :
        /\ order \in Seq(ToSet(order))
        /\ \A request \in ToSet(order) :
             LET log == Full(request).log IN
             /\ IsFiniteSet(log.propertiesToInstrument) /\ IsFiniteSet(log.nonExisting)
             /\ log.recursive \in BOOLEAN /\ log.depth \in Nat

-----------------------------------------------------------------------------
(* instrumentObject, as the sequence of what it does to properties: it     *)
(* replaces them, and reads them to see whether there is an object inside. *)
(* A step has the name of what the object is called, and the settings.     *)
Step(act, o, p, log) ==
    <<[act |-> act, object |-> o, property |-> p, path |-> <<>>, log |-> log]>>

(* instrumentObjectProperty gives up on a property that is missing and not *)
(* expected to be, or that cannot be redefined.                            *)
Replaces(o, p, log) ==
    KindOf(o, p) # "unconfigurable" /\ (KindOf(o, p) = "absent" => p \in log.nonExisting)

Replace(o, p, log) == IF Replaces(o, p, log) THEN Step("replace", o, p, log) ELSE <<>>

(* Seeded bug: the sub-objects get the list of their parent.               *)
SameListAt(log, depth) == [log EXCEPT !.depth = depth]

(* The settings for a sub-object at this depth.                            *)
LogAt(log, depth) ==
    IF depth = log.depth THEN log
    ELSE [log EXCEPT !.depth = depth, !.propertiesToInstrument = {}]

ToInstrument(o, log) ==
    CASE log.propertiesToInstrument = None -> <<>>
      [] log.propertiesToInstrument = {} -> PropertyNames[o]
      [] OTHER -> SetToSeq(log.propertiesToInstrument)

Below(name, steps) == [i \in DOMAIN steps |-> [steps[i] EXCEPT !.path = <<name>> \o @]]

Included(names, log) == Only(names, {i \in DOMAIN names : names[i] \notin log.excluded})

(* In an object, each property after what is inside it.  isObject reads a  *)
(* property, and where there is an object it is read again.                *)
InObject(o, log, inside) ==
    LET names == Included(ToInstrument(o, log), log)
        expected == Included(SetToSeq(log.nonExisting), log)
        Into(p) == IF IsObject(o, p) THEN Step("read", o, p, log) \o Below(p, inside[Target[p]])
                   ELSE <<>>
        Inside(p) == IF log.recursive /\ log.depth > 0 THEN Step("read", o, p, log) \o Into(p)
                     ELSE <<>>
    IN FlattenSeq([i \in DOMAIN names |-> Inside(names[i]) \o Replace(o, names[i], log)])
       \o FlattenSeq([i \in DOMAIN expected |-> Replace(o, expected[i], log)])

InstrumentObject(object, logSettings) ==
    LET visit[d \in 0 .. logSettings.depth] ==
            [o \in Objects |->
               InObject(o, LogAt(logSettings, d), IF d = 0 THEN <<>> ELSE visit[d - 1])]
    IN visit[logSettings.depth][object]

(* eval fails on what is no object of the page, and so does                *)
(* Object.getPropertyNames on undefined; a list of properties of undefined *)
(* is only reported, property by property.                                 *)
Throws(setting) ==
    setting.object \notin Objects /\
    (setting.object \in Undefined => setting.log.propertiesToInstrument = {})

(* instrumentJS, as the content script calls it with the settings: an      *)
(* exception ends the loop over them.                                      *)
InstrumentJS(settings) ==
    LET reached == {i \in DOMAIN settings : \A j \in 1 .. i : ~Throws(settings[j])} IN
    FlattenSeq([i \in DOMAIN settings |->
        IF i \in reached /\ settings[i].object \in Objects
        THEN Below(settings[i].object, InstrumentObject(settings[i].object, settings[i].log))
        ELSE <<>>])

(* The properties replaced by the first n steps, in their order.           *)
ReplacedBy(steps, n) == Only(steps, {i \in 1 .. n : steps[i].act = "replace"})

LayersIn(pieces, o, p) ==
    Only(pieces, {i \in DOMAIN pieces : pieces[i].object = o /\ pieces[i].property = p})

-----------------------------------------------------------------------------
VARIABLES
    requests,           \* what the user asked for
    pieces,             \* what instrumentJS replaced, in order
    frozen,             \* is the heir frozen
    value,              \* of each property: 0 at first, then what was written last
    own,                \* properties that the heir has of its own
    script,             \* the closure of getInstrumentJS
    wire,               \* messages from the content script to the background page
    received,           \* the records the background page got
    loaded,             \* "new", "yes", or "no" once the page was left
    accesses,           \* history: how many there were
    due,                \* history: accesses of each symbol by each script
    refused,            \* history: has a frozen heir refused the last write to a value
    plain,              \* history: value and own in a page that is not watched
    strayed             \* history: properties with a write that is known to go astray

given == <<requests, frozen>>
channel == <<wire, received>>
history == <<accesses, due, refused, plain, strayed>>
scriptVars == <<given, pieces, loaded, value, own, script, channel, history>>

Properties == UNION {DOMAIN Kinds[o] : o \in Objects}
Untouched == [o \in Objects |-> [p \in Properties |-> 0]]

InitScript ==
    /\ requests \in Orders /\ Accepted(requests)
    /\ frozen \in BOOLEAN
    /\ pieces = <<>>
    /\ value = Untouched /\ own = [p \in {} |-> 0]
    /\ script = [inLog |-> FALSE, logCounter |-> [k \in {} |-> 0], ordinal |-> 0,
                 messages |-> <<>>, timeout |-> FALSE, calledAgain |-> FALSE]
    /\ wire = <<>> /\ received = <<>> /\ loaded = "new"
    /\ accesses = 0 /\ due = [k \in {} |-> 0]
    /\ refused = FALSE /\ strayed = {}
    /\ plain = [value |-> Untouched, own |-> [p \in {} |-> 0]]

Layers(o, p) == LayersIn(pieces, o, p)
Watched(o, p) == \E i \in DOMAIN pieces : pieces[i].object = o /\ pieces[i].property = p
Symbol(layer) == Append(layer.path, layer.property)

-----------------------------------------------------------------------------
(* logValue and logCall, as what they do to the closure st.  Reading the   *)
(* value to serialize it may run other watched accessors, which find inLog *)
(* set and log nothing.                                                    *)
Of(f, k) == IF k \in DOMAIN f THEN f[k] ELSE 0
Bump(f, k, n) == [x \in DOMAIN f \cup {k} |-> IF x = k THEN Of(f, k) + n ELSE f[x]]

OverLimit(st, key) == Of(st.logCounter, key) >= maxLogCount

(* Seeded bug: the timer is not marked as over when it fired.              *)
SendOnce(st, msg) ==
    [st EXCEPT !.messages = Append(@, msg), !.timeout = @ \/ st.ordinal = 1,
               !.calledAgain = st.timeout]

(* debounce: a call while the timer runs makes it wait once more.          *)
SendDebounced(st, msg) ==
    [st EXCEPT !.messages = Append(@, msg), !.timeout = TRUE, !.calledAgain = st.timeout]

Log(st, by, symbol) ==
    LET key == <<by, symbol>> IN
    IF st.inLog \/ OverLimit(st, key) THEN st
    ELSE SendDebounced([st EXCEPT !.logCounter = Bump(@, key, 1), !.ordinal = @ + 1],
              [by |-> by, symbol |-> symbol, ordinal |-> st.ordinal + 1])

(* The layers log one after the other.  Only the outermost is called by    *)
(* the script of the page; the others find a frame of this script in the   *)
(* stack trace.                                                            *)
CallerOf(layers, i, by) == IF i = Len(layers) THEN by ELSE OwnScript

LogLayers(st, layers, order, logging, by) ==
    LET logged[n \in 0 .. Len(order)] ==
            IF n = 0 THEN st
            ELSE IF order[n] \in logging
            THEN Log(logged[n - 1], CallerOf(layers, order[n], by), Symbol(layers[order[n]]))
            ELSE logged[n - 1]
    IN logged[Len(order)]

Inwards(layers) == [i \in DOMAIN layers |-> Len(layers) + 1 - i]
Outwards(layers) == [i \in DOMAIN layers |-> i]

(* What a get finds, 0 being the original.                                 *)
TypeOf(o, p, v) == IF v = 0 /\ KindOf(o, p) \in {"function", "object"} THEN KindOf(o, p) ELSE "other"

LogsGet(layer, type) ==
    CASE type = "function" -> layer.log.logFunctionGets
      [] type = "object" -> ~(layer.log.recursive /\ layer.log.depth > 0)
      [] OTHER -> TRUE

Reading(layers, type) == {i \in DOMAIN layers : LogsGet(layers[i], type)}

LogGet(st, layers, type, by) == LogLayers(st, layers, Outwards(layers), Reading(layers, type), by)

-----------------------------------------------------------------------------
(* What the page script does first: it instruments all it was sent.  Where *)
(* it reads what it has already replaced, its own getters log that.        *)
Inserted == InstrumentJS(Cleaned(requests))

ReadsItself(steps) ==
    LET Layered(n) == LayersIn(ReplacedBy(steps, n), steps[n].object, steps[n].property)
        Type(n) == TypeOf(steps[n].object, steps[n].property, 0)
        logged[n \in 0 .. Len(steps)] ==
            IF n = 0 THEN script
            ELSE IF steps[n].act = "read" THEN LogGet(logged[n - 1], Layered(n), Type(n), OwnScript)
            ELSE logged[n - 1]
    IN logged[Len(steps)]

(* The content script inserts the page script before the page's own.       *)
InsertScript ==
    /\ loaded = "new" /\ loaded' = "yes"
    /\ pieces' = ReplacedBy(Inserted, Len(Inserted))
    /\ script' = ReadsItself(Inserted)
    /\ UNCHANGED <<given, value, own, channel, history>>

-----------------------------------------------------------------------------
(* Accesses by a script of the page.  One is owed a record unless inLog is *)
(* left set by a write that was refused, with no write to a value since.   *)
Access(o, p) == loaded = "yes" /\ accesses < NumAccesses /\ Watched(o, p) /\ accesses' = accesses + 1

Owed(o, p, by, n) ==
    due' = IF refused' THEN due ELSE Bump(due, <<by, Symbol(Last(Layers(o, p)))>>, n)

Get(o, p, by) ==
    LET layers == Layers(o, p)
        type == TypeOf(o, p, value[o][p])
    IN /\ Access(o, p)
       /\ script' = LogGet(script, layers, type, by)
       /\ refused' = refused
       /\ Owed(o, p, by, IF LogsGet(Last(layers), type) THEN 1 ELSE 0)
       /\ UNCHANGED <<given, pieces, loaded, value, own, channel, plain, strayed>>

(* Every layer of the getter wraps the function; the page calls the        *)
(* outermost wrapper.                                                      *)
Call(o, p, by) ==
    LET layers == Layers(o, p)
        read == LogGet(script, layers, "function", by)
    IN /\ Access(o, p)
       /\ TypeOf(o, p, value[o][p]) = "function"
       /\ script' = LogLayers(read, layers, Inwards(layers), DOMAIN layers, by)
       /\ refused' = refused
       /\ Owed(o, p, by, IF LogsGet(Last(layers), "function") THEN 2 ELSE 1)
       /\ UNCHANGED <<given, pieces, loaded, value, own, channel, plain, strayed>>

(* preventSets looks at the original value, which accessors do not have.   *)
Prevents(o, p) ==
    Head(Layers(o, p)).log.preventSets /\ TypeOf(o, p, value[o][p]) # "other"

Written(values, o, p, v) == [values EXCEPT ![o][p] = v]
OwnWritten(owned, p, v) == [x \in DOMAIN owned \cup {p} |-> IF x = p THEN v ELSE owned[x]]

(* A write comes to the innermost setter of a property that holds a value: *)
(* it sets inLog, writes, and clears it, whoever had set it.               *)
HoldsValue(o, p) == KindOf(o, p) \in {"data", "unwritable", "function", "object"}
WritesValue(o, p) == HoldsValue(o, p) /\ ~Prevents(o, p)

(* Seeded bug: inLog is not cleared.                                       *)
StillInLog(st) == st

Resumed(st) == [st EXCEPT !.inLog = FALSE]

(* Seeded bug: a write through the heir changes the shared original.       *)
NoHeir(o, p, this) == FALSE

(* Does the innermost setter define the property on the heir: it does for  *)
(* a property that holds a value.                                          *)
OnHeir(o, p, this) == this = "heir" /\ HoldsValue(o, p)

(* What an unwatched page would hold after the assignment.                 *)
PlainAfter(o, p, this, v) ==
    CASE KindOf(o, p) \in {"readonly", "unwritable"} -> plain
      [] KindOf(o, p) \notin {"readonly", "unwritable", "accessor"} /\ this = "heir" ->
            IF frozen THEN plain ELSE [plain EXCEPT !.own = OwnWritten(@, p, v)]
      [] OTHER -> [plain EXCEPT !.value = Written(@, o, p, v)]

(* The setters overwrite what cannot be written, and what an heir writes to*)
(* a property that did not exist goes to undefinedPropValue, which all     *)
(* share.                                                                  *)
Strays(o, p, this) == KindOf(o, p) = "unwritable" \/ (KindOf(o, p) = "absent" /\ this = "heir")

LogSet(st, layers, by) == LogLayers(st, layers, Outwards(layers), DOMAIN layers, by)

Set(o, p, by, this) ==
    LET layers == Layers(o, p) IN
    /\ Access(o, p)
    /\ this = "heir" => o = "api" /\ p \notin DOMAIN own
    /\ ~(OnHeir(o, p, this) /\ frozen /\ ~Prevents(o, p))
    /\ script' = LogSet(IF WritesValue(o, p) THEN Resumed(script) ELSE script, layers, by)
    /\ LET changes == ~Prevents(o, p) /\ KindOf(o, p) # "readonly" IN
       /\ value' = IF changes /\ ~OnHeir(o, p, this) THEN Written(value, o, p, accesses') ELSE value
       /\ own' = IF changes /\ OnHeir(o, p, this) THEN OwnWritten(own, p, accesses') ELSE own
    /\ plain' = IF Prevents(o, p) THEN plain ELSE PlainAfter(o, p, this, accesses')
    /\ strayed' = IF Strays(o, p, this) THEN strayed \cup {<<o, p>>} ELSE strayed
    /\ refused' = (refused /\ ~WritesValue(o, p))
    /\ Owed(o, p, by, 1)
    /\ UNCHANGED <<given, pieces, loaded, channel>>

(* defineProperty throws on a frozen heir, through every setter, and       *)
(* inLog stays set.                                                        *)
SetThrows(o, p) ==
    /\ Access(o, p)
    /\ o = "api" /\ frozen /\ OnHeir(o, p, "heir") /\ ~Prevents(o, p)
    /\ script' = [script EXCEPT !.inLog = TRUE]
    /\ refused' = TRUE
    /\ UNCHANGED <<given, pieces, loaded, value, own, channel, due, plain, strayed>>

(* A property that defineProperty made cannot be written again: the        *)
(* assignment has no effect, and no code of this script runs.              *)
SetAgain(p) ==
    /\ Access("api", p) /\ p \in DOMAIN own
    /\ plain' = [plain EXCEPT !.own = OwnWritten(@, p, accesses')]
    /\ strayed' = strayed \cup {<<"api", p>>}
    /\ UNCHANGED <<given, pieces, loaded, value, own, script, channel, due, refused>>

-----------------------------------------------------------------------------
(* debounce's later: wait again if there was a call in the meantime, else  *)
(* dispatch the event on which the content script emits the messages.      *)
Postpone ==
    /\ loaded = "yes" /\ script.timeout /\ script.calledAgain
    /\ script' = [script EXCEPT !.calledAgain = FALSE]
    /\ UNCHANGED <<given, pieces, loaded, value, own, channel, history>>

(* The content script sends each message of the event on its own.          *)
PassedOn(messages) == wire \o messages

Cleared(st) == [st EXCEPT !.timeout = FALSE, !.messages = <<>>]

EmitMsg ==
    /\ loaded = "yes" /\ script.timeout /\ ~script.calledAgain
    /\ wire' = PassedOn(script.messages)
    /\ script' = Cleared(script)
    /\ UNCHANGED <<given, pieces, loaded, value, own, received, history>>

(* handleJsInstrumentationMessage.                                         *)
HandleMessage ==
    /\ wire # <<>>
    /\ received' = Append(received, Head(wire))
    /\ wire' = Tail(wire)
    /\ UNCHANGED <<given, pieces, loaded, value, own, script, history>>

(* The page is left: its timers are gone, and what they would have sent.   *)
Leave ==
    /\ loaded = "yes" /\ loaded' = "no"
    /\ UNCHANGED <<given, pieces, value, own, script, channel, history>>

NextScript ==
    \/ InsertScript \/ Postpone \/ EmitMsg \/ HandleMessage \/ Leave
    \/ \E o \in Objects, p \in Properties :
         \/ SetThrows(o, p)
         \/ \E by \in Scripts :
              \/ Get(o, p, by) \/ Call(o, p, by)
              \/ \E this \in {"self", "heir"} : Set(o, p, by, this)
    \/ \E p \in Properties : SetAgain(p)

ScriptSpec == InitScript /\ [][NextScript]_scriptVars

(* Timers fire and the browser delivers messages.                          *)
ScriptFairSpec == ScriptSpec /\ WF_scriptVars(Postpone) /\ WF_scriptVars(EmitMsg) /\ WF_scriptVars(HandleMessage)

-----------------------------------------------------------------------------
(* Every access of a script to a watched property is recorded once under   *)
(* that script, up to maxLogCount times, however many layers the property  *)
(* has, whatever the other scripts do and the page script read itself; but *)
(* for those from a write to a frozen object, which leaves inLog set, to   *)
(* the next write to a value.                                              *)
Records == received \o wire \o script.messages
Recorded(key) == Cardinality({i \in DOMAIN Records : <<Records[i].by, Records[i].symbol>> = key})

RecordedOnce ==
    \A key \in DOMAIN due :
        Recorded(key) = IF due[key] < maxLogCount THEN due[key] ELSE maxLogCount

(* What is asked for is watched: every property that a request lists, also *)
(* after the requests of an object were merged, whatever settings of its   *)
(* own each has; every property of an object requested as a whole, unless  *)
(* another request of the object has a list, where the merge is known to   *)
(* keep the list only; and all that recursion reaches from these, except   *)
(* what a request of the object excludes.  All this for the requests before*)
(* the first that the page cannot evaluate, which ends the loop.           *)
AskedFor(request) == Full(request).log.propertiesToInstrument
Uniform(object) ==
    \A i, j \in Settings(requests, object) :
        (AskedFor(requests[i]) = {}) = (AskedFor(requests[j]) = {})
Evaluated(object) ==
    LET settings == Cleaned(requests) IN
    /\ object \in Objects
    /\ \E j \in DOMAIN settings :
         settings[j].object = object /\ \A k \in 1 .. j : ~Throws(settings[k])
Names(o, asked) ==
    IF asked = {} THEN ToSet(PropertyNames[o]) ELSE asked \ None
Watchable(o, p) == KindOf(o, p) \notin {"absent", "unconfigurable"}

AskedIsWatched ==
    loaded # "new" =>
    \A i \in DOMAIN requests :
        LET o == requests[i].object
            log == Full(requests[i]).log
            excluded == UNION {Full(requests[j]).log.excluded : j \in Settings(requests, o)}
            asked == Names(o, AskedFor(requests[i])) \ excluded
            reached == IF log.recursive /\ log.depth > 0
                       THEN {Target[p] : p \in {p \in asked : IsObject(o, p)}} ELSE {}
        IN Evaluated(o) /\ (AskedFor(requests[i]) = {} => Uniform(o)) =>
           /\ \A p \in asked : Watchable(o, p) => Watched(o, p)
           /\ \A sub \in reached : \A p \in Names(sub, {}) \ excluded :
                 Watchable(sub, p) => Watched(sub, p)

(* The page reads what it would read if it were not watched: its writes    *)
(* reach the object they were made on, and no other, however many layers   *)
(* the property has, and refused and prevented writes change nothing; but  *)
(* for properties with a write of one of three kinds, in which the code is *)
(* known to differ: to a value that cannot be written, through an heir to a*)
(* property that did not exist, and once more to what an heir was given.   *)
ReadsAsWritten ==
    /\ \A o \in Objects : \A p \in Properties :
         <<o, p>> \notin strayed => value[o][p] = plain.value[o][p]
    /\ \A p \in Properties : <<"api", p>> \notin strayed => Of(own, p) = Of(plain.own, p)

(* The background page gets the records of a page in the order in which    *)
(* they were made, and each of them once.                                  *)
RecordsInOrder ==
    [i \in DOMAIN Records |-> Records[i].ordinal] = [i \in 1 .. script.ordinal |-> i]

(* What was logged in a page that is not left reaches the background page. *)
RecordsArrive == []<>(loaded = "no" \/ Len(received) = script.ordinal)
=============================================================================
