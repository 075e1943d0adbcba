--------------------------- MODULE ScriptSettings ---------------------------
(***************************************************************************)
(* What js_instrumentation.py makes of the js_instrument_settings of a     *)
(* browser: a list of requests, each for one object, becomes one full      *)
(* setting per object, or is refused.  Lists of properties are sets here;  *)
(* in propertiesToInstrument the empty one stands for every property, and  *)
(* None, a list of no property's name, for no property.                    *)
(***************************************************************************)
EXTENDS Integers, SequencesExt

None == {"null"}

DefaultLogSettings ==
    [propertiesToInstrument |-> {}, nonExisting |-> {}, excluded |-> {},
     logFunctionGets |-> FALSE, preventSets |-> FALSE, recursive |-> FALSE, depth |-> 5]

(* A request is a string, an object with a list of properties, or an       *)
(* object with some of the settings: overrides is a function from their    *)
(* names.                                                                  *)
Whole(object) == [object |-> object, overrides |-> [k \in {} |-> 0]]
Listed(object, props) ==
    [object |-> object, overrides |-> [k \in {"propertiesToInstrument"} |-> props]]
Detailed(object, overrides) == [object |-> object, overrides |-> overrides]

(* _build_full_settings_object; the name follows from the object.          *)
Full(request) ==
    [object |-> request.object,
     log |-> [k \in DOMAIN DefaultLogSettings |->
                IF k \in DOMAIN request.overrides THEN request.overrides[k]
                ELSE DefaultLogSettings[k]]]

Lists == {"propertiesToInstrument", "nonExisting", "excluded"}

(* _merge_settings: settings for one object must agree on everything but   *)
(* the lists, none of which may be None, and the lists are joined.         *)
Agree(a, b) ==
    \A k \in DOMAIN DefaultLogSettings :
        IF k \in Lists THEN a.log[k] # None /\ b.log[k] # None ELSE a.log[k] = b.log[k]

Settings(requests, object) ==
    {i \in DOMAIN requests : requests[i].object = object}

First(indices) == CHOOSE i \in indices : \A j \in indices : i <= j

Mergeable(requests) ==
    \A object \in {requests[i].object : i \in DOMAIN requests} :
        LET same == Settings(requests, object) IN
        \A i \in same \ {First(same)} : Agree(Full(requests[First(same)]), Full(requests[i]))

Joined(requests, indices, k) == UNION {Full(requests[i]).log[k] : i \in indices}

Merged(requests, object) ==
    LET same == Settings(requests, object)
        first == Full(requests[First(same)])
    IN [object |-> object,
        log |-> [k \in DOMAIN DefaultLogSettings |->
                   IF k \in Lists /\ Cardinality(same) > 1 THEN Joined(requests, same, k)
                   ELSE first.log[k]]]

(* _validate: a property may not be both asked for and excluded.           *)
Collides(setting) ==
    /\ setting.log.propertiesToInstrument # None
    /\ setting.log.propertiesToInstrument \cap setting.log.excluded # {}

(* The elements of a sequence at some places, in their order.              *)
Only(s, places) == FlattenSeq([i \in DOMAIN s |-> IF i \in places THEN <<s[i]>> ELSE <<>>])

(* clean_js_instrumentation_settings: one setting per object, in the order *)
(* of their first requests, unless the list is refused.                    *)
Cleaned(requests) ==
    LET firsts == Only([i \in DOMAIN requests |-> i],
                       {First(Settings(requests, requests[i].object)) : i \in DOMAIN requests})
    IN [j \in DOMAIN firsts |-> Merged(requests, requests[firsts[j]].object)]

Accepted(requests) ==
    /\ Mergeable(requests)
    /\ \A j \in DOMAIN Cleaned(requests) : ~Collides(Cleaned(requests)[j])
=============================================================================
