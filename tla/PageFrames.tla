----------------------------- MODULE PageFrames -----------------------------
(***************************************************************************)
(* recursive_dump_page_source: execute_in_all_frames (webdriver_utils.py)  *)
(* with collect_source, one WebDriver command a step, on a page that adds  *)
(* and removes frames meanwhile.  The list frame_stack is a default        *)
(* argument, so that all calls in one process share it.                    *)
(***************************************************************************)
EXTENDS Integers, SequencesExt

CONSTANTS
    Frames,         \* frames a page may ever have; their ids are never used again
    Trees,          \* initial pages: frame -> the frame it is in, or Top
    Top,            \* the page itself, "default"
    MaxDepth,       \* max_depth: 5
    MaxDumps        \* bound: dumps in one process

ASSUME FramesAssumption == IsFiniteSet(Frames) /\ Top \notin Frames
(* Going up from a frame ends at the top.                                  *)
ASSUME TreesAssumption ==
    \A t \in Trees :
      /\ DOMAIN t \subseteq Frames /\ t \in [DOMAIN t -> DOMAIN t \cup {Top}]
      /\ \A S \in SUBSET DOMAIN t : S # {} => \E f \in S : t[f] \notin S
ASSUME DepthAssumption == MaxDepth \in Nat /\ MaxDumps \in Nat

VARIABLES
    parent,         \* frame -> where it is, or was
    live,           \* frames that are there
    stable,         \* frames that have been there since the dump began
    context,        \* what the driver is switched to
    call_step,      \* of the innermost call of execute_in_all_frames
    frame_stack,
    frames,         \* what each of the nested calls has yet to recurse into
    down,           \* frames that switch_to_parent_frame has yet to enter
    page_source,    \* path of frames -> whose source was stored there
    dumps           \* dumps begun
frameVars == <<parent, live, stable, context, call_step, frame_stack, frames, down, page_source, dumps>>
tree == <<parent, live, stable>>

IsThere(f) == f = Top \/ f \in live
In(f) == {g \in live : parent[g] = f}

(* A set that has a frame has what it is in.                               *)
Upward(S) == \A g \in S \ {Top} : parent[g] \in S
Ancestors(f) ==
    {g \in DOMAIN parent \cup {Top} :
       \A S \in SUBSET (DOMAIN parent \cup {Top}) : f \in S /\ Upward(S) => g \in S} \ {f}

InitFrames ==
    /\ parent \in Trees /\ live = DOMAIN parent /\ stable = {}
    /\ context = Top /\ call_step = "idle" /\ frame_stack = <<Top>> /\ frames = <<>> /\ down = <<>>
    /\ page_source = <<>> /\ dumps = 0

-----------------------------------------------------------------------------
(* The command begins.  The one before may have left the driver in a       *)
(* frame, as wait_and_find does.                                           *)
RecursiveDump ==
    /\ call_step \in {"idle", "done"} /\ dumps < MaxDumps
    /\ dumps' = dumps + 1 /\ call_step' = "call" /\ stable' = live /\ page_source' = <<>>
    /\ context' \in live \cup {Top}
    /\ UNCHANGED <<parent, live, frame_stack, frames, down>>

(* A call starts at the top of the page if it is the first, and ends at    *)
(* once if it is too deep.                                                 *)
TopLevel == Len(frame_stack) = 1
TooDeep == Len(frame_stack) - 1 > MaxDepth
(* Seeded bug: one level too few.                                          *)
CallTooShallow ==
    /\ call_step = "call"
    /\ context' = IF TopLevel THEN Top ELSE context
    /\ call_step' = IF Len(frame_stack) - 1 >= MaxDepth THEN "return" ELSE "collect"
    /\ UNCHANGED <<tree, frame_stack, frames, down, page_source, dumps>>
Call ==
    /\ call_step = "call"
    /\ context' = IF TopLevel THEN Top ELSE context
    /\ call_step' = IF TooDeep THEN "return" ELSE "collect"
    /\ UNCHANGED <<tree, frame_stack, frames, down, page_source, dumps>>

(* collect_source stores the source under the path of the frame; the       *)
(* frames above have been stored.                                          *)
CollectSource ==
    /\ call_step = "collect" /\ IsThere(context)
    /\ page_source' = [path \in DOMAIN page_source \cup {Tail(frame_stack)} |->
                         IF path = Tail(frame_stack) THEN context ELSE page_source[path]]
    /\ call_step' = "find"
    /\ UNCHANGED <<tree, context, frame_stack, frames, down, dumps>>

FindFrames ==
    /\ call_step = "find" /\ IsThere(context)
    /\ frames' = Append(frames, In(context)) /\ call_step' = "next"
    /\ UNCHANGED <<tree, context, frame_stack, down, page_source, dumps>>

(* The next frame is entered, or is stale and skipped.                     *)
SwitchToFrame ==
    /\ call_step = "next" /\ IsThere(context)
    /\ \E f \in Last(frames) \cap In(context) :
         /\ frames' = [frames EXCEPT ![Len(frames)] = @ \ {f}]
         /\ frame_stack' = Append(frame_stack, f) /\ context' = f
    /\ call_step' = "call"
    /\ UNCHANGED <<tree, down, page_source, dumps>>
SkipStaleFrame ==
    /\ call_step = "next" /\ IsThere(context)
    /\ \E f \in Last(frames) \ In(context) : frames' = [frames EXCEPT ![Len(frames)] = @ \ {f}]
    /\ UNCHANGED <<tree, context, call_step, frame_stack, down, page_source, dumps>>

NoMoreFrames ==
    /\ call_step = "next" /\ Last(frames) = {}
    /\ frames' = Front(frames) /\ call_step' = "return"
    /\ UNCHANGED <<tree, context, frame_stack, down, page_source, dumps>>

(* A call returns: the caller switches to its own frame again, by way of   *)
(* the top, and takes the frame off the stack.                             *)
Return ==
    /\ call_step = "return"
    /\ IF frames = <<>> THEN call_step' = "done" /\ UNCHANGED <<context, down>>
       ELSE /\ call_step' = "parent" /\ context' = Top
            /\ down' = SubSeq(frame_stack, 2, Len(frame_stack) - 1)
    /\ UNCHANGED <<tree, frame_stack, frames, page_source, dumps>>
SwitchDown ==
    /\ call_step = "parent" /\ down # <<>> /\ Head(down) \in In(context) /\ IsThere(context)
    /\ context' = Head(down) /\ down' = Tail(down)
    /\ UNCHANGED <<tree, call_step, frame_stack, frames, page_source, dumps>>
PopFrame ==
    /\ call_step = "parent" /\ down = <<>>
    /\ frame_stack' = Front(frame_stack) /\ call_step' = "next"
    /\ UNCHANGED <<tree, context, frames, down, page_source, dumps>>

(* A command of the driver raises anything but that the frame to enter is  *)
(* stale: it passes through all calls, each of which takes its frame off   *)
(* the stack, and the dump has failed.                                     *)
DumpRaises ==
    \/ call_step \in {"collect", "find"} /\ ~IsThere(context)
    \/ call_step = "next" /\ Last(frames) # {} /\ ~IsThere(context)
    \/ call_step = "parent" /\ down # <<>> /\ ~(IsThere(context) /\ Head(down) \in In(context))
Fail ==
    /\ DumpRaises
    /\ call_step' = "failed" /\ frame_stack' = <<Top>> /\ frames' = <<>> /\ down' = <<>>
    /\ UNCHANGED <<tree, context, page_source, dumps>>

-----------------------------------------------------------------------------
(* The page adds a frame, or removes one with all that is in it.           *)
AddFrame ==
    /\ \E f \in Frames \ DOMAIN parent, within \in live \cup {Top} :
         parent' = [g \in DOMAIN parent \cup {f} |-> IF g = f THEN within ELSE parent[g]]
    /\ live' = DOMAIN parent' \ (DOMAIN parent \ live)
    /\ UNCHANGED <<stable, context, call_step, frame_stack, frames, down, page_source, dumps>>
RemoveFrame ==
    /\ \E f \in live : live' = {g \in live \ {f} : f \notin Ancestors(g)}
    /\ stable' = stable \cap live'
    /\ UNCHANGED <<parent, context, call_step, frame_stack, frames, down, page_source, dumps>>

NextFrames ==
    \/ RecursiveDump \/ Call \/ CollectSource \/ FindFrames \/ SwitchToFrame \/ SkipStaleFrame
    \/ NoMoreFrames \/ Return \/ SwitchDown \/ PopFrame \/ Fail \/ AddFrame \/ RemoveFrame
FramesSpec == InitFrames /\ [][NextFrames]_frameVars

-----------------------------------------------------------------------------
(* Every variable keeps its type; no call is deeper than it may be.        *)
FramesTypeOK ==
    /\ live \subseteq DOMAIN parent /\ DOMAIN parent \subseteq Frames /\ stable \subseteq live
    /\ context \in Frames \cup {Top} /\ dumps \in 0 .. MaxDumps
    /\ call_step \in {"idle", "call", "collect", "find", "next", "return", "parent", "done", "failed"}
    /\ Len(frame_stack) <= MaxDepth + 2 /\ Len(frames) <= MaxDepth + 1

(* What is dumped for a frame is its own source, under the frames that it  *)
(* is in, although frames come and go while the driver moves between them  *)
(* (execute_in_all_frames, collect_source).                                *)
Path(path) == \A i \in DOMAIN path : parent[path[i]] = IF i = 1 THEN Top ELSE path[i - 1]
EntriesAreTheirOwn ==
    \A path \in DOMAIN page_source :
      Path(path) /\ page_source[path] = IF path = <<>> THEN Top ELSE Last(path)

(* A frame that was there all the time, no deeper than max_depth, is in a  *)
(* dump that succeeds, whatever became of others.                          *)
StableFramesAreDumped ==
    call_step = "done" =>
      \A f \in stable :
        Cardinality(Ancestors(f)) <= MaxDepth =>
          \E path \in DOMAIN page_source : path # <<>> /\ Last(path) = f

(* A dump that succeeds leaves the driver at the top of the page, where    *)
(* other commands expect it, and the shared stack as it was, on which the  *)
(* next dump relies to start there (switch_to_parent_frame, finally).      *)
TopIsRestored == call_step = "done" => frame_stack = <<Top>> /\ context = Top
=============================================================================
