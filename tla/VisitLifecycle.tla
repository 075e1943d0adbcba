--------------------------- MODULE VisitLifecycle ---------------------------
(***************************************************************************)
(* What a crawl script may rely on: a visit is started at most once, it is *)
(* ended by promises of success or of failure, and its callback is invoked *)
(* at most once, with the outcome of one of these promises.                *)
(***************************************************************************)
CONSTANT Visits

VARIABLES started,  \* visits a browser has begun
          ended,    \* pairs <<visit, success>> promised so far
          called    \* pairs <<visit, success>> passed to callbacks

vars == <<started, ended, called>>

Init == started = {} /\ ended = {} /\ called = {}

Start(v) ==
    /\ v \notin started
    /\ started' = started \cup {v}
    /\ UNCHANGED <<ended, called>>

(* Several visits may be ended at once, by the end of the crawl.           *)
End(outcomes) ==
    /\ outcomes \subseteq started \X BOOLEAN
    /\ ended' = ended \cup outcomes
    /\ UNCHANGED <<started, called>>

(* The callbacks of several visits may be invoked in a row.                *)
Call(outcomes) ==
    /\ outcomes \subseteq ended
    /\ \A p, q \in called \cup outcomes : p[1] = q[1] => p = q
    /\ called' = called \cup outcomes
    /\ UNCHANGED <<started, ended>>

Next ==
    \/ \E v \in Visits : Start(v)
    \/ \E outcomes \in SUBSET (Visits \X BOOLEAN) : End(outcomes)
    \/ \E outcomes \in SUBSET (Visits \X BOOLEAN) : Call(outcomes)

Spec == Init /\ [][Next]_vars
=============================================================================
