-------------------------- MODULE VisitCompletion --------------------------
(***************************************************************************)
(* What the storage side of the platform promises to the manager, without  *)
(* tasks, batches, events or queues.  Records are accepted, a visit is     *)
(* finalized by a promise about records accepted before, records get       *)
(* settled (written, or refused for good), and a promise is reported only  *)
(* when all of its records are settled.  No record is promised twice.      *)
(***************************************************************************)
EXTENDS Naturals, Sequences

CONSTANTS Records, Visits

VARIABLES accepted,  \* records the storage has taken over
          settled,   \* accepted records that need no further work
          promises,  \* the finalisations, in order
          reported   \* indices of the promises the manager was told of

vars == <<accepted, settled, promises, reported>>

Init ==
    /\ accepted = {}
    /\ settled = {}
    /\ promises = <<>>
    /\ reported = {}

(* Records may be settled at any time, as soon as they are accepted, but   *)
(* never unsettled.                                                        *)
Settle ==
    /\ settled \subseteq settled'
    /\ settled' \subseteq accepted'

Accept(r) ==
    /\ r \notin accepted
    /\ accepted' = accepted \cup {r}
    /\ Settle
    /\ UNCHANGED <<promises, reported>>

Promise(v, R) ==
    /\ R \subseteq accepted
    /\ \A n \in 1 .. Len(promises) : promises[n].records \cap R = {}
    /\ \E success \in BOOLEAN :
         promises' = Append(promises, [visit |-> v, success |-> success, records |-> R])
    /\ Settle
    /\ UNCHANGED <<accepted, reported>>

Report ==
    /\ reported \subseteq reported'
    /\ \A n \in reported' \ reported :
         n \in 1 .. Len(promises) /\ promises[n].records \subseteq settled
    /\ UNCHANGED <<accepted, settled, promises>>

Next ==
    \/ \E r \in Records : Accept(r)
    \/ \E v \in Visits, R \in SUBSET Records : Promise(v, R)
    \/ Settle /\ UNCHANGED <<accepted, promises, reported>>
    \/ Report

Spec == Init /\ [][Next]_vars
=============================================================================
