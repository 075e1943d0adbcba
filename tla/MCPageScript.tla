---------------------------- MODULE MCPageScript ----------------------------
(***************************************************************************)
(* Small instances of PageScript for TLC.                                  *)
(***************************************************************************)
EXTENDS PageScript
MCOrders ==
    {<<Whole("api"), Detailed("api", [excluded |-> {"value"}])>>,
     <<Whole("api"), Listed("api", {"value"})>>,
     <<Detailed("api", [recursive |-> TRUE, depth |-> 2, logFunctionGets |-> TRUE])>>,
     <<Detailed("api", [recursive |-> TRUE, depth |-> 1]), Whole("part")>>,
     <<Detailed("api", [preventSets |-> TRUE, nonExisting |-> {"missing"}])>>,
     <<Detailed("api", [propertiesToInstrument |-> None, nonExisting |-> {"missing"}]),
       Detailed("part", [recursive |-> TRUE, depth |-> 1, propertiesToInstrument |-> {"parent"}])>>,
     <<Whole("api"), Detailed("api", [recursive |-> TRUE])>>,
     <<Listed("hollow", {"value"}), Listed("api", {"value", "pinned"}), Whole("nowhere"), Whole("part")>>,
     <<Detailed("api", [propertiesToInstrument |-> {"value"}, excluded |-> {"value"}])>>}
MCSite == {"site"}
=============================================================================
