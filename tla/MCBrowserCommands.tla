------------------------- MODULE MCBrowserCommands -------------------------
(***************************************************************************)
(* PageWindows, PageFrames and PageScreens for TLC.  They look at the same *)
(* browser, each at other commands: each behaviour is of one of the three, *)
(* while the other two stay in their initial states.                       *)
(***************************************************************************)
EXTENDS PageWindows, PageFrames, PageScreens, TLC

CONSTANTS f1, f2, f3, f4

MCTrees == {(f1 :> Top) @@ (f2 :> f1)}

VARIABLE
    executed        \* the commands that are looked at

CommandsInit ==
    /\ executed \in {"windows", "frames", "screens"}
    /\ Init /\ InitFrames /\ InitScreens
CommandsNext ==
    \/ executed = "windows" /\ Next /\ UNCHANGED <<executed, frameVars, screenVars>>
    \/ executed = "frames" /\ NextFrames /\ UNCHANGED <<executed, vars, screenVars>>
    \/ executed = "screens" /\ NextScreens /\ UNCHANGED <<executed, vars, frameVars>>
CommandsSpec == CommandsInit /\ [][CommandsNext]_<<executed, vars, frameVars, screenVars>>
=============================================================================
