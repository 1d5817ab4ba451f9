----------------------------- MODULE InlineOutput -----------------------------
(***************************************************************************)
(* The inline phase composed with the two outputs: the tree it leaves is   *)
(* the one they read.                                                      *)
(***************************************************************************)
EXTENDS InlinePhase, OutputProperties

outputVars == <<vars, outputs>>

InlineView == [t |-> tree, kind |-> type, lit |-> lit, tight |-> [n \in Node |-> FALSE],
               checked |-> {}, header |-> {}, start |-> [n \in Node |-> 1],
               end |-> [n \in Node |-> 1]]

OutputInit == Init /\ NoOutput

ParseInlines == Next /\ UNCHANGED outputs
HandOver     == pc = "done" /\ Given(InlineView) /\ UNCHANGED vars
RenderEvent  == Render /\ UNCHANGED vars
ProjectTree  == Project /\ UNCHANGED vars
Finished     == OutputDone /\ UNCHANGED outputVars

OutputNext == ParseInlines \/ HandOver \/ RenderEvent \/ ProjectTree

OutputSpec == OutputInit /\ [][OutputNext \/ Finished]_outputVars
=============================================================================
