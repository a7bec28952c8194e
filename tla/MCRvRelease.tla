----------------------------- MODULE MCRvRelease ----------------------------
(***************************************************************************)
(* Instances of RvRelease for TLC: a control loop on the clock, or a       *)
(* handler of a button, one to a behaviour.                                *)
(***************************************************************************)
EXTENDS RvRelease, TLC
CONSTANTS loop, button
EveryTwo == [t \in Periodic |-> 2]
WithinOne == [t \in RtTasks |-> IF t \in Periodic THEN 1 ELSE 0]
OneAtATime == {{t} : t \in RtTasks}
=============================================================================
