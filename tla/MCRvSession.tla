---------------------------- MODULE MCRvSession ----------------------------
(***************************************************************************)
(* Instances of RvSession for TLC.                                         *)
(***************************************************************************)
EXTENDS RvSession, TLC

CONSTANTS p1, p2, p3, d1, d2, d3    \* processes and path descriptors

World(stops, cut, just) == [StopsAt |-> stops, CutsOff |-> cut, MayJustClose |-> just]

\* Calls that leave, and hangups alone; calls that are cut off or stopped; a
\* last close with no hangup; and everything at once.
Quiet == World({}, FALSE, FALSE)
Cutting == World({"in"}, TRUE, FALSE)
Closing == World({}, FALSE, TRUE)
Rough == World({"in"}, TRUE, TRUE)
QuietToRough == {Quiet, Cutting, Rough}
OnlyClosing == {Closing}

\* Which process or descriptor is which makes no difference.
Alike == Permutations({p1, p2, p3}) \cup Permutations({d1, d2})
=============================================================================
