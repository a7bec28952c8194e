------------------------------ MODULE MCRvPipe ------------------------------
(***************************************************************************)
(* Instances of RvPipe for TLC.                                            *)
(***************************************************************************)
EXTENDS RvPipe, TLC

CONSTANTS a, b, e1, e2, e3    \* two names, three ends

AnyMode == {{"r"}, {"w"}, {"r", "w"}}

\* Which end or name is which makes no difference.
Alike == Permutations({e1, e2, e3}) \cup Permutations({a, b})
=============================================================================
