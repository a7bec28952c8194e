------------------------------ MODULE MCRvProc ------------------------------
(***************************************************************************)
(* Instances of RvProc for TLC: one module or two, whose processes cost    *)
(* one and may hold two.                                                   *)
(***************************************************************************)
EXTENDS RvProc, TLC

CONSTANTS m1, m2, d1, d2, d3, t1, t2

Costs == [m \in Mods |-> 1]
Limits == [m \in Mods |-> 2]
Everywhere == Points
Alike == Permutations(Slots) \cup Permutations(Descs)

\* The third fork only where nobody has been stopped, or has chained.
FewStops == next_serial' < MaxSerial \/ (lost' = {} /\ links'[m2] = 0)

\* Every fork is of one module; the first process may chain to the other.
ChainsChange ==
  /\ \A a \in Actors : pc'[a] = "claim" => job'[a].mod = m1
  /\ \A t \in Slots : pc'[t] = "chain" /\ pc[t] = "idle" =>
       job'[t].mod = m2 /\ proc[body[t]].mod = m1 /\ proc[body[t]].serial = 1

FewStopsSpec == Init /\ [][Next /\ FewStops /\ ChainsChange]_vars
=============================================================================
