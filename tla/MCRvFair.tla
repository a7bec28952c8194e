------------------------------ MODULE MCRvFair ------------------------------
(***************************************************************************)
(* Instances for TLC of what must happen in the end: a thread gets the     *)
(* processor and a deadline ends, a link comes back.  A behaviour is of    *)
(* the kernel or of the network driver, chosen at the start.  The other    *)
(* stands still, and its fairness asks for nothing: a kernel in which no   *)
(* thread has been created, a driver with no network.                      *)
(***************************************************************************)
EXTENDS MCRvKernel, RvLink

CONSTANTS home, away    \* networks

VARIABLE follows

fairVars == <<follows, vars, linkVars>>

Empty == INSTANCE RvKernel WITH InitPrio <- [t \in Threads |-> -1]

FairInit ==
  /\ LinkInit
  /\ \/ follows = "kernel" /\ Init /\ saved = NoNetwork
     \/ follows = "link" /\ Empty!Init

FairNext ==
  /\ UNCHANGED follows
  /\ IF follows = "kernel" THEN Next ELSE UNCHANGED vars
  /\ IF follows = "link" THEN LinkNext ELSE UNCHANGED linkVars

\* The fairness of RvKernel and of RvLink, each in the behaviours that are its own.
FairToKernel ==
  /\ WF_vars(follows = "kernel" /\ Inside) /\ WF_vars(follows = "kernel" /\ Tick)
  /\ \A t \in Threads : WF_vars(follows = "kernel" /\ Yield(t))

FairToLink ==
  /\ WF_linkVars(follows = "link" /\ Handle) /\ WF_linkVars(follows = "link" /\ TickOfWatch)
  /\ WF_linkVars(follows = "link" /\ Calls)
  /\ SF_linkVars(follows = "link" /\ Joins) /\ SF_linkVars(follows = "link" /\ Leases)
  /\ SF_linkVars(follows = "link" /\ radio.on \notin InRange /\ Fails)

FairBoth == FairInit /\ [][FairNext]_fairVars /\ FairToKernel /\ FairToLink
=============================================================================
