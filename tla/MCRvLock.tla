------------------------------ MODULE MCRvLock ------------------------------
(***************************************************************************)
(* Instances of RvLock for TLC, several at once: a cast says which threads *)
(* and host tasks take part, on which locks, and whether a lock is taken   *)
(* inside another.                                                         *)
(***************************************************************************)
EXTENDS RvLock, TLC

CONSTANTS l1, l2      \* two locks

VARIABLE cast

\* Locks are nested in one order, and only so.
InOrder == {<<l1, l2>>}

Cast(plays, uses, nests) == [plays |-> plays, uses |-> uses, nests |-> nests]
Casts == {Cast({1, 2, 3}, {l1, l2}, FALSE), Cast({1, 2, 3}, {l1, l2}, TRUE),
          Cast({1, 2, 11}, {l1, l2}, FALSE), Cast({1, 2, 11}, {l1, l2}, TRUE),
          Cast({1, 2, 11, 12}, {l1}, FALSE)}

CastInit == Init /\ cast \in Casts /\ cpu \in cast.plays

\* Nobody else runs, or is stopped.
CastNext ==
  /\ Next /\ UNCHANGED cast
  /\ cpu' \in cast.plays /\ \A t \in Tasks \ cast.plays : pc'[t] = "idle"
  /\ Threads \ cast.plays \subseteq alive'
  /\ \A a \in Actors : pc'[a] # "idle" => lock'[a] \in cast.uses
  /\ cast.nests \/ \A x \in Actors : Cardinality({l \in Locks : mux'[l] = x}) <= 1

CastSpec == CastInit /\ [][CastNext]_<<vars, cast>>

\* A loan lasts as long as what it was made for.  Between RV-9 threads, a thread
\* runs at a borrowed priority only while it holds a lock that lent it one
\* (kal_rt.c, rv9_lock_release); where no lock is taken inside another, one that
\* was lent a priority keeps it until it lets go, whoever contends
\* (rv9_lock_acquire).
LoansLast ==
  /\ cast.plays \subseteq Threads => BorrowedOnlyWhileHeld
  /\ ~cast.nests => LentStays
=============================================================================
