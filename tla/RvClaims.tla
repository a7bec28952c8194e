------------------------------ MODULE RvClaims ------------------------------
(***************************************************************************)
(* Who owns a device, and how it is left: components/rv9_io/src/claim.c,   *)
(* and the hooks of io.c that the process manager calls at fork and exit.  *)
(*                                                                         *)
(* A process is admitted, runs, and is taken apart by its exit hook: what  *)
(* it promised is noted, its paths are closed, its reservations given      *)
(* back, and its actuators parked, each under a hold of its own.           *)
(***************************************************************************)
EXTENDS Naturals, FiniteSets, FiniteSetsExt

CONSTANTS
  Pids,         \* processes
  Nobody,       \* RV9_PID_NONE, the owner of a detached path
  Devs,         \* actuators, by the full name of the resource
  Manifests,    \* [needs, parks]: what a program wants alone, and promises
  Copies,       \* bound: how often a process opens one device
  MaxFailsafes  \* MAX_FAILSAFES

ASSUME ClaimsAssumption ==
  /\ Nobody \notin Pids \cup Devs /\ IsFiniteSet(Pids) /\ IsFiniteSet(Devs)
  /\ IsFiniteSet(Copies) /\ Copies \subseteq Nat /\ MaxFailsafes \in Nat
  /\ Manifests \subseteq [needs : SUBSET Devs, parks : SUBSET Devs]

VARIABLES
  claim,   \* per device and owner, the claim: refs is 0 where there is none
  path,    \* per device, opener and copy, the processes that have the path
  life,    \* where a process is
  todo,    \* devices it has still to reserve, or to park
  plan,    \* the manifest it was admitted with
  hand,    \* what its exit hook is parking
  drove,   \* per device: who wrote to it last
  turned   \* parks that were refused or forgotten, by process and device

claimVars == <<claim, path, life, todo, plan, hand, drove, turned>>

Owners == Pids \cup {Nobody}
NoClaim == [refs |-> 0, exclusive |-> FALSE, reserved |-> FALSE, failsafe |-> FALSE]
NoPlan == [needs |-> {}, parks |-> {}]

Hook == {"snap", "close", "release", "park"}

ClaimsInit ==
  /\ claim = [d \in Devs |-> [o \in Owners |-> NoClaim]]
  /\ path = [x \in Devs \X Pids \X Copies |-> {}]
  /\ life = [p \in Pids |-> "none"] /\ todo = [p \in Pids |-> {}]
  /\ plan = [p \in Pids |-> NoPlan] /\ hand = [p \in Pids |-> Nobody]
  /\ drove = [d \in Devs |-> Nobody] /\ turned = {}

Turns(p, x, y) == life[p] = x /\ life' = [life EXCEPT ![p] = y]

(***************************************************************************)
(* claim.c                                                                 *)
(***************************************************************************)
\* Bug: only the standing claim's exclusiveness counts.
BlockedByStanding(C, d, o, exclusive) ==
  \E other \in Owners \ {o} : C[d][other].refs > 0 /\ C[d][other].exclusive

Blocked(C, d, o, exclusive) ==
  \E other \in Owners \ {o} : C[d][other].refs > 0 /\ (C[d][other].exclusive \/ exclusive)

\* take_locked, where nobody is in the way.
Taken(C, d, o, exclusive) ==
  [C EXCEPT ![d][o].refs = @ + 1, ![d][o].exclusive = @ \/ exclusive]

\* drop_locked: the last reference takes the record, and what it promised.
Dropped(C, d, o) ==
  LET c == C[d][o]
  IN [C EXCEPT ![d][o] = IF c.refs > 1 THEN [c EXCEPT !.refs = @ - 1] ELSE NoClaim]

\* Bug: a resource named twice is two references.
ReservedStacking(C, d, o) == [Taken(C, d, o, TRUE) EXCEPT ![d][o].reserved = TRUE]

\* rv9_claim_reserve: a second one is the same requirement.
Reserved(C, d, o) ==
  IF C[d][o].reserved THEN [C EXCEPT ![d][o].exclusive = TRUE]
  ELSE [Taken(C, d, o, TRUE) EXCEPT ![d][o].reserved = TRUE]

\* rv9_claim_release_pid.
Released(C, o) ==
  [d \in Devs |->
     IF C[d][o].reserved THEN Dropped([C EXCEPT ![d][o].reserved = FALSE], d, o)[d]
     ELSE C[d]]

\* rv9_claim_failsafe, for everything in a manifest.
Promised(C, p, devs) ==
  [d \in Devs |-> IF d \in devs THEN [C[d] EXCEPT ![p].failsafe = TRUE] ELSE C[d]]

Owned(p) == {d \in Devs : claim[d][p].refs > 0}
Promises(p) == {d \in Devs : claim[d][p].failsafe}

(***************************************************************************)
(* Admission: io_claim_for_fork. A pid comes back only when nothing it     *)
(* owned is left.                                                          *)
(***************************************************************************)
Fork(p, m) ==
  /\ life[p] \in {"none", "ended"} /\ Owned(p) = {}
  /\ life' = [life EXCEPT ![p] = "admission"]
  /\ plan' = [plan EXCEPT ![p] = m] /\ todo' = [todo EXCEPT ![p] = m.needs]
  /\ turned' = {x \in turned : x[1] # p}
  /\ drove' = [d \in Devs |-> IF drove[d] = p THEN Nobody ELSE drove[d]]
  /\ UNCHANGED <<claim, path, hand>>

\* One exclusive device after the other. A refusal is undone by the caller,
\* through the exit hook.
Reserve(p, d) ==
  /\ life[p] = "admission" /\ d \in todo[p]
  /\ IF Blocked(claim, d, p, TRUE)
     THEN /\ life' = [life EXCEPT ![p] = "snap"] /\ todo' = [todo EXCEPT ![p] = {}]
          /\ UNCHANGED claim
     ELSE /\ claim' = Reserved(claim, d, p)
          /\ todo' \in {[todo EXCEPT ![p] = @ \ {d}], todo}     \* named again, or not
          /\ UNCHANGED life
  /\ UNCHANGED <<path, plan, hand, drove, turned>>

\* claim_failsafes: a promise needs a claim; else the fork is refused.
Promise(p) ==
  /\ life[p] = "admission" /\ todo[p] = {}
  /\ claim' = Promised(claim, p, plan[p].parks \cap Owned(p))
  /\ life' = [life EXCEPT ![p] = IF plan[p].parks \subseteq Owned(p) THEN "admitted" ELSE "snap"]
  /\ UNCHANGED <<path, todo, plan, hand, drove, turned>>

\* A program refused its stack or its heap after the claims: undo_fork.
Refused(p) ==
  /\ Turns(p, "admitted", "snap")
  /\ UNCHANGED <<claim, path, todo, plan, hand, drove, turned>>

\* io_on_fork: a child shares what its parent has at the standard paths.
Start(p, std) ==
  /\ Turns(p, "admitted", "live")
  /\ std = {} \/ \E q \in Pids \ {p} : life[q] = "live" /\ \A x \in std : q \in path[x]
  /\ path' = [x \in DOMAIN path |-> IF x \in std THEN path[x] \cup {p} ELSE path[x]]
  /\ UNCHANGED <<claim, todo, plan, hand, drove, turned>>

(***************************************************************************)
(* A running process.                                                      *)
(***************************************************************************)
Free(p, d) == {k \in Copies : path[<<d, p, k>>] = {}}

Open(p, d, exclusive) ==
  /\ life[p] = "live" /\ Free(p, d) # {} /\ ~Blocked(claim, d, p, exclusive)
  /\ claim' = Taken(claim, d, p, exclusive)
  /\ path' = [path EXCEPT ![<<d, p, Min(Free(p, d))>>] = {p}]
  /\ UNCHANGED <<life, todo, plan, hand, drove, turned>>

Write(p, x) ==
  /\ life[p] = "live" /\ p \in path[x]
  /\ drove' = [drove EXCEPT ![x[1]] = p]
  /\ UNCHANGED <<claim, path, life, todo, plan, hand, turned>>

\* path_release, for each of the paths in xs: the last to let go drops the claim.
Without(p, xs) == [x \in DOMAIN path |-> IF x \in xs THEN path[x] \ {p} ELSE path[x]]

Closed(p, xs) ==
  LET last == {x \in xs : path[x] = {p}}
  IN [d \in Devs |-> [o \in Owners |->
        LET n == Cardinality({x \in last : x[1] = d /\ x[2] = o})
        IN IF n = 0 THEN claim[d][o]
           ELSE IF claim[d][o].refs > n THEN [claim[d][o] EXCEPT !.refs = @ - n] ELSE NoClaim]]

Close(p, x) ==
  /\ life[p] = "live" /\ p \in path[x]
  /\ path' = Without(p, {x}) /\ claim' = Closed(p, {x})
  /\ UNCHANGED <<life, todo, plan, hand, drove, turned>>

\* It returns, or is stopped and found by whoever looks at it next.
Leaves(p) ==
  /\ Turns(p, "live", "snap")
  /\ UNCHANGED <<claim, path, todo, plan, hand, drove, turned>>

(***************************************************************************)
(* io_on_exit.                                                             *)
(***************************************************************************)
\* Bug: reservations are given back before what was promised is noted.
SnapshotLate(p) ==
  /\ Turns(p, "snap", "close") /\ claim' = Released(claim, p)
  /\ todo' = [todo EXCEPT ![p] = {d \in Devs : claim'[d][p].failsafe}]
  /\ UNCHANGED <<path, plan, hand, drove, turned>>

Snapshot(p) ==
  /\ Turns(p, "snap", "close")
  /\ \E fs \in SUBSET Promises(p) :
       /\ Cardinality(fs) = Min({Cardinality(Promises(p)), MaxFailsafes})
       /\ todo' = [todo EXCEPT ![p] = fs] /\ turned' = turned \ ({p} \X fs)
  /\ UNCHANGED <<claim, path, plan, hand, drove>>

Mine(p) == {x \in DOMAIN path : p \in path[x]}

ClosePaths(p) ==
  /\ Turns(p, "close", "release")
  /\ path' = Without(p, Mine(p)) /\ claim' = Closed(p, Mine(p))
  /\ UNCHANGED <<todo, plan, hand, drove, turned>>

GiveBack(p) ==
  /\ Turns(p, "release", "park") /\ claim' = Released(claim, p)
  /\ UNCHANGED <<path, todo, plan, hand, drove, turned>>

\* apply_failsafes: a detached open, which may be refused like any other.
ParkOpen(p, d) ==
  /\ life[p] = "park" /\ hand[p] = Nobody /\ d \in todo[p]
  /\ todo' = [todo EXCEPT ![p] = @ \ {d}]
  /\ IF Blocked(claim, d, Nobody, FALSE)
     THEN turned' = turned \cup {<<p, d>>} /\ UNCHANGED <<claim, hand>>
     ELSE /\ claim' = Taken(claim, d, Nobody, FALSE)
          /\ hand' = [hand EXCEPT ![p] = d] /\ UNCHANGED turned
  /\ UNCHANGED <<path, life, plan, drove>>

\* The write, and the close after it.
ParkWrite(p) ==
  /\ life[p] = "park" /\ hand[p] # Nobody
  /\ drove' = [drove EXCEPT ![hand[p]] = Nobody]
  /\ claim' = Dropped(claim, hand[p], Nobody)
  /\ hand' = [hand EXCEPT ![p] = Nobody]
  /\ UNCHANGED <<path, life, todo, plan, turned>>

Departed(p) ==
  /\ todo[p] = {} /\ hand[p] = Nobody /\ Turns(p, "park", "ended")
  /\ UNCHANGED <<claim, path, todo, plan, hand, drove, turned>>

\* Stopped inside the hook, not with a device open to be parked; the collector
\* runs it again from the start, where what has been given back is not noted.
StoppedInHook(p) ==
  /\ life[p] \in Hook /\ hand[p] = Nobody
  /\ life' = [life EXCEPT ![p] = "snap"] /\ todo' = [todo EXCEPT ![p] = {}]
  /\ turned' = turned \cup {<<p, d>> : d \in todo[p]}
  /\ UNCHANGED <<claim, path, plan, hand, drove>>

ClaimsNext ==
  \E p \in Pids :
    \/ \E m \in Manifests : Fork(p, m)
    \/ \E d \in Devs : Reserve(p, d) \/ ParkOpen(p, d)
    \/ \E d \in Devs, exclusive \in BOOLEAN : Open(p, d, exclusive)
    \/ \E x \in DOMAIN path : Write(p, x) \/ Close(p, x)
    \/ \E std \in SUBSET DOMAIN path : Cardinality(std) <= 1 /\ Start(p, std)
    \/ Promise(p) \/ Refused(p) \/ Leaves(p)
    \/ Snapshot(p) \/ ClosePaths(p) \/ GiveBack(p) \/ ParkWrite(p) \/ Departed(p)
    \/ StoppedInHook(p)

ClaimsSpec == ClaimsInit /\ [][ClaimsNext]_claimVars

(***************************************************************************)
(* Properties.                                                             *)
(***************************************************************************)
\* Every variable keeps its type.
ClaimsTypeOK ==
  /\ claim \in [Devs -> [Owners -> [refs : Nat, exclusive : BOOLEAN, reserved : BOOLEAN,
                                    failsafe : BOOLEAN]]]
  /\ path \in [Devs \X Pids \X Copies -> SUBSET Pids]
  /\ life \in [Pids -> Hook \cup {"none", "admission", "admitted", "live", "ended"}]
  /\ todo \in [Pids -> SUBSET Devs] /\ hand \in [Pids -> Devs \cup {Nobody}]
  /\ drove \in [Devs -> Pids \cup {Nobody}] /\ turned \subseteq Pids \X Devs

Paths(d, o) ==
  IF o = Nobody THEN {p \in Pids : hand[p] = d}
  ELSE {k \in Copies : path[<<d, o, k>>] # {}}

\* A claim's references are its owner's open paths, whoever has them now,
\* and its one reservation: it goes with the last of them, and no sooner.  And
\* a program does not get to keep the motor by dying: what an ended process
\* still owns is open in the hands of another, through an inherited path.
ClaimsAreHeld ==
  /\ ClaimsTypeOK
  /\ \A d \in Devs, o \in Owners :
       claim[d][o].refs = Cardinality(Paths(d, o)) + (IF claim[d][o].reserved THEN 1 ELSE 0)
  /\ \A p \in Pids, d \in Devs :
       life[p] = "ended" /\ claim[d][p].refs > 0 =>
         \E k \in Copies : \E q \in path[<<d, p, k>>] : q # p /\ life[q] # "ended"

\* A device claimed exclusively has one owner, through opens, upgrades of an
\* open to exclusive, reservations at fork, inherited paths and parks.
ExclusiveIsAlone ==
  \A d \in Devs, o \in Owners :
    claim[d][o].exclusive => \A other \in Owners \ {o} : claim[d][other].refs = 0

\* Who owns a device owns it for a reason that is still there, and alone where
\* it was promised alone (claim.c: take_locked, drop_locked).
ClaimsHold == ClaimsAreHeld /\ ExclusiveIsAlone

\* A device is not left as an ended process drove it if that process promised
\* to park it, unless its park was refused for another's exclusive claim, or
\* it was stopped between giving back what it owned and parking it.
LeftAsPromised ==
  \A p \in Pids, d \in Devs :
    life[p] = "ended" /\ d \in plan[p].parks /\ drove[d] = p => <<p, d>> \in turned

=============================================================================
