------------------------------- MODULE RvAdmit -------------------------------
(***************************************************************************)
(* Admission and placement of real-time processes, in                      *)
(* components/rv9_proc/src/proc.c, with the processor they share.          *)
(*                                                                         *)
(* The host has two real-time priorities; tasks of one priority share the  *)
(* processor slice by slice, in any order.  Every process declares its     *)
(* execution time and an interval, of its period or of its event, is       *)
(* released no more often than that and works no longer.                   *)
(***************************************************************************)
EXTENDS Naturals, Sequences, Functions, FiniteSetsExt

CONSTANTS
  RtIds,      \* processes there may be
  RtPrograms, \* [c, t, d, pin, event]: execution, interval, deadline, the
              \* placement declared or "derived", whether an event releases it
  RtSlots,    \* MAX_RT_TASKS
  Analysed,   \* RT_MAX_ANALYSED
  Ceiling,    \* RT_UTIL_MAX_PERMILLE
  Rounds,     \* of response_bound
  OneByOne,   \* whether a fork waits until the one before has declared its
              \* release, which the code does not ask
  Quiet,      \* whether processes come and go only when nothing is owed
  NoProgram

\* A program of no declared execution time or interval is not of these.
ASSUME AdmitAssumption ==
  /\ IsFiniteSet(RtIds) /\ RtSlots \in Nat /\ Analysed \in Nat \ {0} /\ Rounds \in Nat \ {0}
  /\ OneByOne \in BOOLEAN /\ Quiet \in BOOLEAN
  /\ \A g \in RtPrograms : /\ g.c \in Nat \ {0} /\ g.t \in Nat \ {0} /\ g.d \in Nat
                          /\ g.pin \in {"derived", "urgent", "routine"} /\ g.event \in BOOLEAN

VARIABLES
  rt,       \* per process [step, prog, urgent, seen, runs]: where admission
            \* placed it last, what its declaration read of that, and where it
            \* runs
  order,    \* those in the process table, the newest first
  owed,     \* what is left of the release being answered
  released  \* how long ago the last release was, up to the interval

admitVars == <<rt, order, owed, released>>

NoRt == [step |-> "none", prog |-> NoProgram, urgent |-> FALSE, seen |-> FALSE, runs |-> FALSE]

AdmitInit ==
  /\ rt = [p \in RtIds |-> NoRt] /\ order = <<>>
  /\ owed = [p \in RtIds |-> 0] /\ released = [p \in RtIds |-> 0]

(***************************************************************************)
(* Response times and placement, over a sequence of tasks [c, t, d, pin,   *)
(* bounded] and the set of those that are urgent.                          *)
(***************************************************************************)
\* Those that can run before task i is done: its peers, and all above it.
Ahead(tasks, urgent, i) ==
  {j \in DOMAIN tasks \ {i} : tasks[j].bounded /\ (i \in urgent => j \in urgent)}

\* Bug: the division does not round up.
ReleasesDown(task, r) == (IF r = 0 THEN 1 ELSE r) \div task.t

Releases(task, r) == ((IF r = 0 THEN 1 ELSE r) + task.t - 1) \div task.t

Needed(tasks, urgent, i, r) ==
  tasks[i].c + SumFunctionOnSet([j \in DOMAIN tasks |-> Releases(tasks[j], r) * tasks[j].c],
                                Ahead(tasks, urgent, i))

\* response_bound.
Bound(tasks, urgent, i) ==
  LET R[k \in 0..Rounds] ==
        IF k = 0 THEN tasks[i].c
        ELSE LET r == R[k - 1]
             IN IF k > 1 /\ r > tasks[i].d THEN r ELSE Needed(tasks, urgent, i, r)
  IN R[Rounds]

Meets(tasks, urgent, level) ==
  \A i \in level : tasks[i].bounded => Bound(tasks, urgent, i) <= tasks[i].d

\* The one to move out of the way: the longest deadline, the first of equals.
Victim(tasks, movable) ==
  CHOOSE i \in movable : \A j \in movable \ {i} :
    tasks[j].d < tasks[i].d \/ (tasks[j].d = tasks[i].d /\ i < j)

\* Those left urgent once one more has been moved, if the rest do not meet their
\* deadlines and there is one to move.
Shed(tasks, urgent) ==
  LET bounded == {i \in urgent : tasks[i].bounded}
      movable == {i \in bounded : tasks[i].pin = "derived"}
  IN IF Meets(tasks, urgent, urgent) \/ movable = {} \/ Cardinality(bounded) <= 1
     THEN urgent ELSE urgent \ {Victim(tasks, movable)}

\* place_rt: who is urgent, and whether that is a placement.
Place(tasks) ==
  LET all == DOMAIN tasks
      Left[k \in 0..Len(tasks)] ==
        IF k = 0 THEN {i \in all : tasks[i].pin # "routine"} ELSE Shed(tasks, Left[k - 1])
      urgent == Left[Len(tasks)]
  IN [ok |-> Meets(tasks, urgent, urgent) /\ Meets(tasks, urgent, all \ urgent), urgent |-> urgent]

(***************************************************************************)
(* From admission to the declared release.                                 *)
(***************************************************************************)
\* Its descriptor has an interval: from the start, or only when it has
\* declared the event that releases it.
Counted(p) == ~rt[p].prog.event \/ rt[p].step \in {"declaring", "declared"}

Task(g, bounded) == [c |-> g.c, t |-> g.t, d |-> g.d, pin |-> g.pin, bounded |-> bounded]

\* The newest of the table; whoever is being admitted comes last.
Known == SubSeq(order, 1, Min({Len(order), Analysed - 1}))
Workload(g) ==
  [i \in DOMAIN Known |-> Task(rt[Known[i]].prog, Counted(Known[i]))] \o <<Task(g, TRUE)>>

Permille(g) == (g.c * 1000) \div g.t
Load == SumFunction([i \in DOMAIN order |->
                      IF Counted(order[i]) THEN Permille(rt[order[i]].prog) ELSE 0])

Serving == {p \in RtIds : rt[p].step = "declared"}
Settled == Quiet => \A p \in RtIds : owed[p] = 0

\* admit_rt, where it admits, moving who must be moved.  What it refuses it
\* leaves as it was.
AdmitRt(p, g) ==
  LET placed == Place(Workload(g))
      Placed(i) == i \in placed.urgent
  IN /\ rt[p] = NoRt /\ Settled
     /\ OneByOne => \A q \in RtIds : rt[q].step \in {"none", "declared"}
     /\ Cardinality(Serving) < RtSlots
     /\ g.c <= g.d /\ g.d <= g.t /\ Load + Permille(g) <= Ceiling
     /\ placed.ok
     /\ rt' = [q \in RtIds |->
                 IF q = p
                 THEN LET mine == Placed(Len(Known) + 1)
                      IN [step |-> "admitted", prog |-> g, urgent |-> mine, seen |-> FALSE,
                          runs |-> mine]
                 ELSE IF q \in Range(Known)
                 THEN LET now == Placed(CHOOSE i \in DOMAIN Known : Known[i] = q)
                      IN [rt[q] EXCEPT !.urgent = now, !.runs = now]
                 ELSE rt[q]]
     /\ UNCHANGED <<order, owed, released>>

\* The fork goes on: into the table; or is refused after all.
Enter(p) ==
  /\ rt[p].step = "admitted" /\ rt' = [rt EXCEPT ![p].step = "entered"]
  /\ order' = <<p>> \o order /\ UNCHANGED <<owed, released>>

TurnedAway(p) ==
  /\ rt[p].step = "admitted" /\ rt' = [rt EXCEPT ![p] = NoRt]
  /\ UNCHANGED <<order, owed, released>>

\* env_rt_declare or env_rt_declare_event: where it is placed is read under
\* the lock and set once a slot is taken.  For want of one it says so.
Declares(p) ==
  /\ rt[p].step = "entered"
  /\ rt' = [rt EXCEPT ![p] = [@ EXCEPT !.step = "declaring", !.seen = rt[p].urgent]]
  /\ UNCHANGED <<order, owed, released>>

TakesSlot(p) ==
  /\ rt[p].step = "declaring" /\ Cardinality(Serving) < RtSlots
  /\ rt' = [rt EXCEPT ![p] = [@ EXCEPT !.step = "declared", !.runs = rt[p].seen, !.seen = FALSE]]
  /\ released' = [released EXCEPT ![p] = IF rt[p].prog.event THEN rt[p].prog.t ELSE 0]
  /\ UNCHANGED <<order, owed>>

Ends(p) ==
  /\ rt[p].step \in {"entered", "declaring", "declared"} /\ Settled
  /\ rt' = [rt EXCEPT ![p] = NoRt]
  /\ \E i \in DOMAIN order :
       order[i] = p /\ order' = SubSeq(order, 1, i - 1) \o SubSeq(order, i + 1, Len(order))
  /\ owed' = [owed EXCEPT ![p] = 0] /\ released' = [released EXCEPT ![p] = 0]

(***************************************************************************)
(* The processor.                                                          *)
(***************************************************************************)
Arrives(p) ==
  /\ p \in Serving /\ owed[p] = 0 /\ released[p] = rt[p].prog.t
  /\ owed' = [owed EXCEPT ![p] = rt[p].prog.c] /\ released' = [released EXCEPT ![p] = 0]
  /\ UNCHANGED <<rt, order>>

Answering == {p \in RtIds : owed[p] > 0}
Highest == LET above == {p \in Answering : rt[p].runs} IN IF above = {} THEN Answering ELSE above

\* A unit of time, for one of those at the highest priority.
Elapse ==
  /\ released' = [p \in RtIds |-> IF p \in Serving THEN Min({released[p] + 1, rt[p].prog.t})
                                  ELSE released[p]]
  /\ IF Answering = {} THEN UNCHANGED owed
     ELSE \E p \in Highest : owed' = [owed EXCEPT ![p] = @ - 1]
  /\ UNCHANGED <<rt, order>>

AdmitNext ==
  \/ Elapse
  \/ \E p \in RtIds : Enter(p) \/ TurnedAway(p) \/ Declares(p) \/ TakesSlot(p) \/ Ends(p) \/ Arrives(p)
  \/ \E p \in RtIds, g \in RtPrograms : AdmitRt(p, g)

AdmitSpec == AdmitInit /\ [][AdmitNext]_admitVars

(***************************************************************************)
(* Properties.                                                             *)
(***************************************************************************)
\* Whatever has been admitted and declared has answered every release by its
\* deadline, whoever else was admitted before or after it and wherever they
\* were moved (admit_rt: "whether everything already admitted still meets its
\* deadlines with it there").
DeadlinesAreMet ==
  \A p \in RtIds : owed[p] > 0 => released[p] < rt[p].prog.d

=============================================================================
