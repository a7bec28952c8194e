------------------------------ MODULE RvRelease ------------------------------
(***************************************************************************)
(* Real-time tasks and what releases them: components/rv9_kal/src/kal_rt.c *)
(* with rt_overrun of proc.c.                                              *)
(*                                                                         *)
(* A task waits for the release clock or for an event.  Interrupts come    *)
(* between any two of its steps, and late; another task may ask it to      *)
(* stop; the watchdog flags one that is past its deadline, and seizes it   *)
(* where it finds it in its own code.                                      *)
(***************************************************************************)
EXTENDS Naturals, FiniteSets, FiniteSetsExt

CONSTANTS
  Periodic,  \* tasks released by the clock
  Sporadic,  \* tasks released by an event, each by its own
  Period,    \* of the periodic ones
  Deadline,  \* from the release, and fatal; 0 where there is none
  Runaway,   \* RV9_RT_RUNAWAY_MS
  Backlog,   \* MISS_BACKLOG, what a semaphore holds
  MaxTime,   \* bound: how long the clock runs
  MaxSignals,\* bound: signals of one event not looked at
  Uses       \* which tasks have been declared, one choice to a behaviour

RtTasks == Periodic \cup Sporadic

ASSUME ReleaseAssumption ==
  /\ Periodic \cap Sporadic = {} /\ Period \in [Periodic -> Nat \ {0}]
  /\ Deadline \in [RtTasks -> Nat] /\ Runaway \in Nat /\ Backlog \in Nat \ {0}
  /\ MaxTime \in Nat /\ MaxSignals \in Nat /\ Uses \subseteq SUBSET RtTasks

VARIABLES
  now,      \* the clock
  next,     \* when a periodic task is next to be released
  given,    \* what the semaphore a task waits on holds
  pending,  \* signals of its event that a task has not looked at
  sending,  \* signals counted and not yet given
  at,       \* where a task is
  due,      \* the release it is to answer next
  late,     \* how late its activation began
  since,    \* released_at_us
  acts,     \* whether it has been activated at all, after its first wait
  stop, flagged,
  outlived  \* whether an activation outlived its deadline, counted from the
            \* release it served, while the task was on its schedule

rtVars == <<now, next, given, pending, sending, at, due, late, since, acts, stop, flagged,
            outlived>>
source == <<next, given, pending, sending>>
judged == <<due, late, since, acts, outlived>>
fate == <<stop, flagged>>

AtWork == {"own", "call"}

RtInit ==
  /\ now = 0 /\ next = [t \in Periodic |-> Period[t]]
  /\ given = [t \in RtTasks |-> 0] /\ pending = [t \in Sporadic |-> 0]
  /\ sending = [t \in Sporadic |-> 0]
  /\ \E used \in Uses : at = [t \in RtTasks |-> IF t \in used THEN "own" ELSE "gone"]
  /\ due = [t \in RtTasks |-> IF t \in Periodic THEN Period[t] ELSE 0]
  /\ late = [t \in RtTasks |-> 0] /\ since = [t \in RtTasks |-> 0]
  /\ acts = [t \in RtTasks |-> FALSE]
  /\ stop = [t \in RtTasks |-> FALSE] /\ flagged = [t \in RtTasks |-> FALSE]
  /\ outlived = [t \in RtTasks |-> FALSE]

Steps(t, x, y) == at[t] = x /\ at' = [at EXCEPT ![t] = y]
More(n) == Min({n + 1, Backlog})

(***************************************************************************)
(* What releases them.                                                     *)
(***************************************************************************)
Tick ==
  /\ now < MaxTime /\ now' = now + 1
  /\ UNCHANGED <<source, at, judged, fate>>

\* clock_isr and release_fire: whole periods already gone are gone.
Fire(t) ==
  /\ at[t] # "gone" /\ next[t] <= now
  /\ next' = [next EXCEPT ![t] = @ + ((now - @) \div Period[t] + 1) * Period[t]]
  /\ given' = [given EXCEPT ![t] = More(@)]
  /\ UNCHANGED <<now, pending, sending, at, judged, fate>>

\* rv9_event_signal, with or without an interrupt: count, then give.
Signal(t) ==
  /\ at[t] # "gone" /\ pending[t] < MaxSignals /\ sending[t] < MaxSignals
  /\ pending' = [pending EXCEPT ![t] = @ + 1] /\ sending' = [sending EXCEPT ![t] = @ + 1]
  /\ UNCHANGED <<now, next, given, at, judged, fate>>

SignalGive(t) ==
  /\ sending[t] > 0
  /\ sending' = [sending EXCEPT ![t] = @ - 1] /\ given' = [given EXCEPT ![t] = More(@)]
  /\ UNCHANGED <<now, next, pending, at, judged, fate>>

(***************************************************************************)
(* A task: in its own code, in a call, and at rv9_rt_wait.                 *)
(***************************************************************************)
Call(t) ==
  /\ Steps(t, "own", "call") \/ Steps(t, "call", "own")
  /\ UNCHANGED <<now, source, judged, fate>>

Response(t) == (now - since[t]) + late[t]
Missed(t) == acts[t] /\ Deadline[t] # 0 /\ Response(t) > Deadline[t]

\* The release a periodic activation serves, by the clock alone.
Served(t) == (since[t] \div Period[t]) * Period[t]
Outlived(t) ==
  /\ t \in Periodic /\ acts[t] /\ Deadline[t] # 0 /\ due[t] <= since[t] + Period[t]
  /\ now - Served(t) > Deadline[t]

\* rv9_rt_wait, up to where it waits.
Arrive(t) ==
  /\ Steps(t, "own", IF stop[t] \/ Missed(t) \/ flagged[t] THEN "ending" ELSE "take")
  /\ outlived' = [outlived EXCEPT ![t] = @ \/ Outlived(t)]
  /\ UNCHANGED <<now, source, due, late, since, acts, fate>>

Take(t) ==
  /\ given[t] > 0 /\ Steps(t, "take", "drain")
  /\ given' = [given EXCEPT ![t] = @ - 1]
  /\ UNCHANGED <<now, next, pending, sending, judged, fate>>

\* Bug: whether to stop was looked at before the drain took the wakeup.
DrainLast(t) ==
  /\ Steps(t, "drain", "clock") /\ given' = [given EXCEPT ![t] = 0]
  /\ UNCHANGED <<now, next, pending, sending, judged, fate>>

\* The rest of what is queued is stale; then stop is looked at.
Drain(t) ==
  /\ Steps(t, "drain", "stopped") /\ given' = [given EXCEPT ![t] = 0]
  /\ UNCHANGED <<now, next, pending, sending, judged, fate>>

Stopped(t) ==
  /\ Steps(t, "stopped", IF stop[t] THEN "ending" ELSE "clock")
  /\ UNCHANGED <<now, source, judged, fate>>

\* Bug: an activation is on time whenever it begins.
LateForgiven(t, over) == 0

LateBySchedule(t, over) == over % Period[t]

\* The clock is read: what was missed is counted from the schedule.
Activate(t) ==
  LET over == IF now > due[t] THEN now - due[t] ELSE 0
      missed == over \div Period[t]
  IN /\ t \in Periodic
     /\ Steps(t, "clock", IF missed > 0 /\ acts[t] /\ Deadline[t] # 0 THEN "ending" ELSE "own")
     /\ late' = [late EXCEPT ![t] = LateBySchedule(t, over)]
     /\ due' = [due EXCEPT ![t] = @ + (missed + 1) * Period[t]]
     /\ since' = [since EXCEPT ![t] = now] /\ acts' = [acts EXCEPT ![t] = TRUE]
     /\ UNCHANGED <<now, source, outlived, fate>>

\* An event is answered, its signals together; a wakeup with none is not.
Respond(t) ==
  /\ t \in Sporadic /\ Steps(t, "clock", IF pending[t] > 0 THEN "own" ELSE "take")
  /\ pending' = [pending EXCEPT ![t] = 0]
  /\ IF pending[t] > 0
     THEN since' = [since EXCEPT ![t] = now] /\ acts' = [acts EXCEPT ![t] = TRUE]
     ELSE UNCHANGED <<since, acts>>
  /\ UNCHANGED <<now, next, given, sending, due, late, outlived, fate>>

(***************************************************************************)
(* Stopping a task.                                                        *)
(***************************************************************************)
\* rv9_rt_stop, of a task that has a slot.
AskToStop(t) ==
  /\ at[t] # "gone" /\ ~stop[t]
  /\ stop' = [stop EXCEPT ![t] = TRUE] /\ given' = [given EXCEPT ![t] = More(@)]
  /\ UNCHANGED <<now, next, pending, sending, at, judged, flagged>>

\* watch_fire: past its deadline, or past the limit and on the CPU for half
\* of it, which a task in its own code may have been.
Watch(t) ==
  /\ at[t] \in AtWork /\ ~flagged[t] /\ (Missed(t) \/ now - since[t] > Runaway)
  /\ flagged' = [flagged EXCEPT ![t] = TRUE]
  /\ UNCHANGED <<now, source, at, judged, stop>>

\* watch_task, rt_overrun and rv9_rt_seize: in its own code, or asked again.
Seize(t) ==
  /\ flagged[t] /\ Steps(t, "own", "seized")
  /\ UNCHANGED <<now, source, judged, fate>>

\* finish by the task, or rt_overrun for it: out of the table, and the hook.
Gone(t) ==
  /\ Steps(t, "ending", "gone") \/ Steps(t, "seized", "gone")
  /\ UNCHANGED <<now, source, judged, fate>>

RtNext ==
  \/ Tick
  \/ \E t \in Periodic : Fire(t) \/ Activate(t)
  \/ \E t \in Sporadic : Signal(t) \/ SignalGive(t) \/ Respond(t)
  \/ \E t \in RtTasks :
       Call(t) \/ Arrive(t) \/ Take(t) \/ Drain(t) \/ Stopped(t) \/ AskToStop(t) \/ Watch(t)
       \/ Seize(t) \/ Gone(t)

RtSpec == RtInit /\ [][RtNext]_rtVars

(***************************************************************************)
(* Properties.                                                             *)
(***************************************************************************)
\* Every variable keeps its type.
RtTypeOK ==
  /\ now \in Nat /\ next \in [Periodic -> Nat] /\ given \in [RtTasks -> 0..Backlog]
  /\ pending \in [Sporadic -> Nat] /\ sending \in [Sporadic -> Nat]
  /\ at \in [RtTasks -> AtWork \cup {"take", "drain", "stopped", "clock", "ending", "seized", "gone"}]
  /\ due \in [RtTasks -> Nat] /\ late \in [RtTasks -> Nat] /\ since \in [RtTasks -> Nat]
  /\ acts \in [RtTasks -> BOOLEAN] /\ stop \in [RtTasks -> BOOLEAN] /\ flagged \in [RtTasks -> BOOLEAN]
  /\ outlived \in [RtTasks -> BOOLEAN]

Asleep(t) == at[t] = "take" /\ given[t] = 0

\* Nothing a waiting task is to hear is lost: asleep, it has not been asked
\* to stop, its event's signals are still being given, and the release it is
\* to answer next has not gone by.
NothingSleptThrough ==
  /\ RtTypeOK
  /\ \A t \in RtTasks : Asleep(t) =>
       /\ ~stop[t]
       /\ t \in Sporadic => (pending[t] > 0 => sending[t] > 0)
       /\ t \in Periodic => next[t] <= due[t]

\* "The late activation is the last one": a task whose activation outlived
\* its deadline, counted from the release it served, works no more.
LateIsLast == \A t \in Periodic : outlived[t] => at[t] \notin AtWork

\* Each release is answered or known to be late (kal_rt.c: rv9_rt_wait).
ReleasesKept == NothingSleptThrough /\ LateIsLast

=============================================================================
