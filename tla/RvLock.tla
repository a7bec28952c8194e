------------------------------- MODULE RvLock -------------------------------
(***************************************************************************)
(* rv9_lock_t: components/rv9_kal/src/kal_rt.c.                            *)
(*                                                                         *)
(* A host mutex taken both by RV-9 threads, which all live in the kernel's *)
(* one host task and switch only where they sleep or call the scheduler,   *)
(* and by host tasks, which can be preempted, and preempt, anywhere.  The  *)
(* lock notes which thread holds it, so that a waiter can lend that thread *)
(* its priority inside RV-9's own scheduler.                               *)
(*                                                                         *)
(* Taking the mutex, noting the holder, reading whom to boost and boosting *)
(* it are separate steps, and so are the three of a release.               *)
(***************************************************************************)
EXTENDS Naturals, FiniteSets

CONSTANTS
  Threads,      \* RV-9 threads
  Tasks,        \* host tasks: real-time loops, and background tasks
  Locks,
  Before,       \* pairs <<k, l>>: callers may hold k when they take l
  None          \* no thread, no actor

ASSUME LockAssumption ==
  /\ IsFiniteSet(Locks) /\ Threads \cap Tasks = {} /\ None \notin Threads \cup Tasks
  /\ Threads # {} /\ Locks # {} /\ Before \subseteq Locks \X Locks

VARIABLES
  mux,          \* who has the host mutex
  holder,       \* lock_impl_t.holder: the RV-9 thread noted, if any
  boosted,      \* lock_impl_t.boosted
  holds,        \* struct rv9k_thread.holds
  boost,        \* struct rv9k_thread.boost is RV9K_PRIO_MAX
  pc, lock,     \* where an actor is in acquire or release, and of which lock
  seen,         \* the thread it read under the guard, to boost or unboost
  cpu, alive    \* the running RV-9 thread; those not yet stopped

vars == <<mux, holder, boosted, holds, boost, pc, lock, seen, cpu, alive>>

Actors == Threads \cup Tasks
Points == {"idle", "own", "contend", "boost", "wait", "unboost", "give"}

Init ==
  /\ mux = [l \in Locks |-> None] /\ holder = [l \in Locks |-> None]
  /\ boosted = [l \in Locks |-> FALSE]
  /\ holds = [t \in Threads |-> 0] /\ boost = [t \in Threads |-> FALSE]
  /\ pc = [a \in Actors |-> "idle"] /\ lock = [a \in Actors |-> CHOOSE l \in Locks : TRUE]
  /\ seen = [a \in Actors |-> None]
  /\ cpu \in Threads /\ alive = Threads

\* A host task runs whenever the host lets it; a thread when the kernel does.
At(a, p) == pc[a] = p /\ (a \in Threads => cpu = a)
Go(a, p) == pc' = [pc EXCEPT ![a] = p]

Held(a) == {l \in Locks : mux[l] = a}

(***************************************************************************)
(* rv9_lock_acquire.                                                       *)
(***************************************************************************)
TryTake(a, l) ==
  /\ At(a, "idle") /\ mux[l] # a /\ \A k \in Held(a) : <<k, l>> \in Before
  /\ lock' = [lock EXCEPT ![a] = l]
  /\ \/ /\ mux[l] = None
        /\ mux' = [mux EXCEPT ![l] = a] /\ Go(a, "own")
     \/ /\ mux[l] # None
        /\ Go(a, "contend") /\ UNCHANGED mux
  /\ UNCHANGED <<holder, boosted, holds, boost, seen, cpu, alive>>

\* Under the guard: note who holds the lock, and count it on the thread.
Noted(a, l) ==
  /\ holder' = [holder EXCEPT ![l] = IF a \in Threads THEN a ELSE None]
  /\ holds' = [t \in Threads |-> IF t = a THEN holds[t] + 1 ELSE holds[t]]

Own(a) ==
  /\ At(a, "own")
  /\ Noted(a, lock[a])
  /\ Go(a, "idle")
  /\ UNCHANGED <<mux, boosted, boost, lock, seen, cpu, alive>>

\* Under the guard: read the holder, and mark the lock as having lent.
Contend(a) ==
  /\ At(a, "contend")
  /\ \/ /\ holder[lock[a]] # None
        /\ seen' = [seen EXCEPT ![a] = holder[lock[a]]]
        /\ boosted' = [boosted EXCEPT ![lock[a]] = TRUE]
        /\ Go(a, "boost")
     \/ /\ holder[lock[a]] = None
        /\ Go(a, "wait") /\ UNCHANGED <<seen, boosted>>
  /\ UNCHANGED <<mux, holder, holds, boost, lock, cpu, alive>>

\* rv9k_priority_boost, to RV9K_PRIO_MAX, of the thread read.
Lent(t) == [boost EXCEPT ![t] = TRUE]

Boost(a) ==
  /\ At(a, "boost")
  /\ boost' = Lent(seen[a])
  /\ seen' = [seen EXCEPT ![a] = None]
  /\ Go(a, "wait")
  /\ UNCHANGED <<mux, holder, boosted, holds, lock, cpu, alive>>

\* A thread polls between sleeps; a host task blocks on the mutex.
Get(a) ==
  /\ At(a, "wait") /\ mux[lock[a]] = None
  /\ mux' = [mux EXCEPT ![lock[a]] = a]
  /\ Go(a, "own")
  /\ UNCHANGED <<holder, boosted, holds, boost, lock, seen, cpu, alive>>

(***************************************************************************)
(* rv9_lock_release.                                                       *)
(***************************************************************************)
\* Under the guard: the holder is forgotten and no longer counted.
Forgotten(l) ==
  /\ holder' = [holder EXCEPT ![l] = None]
  /\ holds' = [t \in Threads |-> IF t = holder[l] /\ holds[t] > 0 THEN holds[t] - 1 ELSE holds[t]]

Release(a, l) ==
  /\ At(a, "idle") /\ mux[l] = a
  /\ Forgotten(l)
  /\ boosted' = [boosted EXCEPT ![l] = FALSE]
  /\ seen' = [seen EXCEPT ![a] = IF boosted[l] THEN holder[l] ELSE None]
  /\ lock' = [lock EXCEPT ![a] = l]
  /\ Go(a, "unboost")
  /\ UNCHANGED <<mux, boost, cpu, alive>>

\* Bug: the borrowed priority is kept.
Kept(t) == boost

\* rv9k_priority_unboost takes the whole boost away, whoever lent it.
Returned(t) == [u \in Threads |-> boost[u] /\ u # t]

Unboost(a) ==
  /\ At(a, "unboost")
  /\ boost' = Returned(seen[a])
  /\ seen' = [seen EXCEPT ![a] = None]
  /\ Go(a, "give")
  /\ UNCHANGED <<mux, holder, boosted, holds, lock, cpu, alive>>

GiveMux(a) ==
  /\ At(a, "give")
  /\ mux' = [mux EXCEPT ![lock[a]] = None]
  /\ Go(a, "idle")
  /\ UNCHANGED <<holder, boosted, holds, boost, lock, seen, cpu, alive>>

(***************************************************************************)
(* The kernel switches threads where they sleep or call it, and one thread *)
(* may stop another (rv9_task_kill).                                       *)
(***************************************************************************)
Switch(t) ==
  /\ pc[cpu] \in {"idle", "wait"} /\ t \in alive
  /\ cpu' = t
  /\ UNCHANGED <<mux, holder, boosted, holds, boost, pc, lock, seen, alive>>

\* Bug: a thread is stopped whatever it holds.
MayStopAny(t) == TRUE

\* rv9k_thread_stop's refusal.
MayStop(t) == holds[t] = 0

Stop(t) ==
  /\ pc[cpu] = "idle" /\ t # cpu /\ t \in alive /\ MayStop(t)
  /\ alive' = alive \ {t}
  /\ UNCHANGED <<mux, holder, boosted, holds, boost, pc, lock, seen, cpu>>

Acquiring(a) == Own(a) \/ Contend(a) \/ Boost(a) \/ Get(a) \/ \E l \in Locks : TryTake(a, l)
Releasing(a) == Unboost(a) \/ GiveMux(a) \/ \E l \in Locks : Release(a, l)
Scheduling(t) == Switch(t) \/ Stop(t)

Next == \/ \E a \in Actors : Acquiring(a) \/ Releasing(a)
        \/ \E t \in Threads : Scheduling(t)

Spec == Init /\ [][Next]_vars

(***************************************************************************)
(* What the lock promises.                                                 *)
(***************************************************************************)
TypeOK ==
  /\ mux \in [Locks -> Actors \cup {None}] /\ holder \in [Locks -> Threads \cup {None}]
  /\ boosted \in [Locks -> BOOLEAN]
  /\ holds \in [Threads -> Nat] /\ boost \in [Threads -> BOOLEAN]
  /\ pc \in [Actors -> Points] /\ lock \in [Actors -> Locks]
  /\ seen \in [Actors -> Threads \cup {None}]
  /\ cpu \in Threads /\ alive \subseteq Threads
  /\ \A a \in Actors : pc[a] = "boost" => seen[a] # None

\* The thread a lock names is the one that has its mutex, from the note at the
\* end of an acquire to the start of the release: a waiter never boosts a
\* thread that let go before, or never had it.
Changing(a, l) == lock[a] = l /\ pc[a] \in {"own", "unboost", "give"}
HolderOwns ==
  /\ \A l \in Locks : holder[l] # None => mux[l] = holder[l] /\ ~Changing(holder[l], l)
  /\ \A l \in Locks, t \in Threads : mux[l] = t /\ ~Changing(t, l) => holder[l] = t

\* In the middle of an acquire or a release the mutex is the actor's and names
\* nobody; a thread is there only while it has the processor.
Working ==
  \A a \in Actors : Changing(a, lock[a]) => mux[lock[a]] = a /\ holder[lock[a]] = None
OffCpu == cpu \in alive /\ \A t \in Threads : t # cpu => pc[t] \in {"idle", "wait"}

\* kal_rt.c:252-254: "Counted on the thread, so nothing stops it while it holds
\* this".  What is counted is exactly the locks it holds.
HoldsCounted ==
  \A t \in Threads : holds[t] = Cardinality({l \in Locks : holder[l] = t})

\* A stop leaves no lock behind that nobody will ever release.
NoOrphanLock == \A l \in Locks : mux[l] \in Threads => mux[l] \in alive

\* Together they are inductive.
LockInv == HolderOwns /\ Working /\ OffCpu /\ HoldsCounted /\ NoOrphanLock

\* design.md:838-839: "releasing the lock returns it to whatever it had earned".
\* A thread runs at a borrowed priority only while it holds, or is letting go
\* of, a lock that lent it.
BorrowedOnlyWhileHeld ==
  \A t \in Threads : boost[t] =>
    \/ \E l \in Locks : holder[l] = t /\ boosted[l]
    \/ pc[t] = "unboost" /\ seen[t] = t

\* sched.c:284-285: "nothing drops it below while it holds the lock".  A lock
\* that has lent its holder a priority finds it boosted until it lets go.
LentStays ==
  \A l \in Locks :
    boosted[l] => boost[holder[l]] \/ \E a \in Actors : pc[a] = "boost" /\ seen[a] = holder[l]
=============================================================================
