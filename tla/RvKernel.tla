------------------------------- MODULE RvKernel -------------------------------
(***************************************************************************)
(* The RV-9 native kernel: components/rv9_kernel/src/sched.c.              *)
(*                                                                         *)
(* One processor runs either a kernel thread or the host loop that serves  *)
(* them (rv9k_serve).  Threads give the processor up only inside           *)
(* reschedule(); interrupts arrive between any two steps and do exactly    *)
(* two things: advance the tick and give to a semaphore or a queue.        *)
(*                                                                         *)
(* A step of the model is a stretch of C no interrupt can tell apart from  *)
(* an indivisible one.  The check of a count (under the interrupt mask),   *)
(* the push onto the wait queue, each turn of drain_pending and the choice *)
(* of the next thread are steps of their own, because an interrupt between *)
(* them is seen.                                                           *)
(*                                                                         *)
(* A wait queue stands for a semaphore's, a mutex's, or one of the two of  *)
(* a message queue; count[w] is what its waiters wait for (a semaphore's   *)
(* count, the items in a queue, or the room in it).                        *)
(***************************************************************************)
EXTENDS Integers, Sequences, FiniteSets

CONSTANTS
  NThreads,      \* slots of the thread table (RV9K_MAX_THREADS)
  Waitqs,        \* the wait queues
  Mutexes,       \* those that belong to a mutex
  Partner,       \* a message queue's other side, NoQ for the rest
  NoQ,           \* "not blocked": a NULL blocked_on
  Initial,       \* count each wait queue starts with
  Limit,         \* largest count (rv9k_sem_t.max, or the queue's capacity)
  IsrQs,         \* wait queues an interrupt gives to
  InitPrio,      \* priority of each thread that exists at the start, or -1
  NewPrios,      \* priorities rv9k_thread_create and priority_set are given
  Boosts,        \* priorities rv9k_priority_boost is given
  PrioMax,       \* RV9K_PRIO_MAX
  AgeMax,        \* RV9K_AGE_MAX
  AgePeriod,     \* RV9K_AGE_PERIOD_TICKS
  PendingMax,    \* PENDING_MAX, the notes ring
  Timeouts,      \* timeouts rv9k_sem_take is given, in ticks, or Never
  Sleeps,        \* lengths rv9k_sleep_ticks is given
  Killable,      \* threads rv9k_thread_kill is called on
  Stoppable,     \* threads rv9k_thread_stop is called on
  Careless,      \* threads that may end, or be killed, holding a mutex
  MayOverrun,    \* threads that may run off their stack
  MaxDepth,      \* bound on a mutex's nesting
  MaxLock        \* bound on rv9k_sched_lock's nesting

Threads == 1..NThreads
Host == 0        \* s_current == NULL: the host loop has the processor
Never == -1      \* RV9K_WAIT_FOREVER, or a deadline that is not armed

ASSUME KernelAssumption ==
  /\ NThreads \in Nat \ {0}
  /\ NoQ \notin Waitqs
  /\ Mutexes \subseteq Waitqs /\ IsrQs \subseteq Waitqs \ Mutexes
  /\ Partner \in [Waitqs -> Waitqs \cup {NoQ}]
  /\ \A w \in Waitqs : Partner[w] # NoQ =>
       w \notin Mutexes /\ Partner[w] # w /\ Partner[Partner[w]] = w
  /\ Initial \in [Waitqs -> Nat] /\ Limit \in [Waitqs -> Nat \ {0}]
  /\ \A w \in Waitqs : Initial[w] <= Limit[w]
  /\ \A w \in Waitqs : Partner[w] # NoQ => Initial[w] + Initial[Partner[w]] = Limit[w]
  /\ \A m \in Mutexes : Initial[m] = 1 /\ Limit[m] = 1
  /\ PrioMax \in Nat /\ AgeMax \in Nat
  /\ AgePeriod \in Nat \ {0} /\ PendingMax \in Nat \ {0}
  /\ InitPrio \in [Threads -> -1..PrioMax]
  /\ NewPrios \subseteq 0..PrioMax /\ Boosts \subseteq 1..PrioMax
  /\ Timeouts \subseteq Nat \cup {Never} /\ Sleeps \subseteq Nat
  /\ Killable \subseteq Threads /\ Stoppable \subseteq Threads
  /\ Careless \subseteq Threads /\ MayOverrun \subseteq Threads
  /\ MaxDepth \in Nat \ {0} /\ MaxLock \in Nat

VARIABLES
  \* the thread table, one function per field of struct rv9k_thread
  state, blockedOn, timer, base, age, boost, eff, seq,
  fault,         \* why the kernel stopped it; held is fault # "NONE"
  holds, cancel, stack,
  \* where a thread is inside the kernel, and what it is taking
  pc, want, limit,
  \* the kernel's own state
  current, schedLock, ageIn, pend, lost,
  \* the semaphores, mutexes and message queues
  waitq, count, owner, depth,
  \* a stale stack pointer was loaded, or a list link means nothing any more
  crashed

listVars == <<waitq, blockedOn, timer>>
prioVars == <<base, age, boost, eff>>
lifeVars == <<fault, cancel, stack>>
callVars == <<pc, want, limit>>
lockVars == <<owner, depth, holds>>
pendVars == <<pend, lost>>
vars == <<state, listVars, prioVars, seq, lifeVars, callVars, lockVars, pendVars,
          current, schedLock, ageIn, count, crashed>>

States == {"DEAD", "READY", "RUNNING", "SLEEPING", "BLOCKED"}
Faults == {"NONE", "STACK", "KILLED"}
Points == {"run", "block", "resched", "woke"}
Stacks == {"none", "ok", "overrun"}

(***************************************************************************)
(* rv9k_init, and the threads that exist when the kernel starts serving.   *)
(***************************************************************************)
Lesser(a, b) == IF a < b THEN a ELSE b
Greater(a, b) == IF a > b THEN a ELSE b

\* Bug: the age is counted and never added.
EffectiveUnaged(b, a, k) == Greater(k, Lesser(b, PrioMax))

\* recompute_priority: base plus age, capped, and never below the boost.
Effective(b, a, k) == Greater(k, Lesser(b + a, PrioMax))

Init ==
  /\ state = [t \in Threads |-> IF InitPrio[t] < 0 THEN "DEAD" ELSE "READY"]
  /\ stack = [t \in Threads |-> IF InitPrio[t] < 0 THEN "none" ELSE "ok"]
  /\ base = [t \in Threads |-> Greater(0, InitPrio[t])]
  /\ eff = base
  /\ age = [t \in Threads |-> 0] /\ boost = [t \in Threads |-> 0]
  /\ seq = [t \in Threads |-> 0]
  /\ blockedOn = [t \in Threads |-> NoQ] /\ timer = [t \in Threads |-> Never]
  /\ fault = [t \in Threads |-> "NONE"] /\ cancel = [t \in Threads |-> FALSE]
  /\ holds = [t \in Threads |-> 0]
  /\ pc = [t \in Threads |-> "run"] /\ want = [t \in Threads |-> NoQ]
  /\ limit = [t \in Threads |-> Never]
  /\ current = Host /\ schedLock = 0 /\ ageIn = AgePeriod
  /\ pend = <<>> /\ lost = FALSE
  /\ waitq = [w \in Waitqs |-> <<>>] /\ count = Initial
  /\ owner = [m \in Mutexes |-> Host] /\ depth = [m \in Mutexes |-> 0]
  /\ crashed = FALSE

(***************************************************************************)
(* Wait queues.  waitq[w] lists its threads from the head.                 *)
(***************************************************************************)
Members(q) == {q[i] : i \in DOMAIN q}

\* waitq_remove: the list without its element i.
Without(q, i) == [j \in 1..(Len(q) - 1) |-> IF j < i THEN q[j] ELSE q[j + 1]]

\* Bug: a kill or a timeout leaves its thread linked.
StillLinked(q, t) == q

\* The list without thread t, if t is on it at all.
Unlinked(q, t) ==
  IF \E i \in DOMAIN q : q[i] = t
  THEN Without(q, CHOOSE i \in DOMAIN q : q[i] = t) ELSE q

\* The scan of waitq_pop_best: highest effective priority, the first one met
\* from the head among equals.
IsBest(q, i) ==
  \A j \in DOMAIN q : eff[q[i]] > eff[q[j]] \/ (eff[q[i]] = eff[q[j]] /\ i <= j)

\* waitq_pop_best: what it changes, the state of the thread it wakes included.
PopBest(w) ==
  \/ waitq[w] = <<>> /\ UNCHANGED <<listVars, state>>
  \/ \E i \in DOMAIN waitq[w] :
       LET t == waitq[w][i] IN
       /\ IsBest(waitq[w], i)
       /\ waitq' = [waitq EXCEPT ![w] = Without(@, i)]
       /\ blockedOn' = [blockedOn EXCEPT ![t] = NoQ]
       /\ timer' = [timer EXCEPT ![t] = Never]
       /\ state' = [state EXCEPT ![t] = "READY"]

\* A kill or a stop takes its victim off whatever it is blocked on.
Detach(t) ==
  /\ waitq' = IF blockedOn[t] = NoQ THEN waitq
              ELSE [waitq EXCEPT ![blockedOn[t]] = Unlinked(@, t)]
  /\ blockedOn' = [blockedOn EXCEPT ![t] = NoQ]
  /\ timer' = [timer EXCEPT ![t] = Never]

(***************************************************************************)
(* A turn of the scheduler: wake_sleepers, age_threads, pick_next.         *)
(***************************************************************************)
\* Bug: only a sleep ends with the clock.
DueSleeper(t, st) == st[t] = "SLEEPING" /\ timer[t] = 0

\* A sleeper, or a waiter with a deadline, whose tick has come.
Due(t, st) == st[t] \in {"SLEEPING", "BLOCKED"} /\ timer[t] = 0

Awakened(st) == [t \in Threads |-> IF Due(t, st) THEN "READY" ELSE st[t]]

Runnable(st) == {t \in Threads : st[t] \in {"READY", "RUNNING"}}

\* The thread age_threads takes to be the one getting the processor.
IsTop(t, st) ==
  /\ t \in Runnable(st)
  /\ \A u \in Runnable(st) : eff[t] > eff[u] \/ (eff[t] = eff[u] /\ t <= u)

\* Bug: nothing stops a thread from aging.
OlderForever(a) == a + 1

Older(a) == Lesser(a + 1, AgeMax)

AgedAge(st) ==
  IF ageIn > 0 THEN age
  ELSE [t \in Threads |->
         IF t \notin Runnable(st) THEN age[t]
         ELSE IF IsTop(t, st) THEN 0 ELSE Older(age[t])]

\* Bug: aging forgets the floor an inherited priority is.
AgedEffUnboosted(st) ==
  IF ageIn > 0 THEN eff
  ELSE [t \in Threads |->
         IF t \in Runnable(st) THEN Effective(base[t], AgedAge(st)[t], 0) ELSE eff[t]]

AgedEff(st) ==
  IF ageIn > 0 THEN eff
  ELSE [t \in Threads |->
         IF t \in Runnable(st) THEN Effective(base[t], AgedAge(st)[t], boost[t]) ELSE eff[t]]

\* pick_next: highest effective priority, least recently selected first, and
\* the lower slot between two that never ran.
IsNext(n, st, ef) ==
  /\ n \in Runnable(st)
  /\ \A u \in Runnable(st) :
       \/ ef[n] > ef[u]
       \/ ef[n] = ef[u] /\ (seq[n] < seq[u] \/ (seq[n] = seq[u] /\ n <= u))

\* last_ran_seq, kept as a rank: 0 never ran, NThreads ran last.
Selected(n) ==
  [t \in Threads |-> IF t = n THEN NThreads
                     ELSE IF seq[t] > seq[n] THEN seq[t] - 1 ELSE seq[t]]

\* A slot created anew counts as one that never ran.
Forgotten(n) ==
  [t \in Threads |-> IF t = n THEN 0
                     ELSE IF 0 < seq[t] /\ seq[t] < seq[n] THEN seq[t] + 1 ELSE seq[t]]

\* reap_dead: every dead thread's stack but the one being stood on.
Reaped(st, standing) ==
  [t \in Threads |-> IF st[t] = "DEAD" /\ t # standing THEN "none" ELSE stack[t]]

\* What loading thread n's stack pointer can do, the one left saved below its
\* own.  A freed stack left a NULL pointer, and nowhere to save.
\* A context that was never saved -- n is the very thread giving up the
\* processor, or one abandoned by a stack fault -- is a frame already
\* consumed once: harmless if the stack has the same shape, wild if not.
LoadOutcomes(n, from) ==
  IF stack'[n] = "none" \/ \E t \in Threads : t = from /\ stack'[t] = "none" THEN {TRUE}
  ELSE IF n = from \/ stack[n] = "overrun" THEN BOOLEAN
  ELSE {FALSE}

\* The states once the thread giving up has left the processor.
Left(awake, from) ==
  [t \in Threads |-> IF t = from /\ awake[t] = "RUNNING" THEN "READY" ELSE awake[t]]

\* Wake, age, and hand the processor to a thread or to the host.  st is the
\* thread states the turn starts from, from the thread giving up.
Turn(st, from) ==
  LET awake == Awakened(st) IN
     /\ timer' = [t \in Threads |-> IF Due(t, st) THEN Never ELSE timer[t]]
     /\ age' = AgedAge(awake) /\ eff' = AgedEff(awake)
     /\ ageIn' = IF ageIn > 0 THEN ageIn ELSE AgePeriod
     /\ \/ /\ Runnable(awake) = {}
           /\ current' = Host /\ state' = awake
           /\ UNCHANGED <<seq, crashed>>
        \/ \E n \in Threads :
             /\ IsNext(n, awake, eff')
             /\ IF n = from /\ awake[n] = "RUNNING"
                THEN state' = awake /\ UNCHANGED <<current, seq, crashed>>
                ELSE /\ state' = [Left(awake, from) EXCEPT ![n] = "RUNNING"]
                     /\ current' = n /\ seq' = Selected(n)
                     /\ crashed' \in LoadOutcomes(n, from)

(***************************************************************************)
(* Steps inside the kernel.                                                *)
(***************************************************************************)
\* drain_pending acts on one note.
Drain ==
  /\ ~crashed /\ pend # <<>>
  /\ \A t \in Threads : current = t => pc[t] = "resched"
  /\ PopBest(Head(pend))
  /\ pend' = Tail(pend)
  /\ UNCHANGED <<prioVars, seq, lifeVars, callVars, lockVars, lost, current,
                 schedLock, ageIn, count, crashed>>

\* Where a thread resumes once reschedule() returns: block_on, or its caller.
Resumed(t) == [pc EXCEPT ![t] = IF want[t] = NoQ THEN "run" ELSE "woke"]

\* reschedule() with the scheduler locked: the caller keeps the processor.
HeldOff(t) ==
  /\ ~crashed /\ current = t /\ pc[t] = "resched" /\ pend = <<>> /\ schedLock > 0
  /\ pc' = Resumed(t)
  /\ UNCHANGED <<state, listVars, prioVars, seq, lifeVars, want, limit, lockVars,
                 pendVars, current, schedLock, ageIn, count, crashed>>

\* reschedule(), from the stack check on.  An overrun thread is stopped and
\* its corpse kept; its place on a wait queue is left as it is.
Reschedule(t) ==
  LET gone == stack[t] = "overrun"
      st   == IF gone THEN [state EXCEPT ![t] = "DEAD"] ELSE state
  IN /\ ~crashed /\ current = t /\ pc[t] = "resched" /\ pend = <<>> /\ schedLock = 0
     /\ fault' = IF gone THEN [fault EXCEPT ![t] = "STACK"] ELSE fault
     /\ stack' = Reaped(st, t)
     /\ pc' = Resumed(t)
     /\ Turn(st, t)
     /\ UNCHANGED <<waitq, blockedOn, base, boost, cancel, want, limit, lockVars,
                    pendVars, schedLock, count>>

\* One turn of rv9k_serve (and of rv9k_run).
HostTurn ==
  /\ ~crashed /\ current = Host /\ pend = <<>>
  /\ stack' = Reaped(state, Host)
  /\ Turn(state, Host)
  /\ UNCHANGED <<waitq, blockedOn, base, boost, fault, cancel, callVars, lockVars,
                 pendVars, schedLock, count>>

(***************************************************************************)
(* Taking: sem_take, and through it mutex_lock, queue_send, queue_recv.    *)
(***************************************************************************)
\* Thread t is in its own code and may call the kernel.
Calling(t) == ~crashed /\ current = t /\ pc[t] = "run"

\* A call the host task makes too, or whichever thread is running.
AnyoneCalling == ~crashed /\ \A t \in Threads : current = t => pc[t] = "run"

\* "No blocking call may be made while it is held" (kal.h on sched_lock).
MayWait == schedLock = 0

\* The counts once one unit of w is taken: a queue's item leaves room.
Moved(w) ==
  [x \in Waitqs |-> IF x = w THEN count[x] - 1
                    ELSE IF x = Partner[w] THEN count[x] + 1 ELSE count[x]]

\* Bug: the other side of a message queue is not woken.
WakeNobody(w) == UNCHANGED <<listVars, state>>

\* What queue_send and queue_recv give to the other side.
WakePartner(w) == IF Partner[w] = NoQ THEN UNCHANGED <<listVars, state>> ELSE PopBest(Partner[w])

\* rv9k_mutex_lock, once its semaphore is taken.
Own(t, m) ==
  /\ owner' = [owner EXCEPT ![m] = t] /\ depth' = [depth EXCEPT ![m] = 1]
  /\ holds' = [holds EXCEPT ![t] = @ + 1]

\* The check under the interrupt mask succeeded.
Acquire(t, w) ==
  /\ count[w] > 0
  /\ count' = Moved(w)
  /\ IF w \in Mutexes
     THEN Own(t, w)
     ELSE UNCHANGED lockVars
  /\ WakePartner(w)

Take(t, w, d) ==
  /\ Calling(t)
  /\ w \in Mutexes => owner[w] # t
  /\ \/ Acquire(t, w) /\ UNCHANGED callVars
     \/ /\ count[w] = 0 /\ d # 0 /\ MayWait
        /\ pc' = [pc EXCEPT ![t] = "block"]
        /\ want' = [want EXCEPT ![t] = w]
        /\ limit' = [limit EXCEPT ![t] = d]
        /\ UNCHANGED <<state, listVars, lockVars, count>>
  /\ UNCHANGED <<prioVars, seq, lifeVars, pendVars, current, schedLock, ageIn, crashed>>

\* A mutex already ours: count the nesting.
Relock(t, m) ==
  /\ Calling(t) /\ owner[m] = t /\ depth[m] < MaxDepth
  /\ depth' = [depth EXCEPT ![m] = @ + 1]
  /\ UNCHANGED <<state, listVars, prioVars, seq, lifeVars, callVars, owner, holds,
                 pendVars, current, schedLock, ageIn, count, crashed>>

\* block_on up to its reschedule().  Pushing a thread some list still holds
\* overwrites the link it is held by.
BlockOn(t) ==
  /\ ~crashed /\ current = t /\ pc[t] = "block"
  /\ waitq' = [waitq EXCEPT ![want[t]] = <<t>> \o @]
  /\ blockedOn' = [blockedOn EXCEPT ![t] = want[t]]
  /\ timer' = [timer EXCEPT ![t] = limit[t]]
  /\ state' = [state EXCEPT ![t] = "BLOCKED"]
  /\ pc' = [pc EXCEPT ![t] = "resched"]
  /\ crashed' = (\E w \in Waitqs : t \in Members(waitq[w]))
  /\ UNCHANGED <<prioVars, seq, lifeVars, want, limit, lockVars, pendVars, current,
                 schedLock, ageIn, count>>

\* reschedule() returned inside block_on.  Still on the queue: the timeout
\* fired.  Off it: look at the count again, and sleep again if it is gone.
Woke(t) ==
  /\ ~crashed /\ current = t /\ pc[t] = "woke"
  /\ \/ /\ blockedOn[t] # NoQ
        /\ Detach(t)
        /\ pc' = [pc EXCEPT ![t] = "run"] /\ want' = [want EXCEPT ![t] = NoQ]
        /\ limit' = [limit EXCEPT ![t] = Never]
        /\ UNCHANGED <<state, lockVars, count>>
     \/ /\ blockedOn[t] = NoQ
        /\ Acquire(t, want[t])
        /\ pc' = [pc EXCEPT ![t] = "run"] /\ want' = [want EXCEPT ![t] = NoQ]
        /\ limit' = [limit EXCEPT ![t] = Never]
     \/ /\ blockedOn[t] = NoQ /\ count[want[t]] = 0
        /\ pc' = [pc EXCEPT ![t] = "block"]
        /\ UNCHANGED <<state, listVars, want, limit, lockVars, count>>
  /\ UNCHANGED <<prioVars, seq, lifeVars, pendVars, current, schedLock, ageIn, crashed>>

(***************************************************************************)
(* Giving.                                                                 *)
(***************************************************************************)
\* rv9k_sem_give: raise the count as far as max, then wake the best waiter.
Give(w) ==
  /\ count' = [count EXCEPT ![w] = Lesser(@ + 1, Limit[w])]
  /\ PopBest(w)

SemGive(t, w) ==
  /\ Calling(t) /\ w \notin Mutexes /\ Partner[w] = NoQ
  /\ Give(w)
  /\ UNCHANGED <<prioVars, seq, lifeVars, callVars, lockVars, pendVars, current,
                 schedLock, ageIn, crashed>>

MutexUnlock(t, m) ==
  /\ Calling(t) /\ owner[m] = t
  /\ depth' = [depth EXCEPT ![m] = @ - 1]
  /\ IF depth[m] > 1
     THEN UNCHANGED <<state, listVars, owner, holds, count>>
     ELSE /\ owner' = [owner EXCEPT ![m] = Host]
          /\ holds' = [holds EXCEPT ![t] = Greater(@ - 1, 0)]
          /\ Give(m)
  /\ UNCHANGED <<prioVars, seq, lifeVars, callVars, pendVars, current, schedLock,
                 ageIn, crashed>>

\* pend_wake: leave a note if anyone is on the list and the ring has room.
Note(w) ==
  IF waitq[w] = <<>> THEN UNCHANGED pendVars
  ELSE IF Len(pend) < PendingMax - 1 THEN pend' = Append(pend, w) /\ UNCHANGED lost
  ELSE lost' = TRUE /\ UNCHANGED pend

\* rv9k_sem_give_from_isr and rv9k_queue_send_from_isr.  A semaphore leaves
\* its note whether or not the count could rise; a full queue drops the item.
GiveFromIsr(w) ==
  /\ ~crashed
  /\ \/ /\ Partner[w] = NoQ
        /\ count' = [count EXCEPT ![w] = Lesser(@ + 1, Limit[w])]
     \/ /\ Partner[w] # NoQ /\ count[Partner[w]] > 0
        /\ count' = Moved(Partner[w])
  /\ Note(w)
  /\ UNCHANGED <<state, listVars, prioVars, seq, lifeVars, callVars, lockVars,
                 current, schedLock, ageIn, crashed>>

\* rv9k_tick, with the deadlines counted down instead of the clock up.
Tick ==
  /\ ~crashed
  /\ timer' = [t \in Threads |-> IF timer[t] > 0 THEN timer[t] - 1 ELSE timer[t]]
  /\ ageIn' = Greater(ageIn - 1, 0)
  /\ UNCHANGED <<state, waitq, blockedOn, prioVars, seq, lifeVars, callVars, lockVars,
                 pendVars, current, schedLock, count, crashed>>

(***************************************************************************)
(* Giving up the processor, and ending.                                    *)
(***************************************************************************)
\* rv9k_yield, and rv9k_preempt_point on a tick that has moved.
Yield(t) ==
  /\ Calling(t)
  /\ pc' = [pc EXCEPT ![t] = "resched"]
  /\ UNCHANGED <<state, listVars, prioVars, seq, lifeVars, want, limit, lockVars,
                 pendVars, current, schedLock, ageIn, count, crashed>>

Sleep(t, d) ==
  /\ Calling(t) /\ MayWait
  /\ timer' = [timer EXCEPT ![t] = d]
  /\ state' = [state EXCEPT ![t] = "SLEEPING"]
  /\ pc' = [pc EXCEPT ![t] = "resched"]
  /\ UNCHANGED <<waitq, blockedOn, prioVars, seq, lifeVars, want, limit, lockVars,
                 pendVars, current, schedLock, ageIn, count, crashed>>

\* A caller that pairs its locks and unlocks holds nothing when it ends.
MayEnd(t) == holds[t] = 0 \/ t \in Careless

Exit(t) ==
  /\ Calling(t) /\ MayWait /\ MayEnd(t)
  /\ state' = [state EXCEPT ![t] = "DEAD"]
  /\ pc' = [pc EXCEPT ![t] = "resched"]
  /\ UNCHANGED <<listVars, prioVars, seq, lifeVars, want, limit, lockVars, pendVars,
                 current, schedLock, ageIn, count, crashed>>

\* What rv9k_thread_kill and rv9k_thread_stop do to a victim alike.
End(u) ==
  /\ Detach(u)
  /\ state' = [state EXCEPT ![u] = "DEAD"]
  /\ pc' = [pc EXCEPT ![u] = "run"] /\ want' = [want EXCEPT ![u] = NoQ]
  /\ limit' = [limit EXCEPT ![u] = Never]
  /\ UNCHANGED <<prioVars, seq, stack, lockVars, pendVars, current, schedLock, ageIn,
                 count, crashed>>

Kill(t, u) ==
  /\ Calling(t) /\ u # t /\ MayEnd(u)
  /\ End(u)
  /\ UNCHANGED <<fault, cancel>>

\* Bug: a thread that holds a lock is stopped like any other.
StopRegardless(t, u) ==
  /\ Calling(t) /\ u # t /\ state[u] # "DEAD"
  /\ End(u) /\ fault' = [fault EXCEPT ![u] = "KILLED"] /\ UNCHANGED cancel

Stop(t, u) ==
  /\ Calling(t) /\ u # t /\ state[u] # "DEAD"
  /\ \/ /\ holds[u] = 0
        /\ End(u)
        /\ fault' = [fault EXCEPT ![u] = "KILLED"]
        /\ UNCHANGED cancel
     \/ /\ holds[u] > 0
        /\ cancel' = [cancel EXCEPT ![u] = TRUE]
        /\ UNCHANGED <<state, listVars, prioVars, seq, fault, stack, callVars, lockVars,
                       pendVars, current, schedLock, ageIn, count, crashed>>

\* rv9k_thread_release, called by the layer that has read a corpse's fault.
Release(u) ==
  /\ AnyoneCalling
  /\ fault[u] # "NONE"
  /\ fault' = [fault EXCEPT ![u] = "NONE"]
  /\ UNCHANGED <<state, listVars, prioVars, seq, cancel, stack, callVars, lockVars,
                 pendVars, current, schedLock, ageIn, count, crashed>>

\* Bug: a corpse's slot is free as soon as its stack is.
FreeOnceReaped(u) == state[u] = "DEAD" /\ stack[u] = "none"

\* rv9k_thread_create takes the first slot that is dead, reaped and let go.
Free(u) == state[u] = "DEAD" /\ stack[u] = "none" /\ fault[u] = "NONE"

Create(u, p) ==
  /\ AnyoneCalling
  /\ Free(u) /\ \A v \in Threads : v < u => ~Free(v)
  /\ state' = [state EXCEPT ![u] = "READY"]
  /\ stack' = [stack EXCEPT ![u] = "ok"]
  /\ base' = [base EXCEPT ![u] = p] /\ eff' = [eff EXCEPT ![u] = p]
  /\ age' = [age EXCEPT ![u] = 0] /\ boost' = [boost EXCEPT ![u] = 0]
  /\ seq' = Forgotten(u)
  /\ holds' = [holds EXCEPT ![u] = 0] /\ cancel' = [cancel EXCEPT ![u] = FALSE]
  /\ blockedOn' = [blockedOn EXCEPT ![u] = NoQ]
  /\ timer' = [timer EXCEPT ![u] = Never]
  /\ pc' = [pc EXCEPT ![u] = "run"] /\ want' = [want EXCEPT ![u] = NoQ]
  /\ limit' = [limit EXCEPT ![u] = Never]
  /\ UNCHANGED <<waitq, fault, owner, depth, pendVars, current, schedLock, ageIn,
                 count, crashed>>

\* The thread's stack pointer went below the floor of its stack: not a call,
\* but what stack_intact looks for at the next switch.
Overrun(t) ==
  /\ Calling(t) /\ t \in MayOverrun /\ stack[t] = "ok"
  /\ stack' = [stack EXCEPT ![t] = "overrun"]
  /\ UNCHANGED <<state, listVars, prioVars, seq, fault, cancel, callVars, lockVars,
                 pendVars, current, schedLock, ageIn, count, crashed>>

(***************************************************************************)
(* Priorities and the scheduler lock.                                      *)
(***************************************************************************)
PrioritySet(t, u, p) ==
  /\ Calling(t)
  /\ base' = [base EXCEPT ![u] = p] /\ age' = [age EXCEPT ![u] = 0]
  /\ eff' = [eff EXCEPT ![u] = Effective(p, 0, boost[u])]
  /\ UNCHANGED <<state, listVars, boost, seq, lifeVars, callVars, lockVars, pendVars,
                 current, schedLock, ageIn, count, crashed>>

\* rv9k_priority_boost raises the floor; unboost (k = 0) takes it away whole.
SetBoost(t, u, k) ==
  /\ Calling(t) /\ (k > boost[u] \/ (k = 0 /\ boost[u] > 0))
  /\ boost' = [boost EXCEPT ![u] = k]
  /\ eff' = [eff EXCEPT ![u] = Effective(base[u], age[u], k)]
  /\ UNCHANGED <<state, listVars, base, age, seq, lifeVars, callVars, lockVars, pendVars,
                 current, schedLock, ageIn, count, crashed>>

SchedLock(t) ==
  /\ Calling(t) /\ schedLock < MaxLock
  /\ schedLock' = schedLock + 1
  /\ UNCHANGED <<state, listVars, prioVars, seq, lifeVars, callVars, lockVars, pendVars,
                 current, ageIn, count, crashed>>

SchedUnlock(t) ==
  /\ Calling(t) /\ schedLock > 0
  /\ schedLock' = schedLock - 1
  /\ pc' = IF schedLock = 1 THEN [pc EXCEPT ![t] = "resched"] ELSE pc
  /\ UNCHANGED <<state, listVars, prioVars, seq, lifeVars, want, limit, lockVars, pendVars,
                 current, ageIn, count, crashed>>

(***************************************************************************)
(* The kernel.                                                             *)
(***************************************************************************)
\* Steps the kernel takes by itself once it has been entered.
Inside == \/ Drain \/ HostTurn
          \/ \E t \in Threads : HeldOff(t) \/ Reschedule(t) \/ BlockOn(t) \/ Woke(t)

Locking(t) ==
  \/ \E w \in Waitqs, d \in Timeouts : Take(t, w, d)
  \/ \E w \in Waitqs : SemGive(t, w)
  \/ \E m \in Mutexes : Relock(t, m) \/ MutexUnlock(t, m)
  \/ SchedLock(t) \/ SchedUnlock(t)

Ending(t) ==
  \/ Exit(t) \/ Overrun(t)
  \/ \E u \in Killable : Kill(t, u)
  \/ \E u \in Stoppable : Stop(t, u)

Prioritising(t) ==
  \E u \in Threads :
    \/ \E p \in NewPrios : PrioritySet(t, u, p)
    \/ Boosts # {} /\ \E k \in Boosts \cup {0} : SetBoost(t, u, k)

Call(t) ==
  \/ Locking(t) \/ Ending(t) \/ Prioritising(t) \/ Yield(t)
  \/ \E d \in Sleeps : Sleep(t, d)

Interrupt == Tick \/ \E w \in IsrQs : GiveFromIsr(w)

Next ==
  \/ Inside \/ Interrupt
  \/ \E t \in Threads : Call(t) \/ Release(t) \/ \E p \in NewPrios : Create(t, p)

Spec == Init /\ [][Next]_vars

\* Once entered the kernel goes on, the clock ticks, and a thread in its own
\* code reaches a call that offers the processor (every system call does).
Fairness ==
  /\ WF_vars(Inside) /\ WF_vars(Tick)
  /\ \A t \in Threads : WF_vars(Yield(t))

FairSpec == Spec /\ Fairness

(***************************************************************************)
(* What the kernel promises.                                               *)
(***************************************************************************)
StateType == state \in [Threads -> States]
LifeType ==
  /\ fault \in [Threads -> Faults] /\ cancel \in [Threads -> BOOLEAN]
  /\ stack \in [Threads -> Stacks]
ListType ==
  /\ waitq \in [Waitqs -> Seq(Threads)]
  /\ blockedOn \in [Threads -> Waitqs \cup {NoQ}] /\ timer \in [Threads -> Nat \cup {Never}]
CallType ==
  /\ pc \in [Threads -> Points] /\ want \in [Threads -> Waitqs \cup {NoQ}]
  /\ limit \in [Threads -> Nat \cup {Never}]
  /\ \A t \in Threads : pc[t] = "run" => want[t] = NoQ
  /\ \A t \in Threads : pc[t] \in {"block", "woke"} => want[t] # NoQ
PrioType ==
  /\ base \in [Threads -> 0..PrioMax] /\ eff \in [Threads -> 0..PrioMax]
  /\ boost \in [Threads -> 0..PrioMax] /\ age \in [Threads -> 0..AgeMax]
  /\ seq \in [Threads -> 0..NThreads]
LockType ==
  /\ count \in [Waitqs -> Nat] /\ holds \in [Threads -> Nat]
  /\ owner \in [Mutexes -> Threads \cup {Host}] /\ depth \in [Mutexes -> Nat]
  /\ \A k \in Mutexes : owner[k] # Host => depth[k] > 0
CpuType ==
  /\ current \in Threads \cup {Host} /\ schedLock \in Nat /\ ageIn \in 0..AgePeriod
  /\ pend \in Seq(Waitqs) /\ lost \in BOOLEAN /\ crashed \in BOOLEAN

\* Every variable holds what its C declaration and the API's clamps allow: a
\* priority in its band, an age within AgeMax, a count that is not negative.
TypeOK == /\ StateType /\ LifeType /\ ListType /\ CallType
          /\ PrioType /\ LockType /\ CpuType

\* A thread is linked on exactly the list its blocked_on names, and once: the
\* two are written in different places by block_on, waitq_pop_best, the kill,
\* the stop and the timeout.
Distinct(q) == \A i, j \in DOMAIN q : q[i] = q[j] => i = j
QueueConsistent ==
  /\ \A t \in Threads, w \in Waitqs : t \in Members(waitq[w]) <=> blockedOn[t] = w
  /\ \A w \in Waitqs : Distinct(waitq[w])

\* Only the thread that has the processor is RUNNING, and nothing but a corpse
\* nobody stands on has had its stack given back to the heap: reap_dead spares
\* the one still on its way out.
RunsOnItsOwnStack ==
  \A t \in Threads : /\ state[t] = "RUNNING" => current = t
                     /\ state[t] # "DEAD" \/ current = t => stack[t] # "none"

\* Where a thread can be in each state: what makes the two above inductive as
\* long as no thread overruns its stack.
Runs(t) ==
  /\ state[t] = "RUNNING" => current = t
  /\ current = t /\ (pc[t] # "resched" \/ schedLock > 0) => state[t] = "RUNNING"
  /\ current # t => pc[t] \in {"run", "woke"}
  /\ current = t /\ want[t] # NoQ => schedLock = 0
Waits(t) ==
  blockedOn[t] # NoQ =>
    want[t] # NoQ /\ (state[t] \in {"BLOCKED", "READY"} \/ (current = t /\ pc[t] = "woke"))
Stands(t) ==
  /\ state[t] # "DEAD" \/ current = t => stack[t] = "ok"
  /\ stack[t] # "overrun"
  /\ fault[t] # "NONE" => state[t] = "DEAD"
PlaceInv ==
  /\ \A t \in Threads : Runs(t) /\ Waits(t) /\ Stands(t)
  /\ current = Host => schedLock = 0
KernelInv == QueueConsistent /\ PlaceInv

\* The threads woken for w that have not looked at its count again yet, and
\* the notes drain_pending has yet to act on.
Woken(w) == {t \in Threads : want[t] = w /\ blockedOn[t] = NoQ /\ pc[t] \in {"resched", "woke"}}
Notes(w) == {i \in DOMAIN pend : pend[i] = w}

\* sched.c:79-80: "a thread about to block never blocks -- it sees the count
\* and carries on -- and one already blocked is woken".  No thread is left
\* asleep beside a unit nobody was woken for: the count never exceeds the
\* wakes on their way, unless the notes ring said it lost one.
NoLostWakeup ==
  ~lost => \A w \in Waitqs :
    waitq[w] # <<>> => count[w] <= Cardinality(Woken(w)) + Cardinality(Notes(w))

\* A mutex is free exactly when its count says so, and whoever owns it is
\* alive and known to hold something -- what rv9k_thread_stop refuses on.
MutexHasLivingOwner ==
  \A m \in Mutexes :
    /\ owner[m] = Host <=> count[m] = 1
    /\ owner[m] # Host => state[owner[m]] # "DEAD" /\ holds[owner[m]] > 0

\* The thread table as the layers above see it.
LifeOf(t) == IF state[t] # "DEAD" THEN "alive"
             ELSE IF fault[t] # "NONE" THEN "corpse"
             ELSE IF stack[t] = "none" THEN "free" ELSE "ended"
Table == INSTANCE RvThreads
           WITH life <- [t \in Threads |-> LifeOf(t)], onCpu <- current, Nobody <- Host

\* The kernel implements that table: only the living run, a slot is used again
\* only once its thread ended, was reaped and was let go, in every order the
\* wakes, kills, stops and turns can come.
ImplementsThreadTable == Table!Spec

\* kernel.h:390-392: a boost "is a floor ... releasing the lock returns it to
\* whatever it had earned".  Five places write the effective priority; it is
\* always what base, age and boost make of it.
EffectiveIsEarned == \A t \in Threads : eff[t] = Effective(base[t], age[t], boost[t])

\* Aging lifts a thread by AgeMax and no further: one that is more than that
\* below another, and not boosted, is never given the processor over it.
BandsHold ==
  [][\A t, u \in Threads :
       current' = t /\ t # current /\ boost'[t] = 0 /\ state'[u] = "READY"
       => base'[u] <= base'[t] + AgeMax]_vars

\* Whoever sleeps, or waits with a deadline, comes back: wake_sleepers runs in
\* every turn of the scheduler, and turns go on.
DeadlinesEnd ==
  \A t \in Threads :
    (state[t] \in {"SLEEPING", "BLOCKED"} /\ timer[t] # Never)
      ~> (crashed \/ state[t] \notin {"SLEEPING", "BLOCKED"})

\* proc.h:12-13: "a low-priority process cannot be starved indefinitely by a
\* busy high-priority one".
NoStarvation == \A t \in Threads : state[t] = "READY" ~> (crashed \/ state[t] # "READY")

\* reschedule() "returns when it runs again": no context is resumed that was
\* not saved when its thread was last left.
LoadsSavedContext == ~crashed

\* Nobody comes back to a stack that was given away or not saved (sched.c: reap,
\* reschedule), and the slot of a thread the kernel stopped stays a corpse until it
\* is released (kernel.h:306-313), whatever runs, gives or is created meanwhile --
\* where no thread blocks off its stack: stack_fault leaves such a one on the list
\* it was blocking on, and the next give makes the corpse READY (README, section 4).
DeadStayOff ==
  [][/\ LoadsSavedContext'
     /\ \A t \in Threads : fault[t] # "NONE" /\ fault'[t] # "NONE" => state'[t] = "DEAD"]_vars
=============================================================================
