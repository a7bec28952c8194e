--------------------------- MODULE RvKernelProofs ---------------------------
(***************************************************************************)
(* Theorems about RvKernel, for every number of threads, wait queues and   *)
(* calls the constants allow.  First the types, the effective priorities   *)
(* and the bands.  Then the wait queues and the stacks: the queues stay    *)
(* consistent, and the processor only ever stands on the stack of the one  *)
(* running thread, as long as no thread overruns its stack.  KernelInv is  *)
(* the inductive invariant.  From it, in this order: the kernel implements *)
(* RvThreads; a mutex never outlives its owner; no wakeup is lost; and no  *)
(* context is loaded that was not saved.                                   *)
(***************************************************************************)
EXTENDS RvKernel, TLAPS, SequenceTheorems, FiniteSetTheorems

LEMMA EffectiveType ==
  ASSUME NEW b \in Nat, NEW a \in Nat, NEW k \in 0..PrioMax
  PROVE  Effective(b, a, k) \in 0..PrioMax
  BY KernelAssumption DEF Effective, Lesser, Greater

LEMMA WithoutType ==
  ASSUME NEW S, NEW q \in Seq(S), NEW i \in DOMAIN q
  PROVE  Without(q, i) \in Seq(S)
<1>1. Len(q) \in Nat /\ i \in 1..Len(q) /\ \A j \in 1..Len(q) : q[j] \in S
  OBVIOUS
<1>2. Without(q, i) \in [1..(Len(q) - 1) -> S]
  BY <1>1 DEF Without
<1> QED BY <1>1, <1>2, SeqDef

LEMMA UnlinkedType ==
  ASSUME NEW S, NEW q \in Seq(S), NEW t
  PROVE  Unlinked(q, t) \in Seq(S)
<1>1. CASE \E i \in DOMAIN q : q[i] = t
  <2>1. (CHOOSE i \in DOMAIN q : q[i] = t) \in DOMAIN q
    BY <1>1
  <2> QED BY <1>1, <2>1, WithoutType DEF Unlinked
<1>2. CASE ~ \E i \in DOMAIN q : q[i] = t
  BY <1>2 DEF Unlinked
<1> QED BY <1>1, <1>2

LEMMA HostIsNoThread == Host \notin Threads
  BY DEF Host, Threads

-----------------------------------------------------------------------------
LEMMA InitType == Init => TypeOK
<1> SUFFICES ASSUME Init PROVE TypeOK
  OBVIOUS
<1>1. base \in [Threads -> 0..PrioMax]
  BY KernelAssumption DEF Init, Greater, Threads
<1>2. StateType /\ LifeType
  BY DEF Init, StateType, LifeType, States, Faults, Stacks
<1>3. ListType /\ CallType
  BY DEF Init, ListType, CallType, Never, Points
<1>4. PrioType
  BY <1>1, KernelAssumption DEF Init, PrioType
<1>5. LockType
  BY KernelAssumption DEF Init, LockType, Host
<1>6. CpuType
  <2>1. lost \in BOOLEAN /\ crashed \in BOOLEAN
    BY DEF Init
  <2>2. ageIn \in 0..AgePeriod /\ schedLock \in Nat /\ current \in Threads \cup {Host}
    BY KernelAssumption DEF Init, Host
  <2>3. pend \in Seq(Waitqs)
    BY DEF Init
  <2> QED BY <2>1, <2>2, <2>3 DEF CpuType
<1> QED BY <1>2, <1>3, <1>4, <1>5, <1>6 DEF TypeOK

\* What waking one waiter writes keeps its type.
LEMMA PopBestType ==
  ASSUME StateType, ListType, NEW w \in Waitqs, PopBest(w)
  PROVE  ListType' /\ StateType'
<1>1. CASE waitq[w] = <<>> /\ UNCHANGED <<listVars, state>>
  BY <1>1 DEF ListType, StateType, listVars
<1>2. ASSUME NEW i \in DOMAIN waitq[w],
             waitq' = [waitq EXCEPT ![w] = Without(@, i)],
             blockedOn' = [blockedOn EXCEPT ![waitq[w][i]] = NoQ],
             timer' = [timer EXCEPT ![waitq[w][i]] = Never],
             state' = [state EXCEPT ![waitq[w][i]] = "READY"]
      PROVE  ListType' /\ StateType'
  <2>1. Without(waitq[w], i) \in Seq(Threads)
    BY <1>2, WithoutType DEF ListType
  <2> QED BY <1>2, <2>1 DEF ListType, StateType, States, Never
<1> QED BY <1>1, <1>2 DEF PopBest

\* So does taking a victim off its list.
LEMMA DetachType ==
  ASSUME ListType, NEW t \in Threads, Detach(t)
  PROVE  ListType'
<1>1. CASE blockedOn[t] = NoQ
  BY <1>1 DEF Detach, ListType, Never
<1>2. CASE blockedOn[t] # NoQ
  <2>1. blockedOn[t] \in Waitqs
    BY <1>2 DEF ListType
  <2>2. Unlinked(waitq[blockedOn[t]], t) \in Seq(Threads)
    BY <2>1, UnlinkedType DEF ListType
  <2> QED BY <1>2, <2>1, <2>2 DEF Detach, ListType, Never
<1> QED BY <1>1, <1>2

\* And taking a unit of a count, which never leaves the count negative.
LEMMA MovedType ==
  ASSUME LockType, NEW w \in Waitqs, count[w] > 0
  PROVE  Moved(w) \in [Waitqs -> Nat]
  BY DEF LockType, Moved

LEMMA AcquireType ==
  ASSUME StateType, ListType, LockType, NEW t \in Threads, NEW w \in Waitqs, Acquire(t, w)
  PROVE  LockType' /\ StateType' /\ ListType'
<1>1. count' \in [Waitqs -> Nat]
  BY MovedType DEF Acquire
<1>2. LockType'
  BY <1>1 DEF Acquire, Own, LockType, lockVars
<1>3. StateType' /\ ListType'
  <2>1. CASE Partner[w] = NoQ
    BY <2>1 DEF Acquire, WakePartner, StateType, ListType, listVars
  <2>2. CASE Partner[w] # NoQ
    BY <2>2, PopBestType, KernelAssumption DEF Acquire, WakePartner
  <2> QED BY <2>1, <2>2
<1> QED BY <1>2, <1>3

\* A turn of the scheduler.
LEMMA TurnType ==
  ASSUME TypeOK, NEW st \in [Threads -> States], NEW from \in Threads \cup {Host},
         Turn(st, from), UNCHANGED <<base, boost>>
  PROVE  /\ state' \in [Threads -> States] /\ timer' \in [Threads -> Nat \cup {Never}]
         /\ PrioType' /\ current' \in Threads \cup {Host}
         /\ ageIn' \in 0..AgePeriod /\ crashed' \in BOOLEAN
<1>1. Awakened(st) \in [Threads -> States]
  BY DEF Awakened, States
<1>2. timer' \in [Threads -> Nat \cup {Never}]
  BY DEF Turn, TypeOK, ListType
<1>3. age' \in [Threads -> 0..AgeMax]
  <2>1. \A t \in Threads : Older(age[t]) \in 0..AgeMax
    BY KernelAssumption DEF TypeOK, PrioType, Older, Lesser
  <2>2. AgedAge(Awakened(st)) \in [Threads -> 0..AgeMax]
    BY <2>1, KernelAssumption DEF AgedAge, TypeOK, PrioType
  <2> QED BY <2>2 DEF Turn
<1>4. eff' \in [Threads -> 0..PrioMax]
  <2>1. \A t \in Threads : Effective(base[t], age'[t], boost[t]) \in 0..PrioMax
    BY <1>3, EffectiveType DEF TypeOK, PrioType
  <2>2. age' = AgedAge(Awakened(st))
    BY DEF Turn
  <2>3. AgedEff(Awakened(st)) \in [Threads -> 0..PrioMax]
    BY <2>1, <2>2 DEF AgedEff, TypeOK, PrioType
  <2> QED BY <2>3 DEF Turn
<1>5. ageIn' \in 0..AgePeriod
  BY KernelAssumption DEF Turn, TypeOK, CpuType
<1>6. \A n \in Threads : Selected(n) \in [Threads -> 0..NThreads]
  BY KernelAssumption DEF Selected, TypeOK, PrioType
<1>7. \A n \in Threads : LoadOutcomes(n, from) \subseteq BOOLEAN
  BY DEF LoadOutcomes
<1>8. /\ state' \in [Threads -> States] /\ seq' \in [Threads -> 0..NThreads]
      /\ current' \in Threads \cup {Host} /\ crashed' \in BOOLEAN
  <2>1. CASE current' = Host /\ state' = Awakened(st) /\ UNCHANGED <<seq, crashed>>
    BY <2>1, <1>1 DEF TypeOK, PrioType, CpuType
  <2>2. ASSUME NEW n \in Threads, state' = Awakened(st), UNCHANGED <<current, seq, crashed>>
        PROVE  /\ state' \in [Threads -> States] /\ seq' \in [Threads -> 0..NThreads]
               /\ current' \in Threads \cup {Host} /\ crashed' \in BOOLEAN
    BY <2>2, <1>1 DEF TypeOK, PrioType, CpuType
  <2>3. ASSUME NEW n \in Threads,
               state' = [Left(Awakened(st), from) EXCEPT ![n] = "RUNNING"],
               current' = n, seq' = Selected(n), crashed' \in LoadOutcomes(n, from)
        PROVE  /\ state' \in [Threads -> States] /\ seq' \in [Threads -> 0..NThreads]
               /\ current' \in Threads \cup {Host} /\ crashed' \in BOOLEAN
    <3>1. state' \in [Threads -> States]
      BY <2>3, <1>1 DEF States, Left
    <3> QED BY <2>3, <1>6, <1>7, <3>1
  <2> QED BY <2>1, <2>2, <2>3, Zenon DEF Turn
<1>9. PrioType'
  BY <1>3, <1>4, <1>8 DEF TypeOK, PrioType
<1> QED BY <1>2, <1>5, <1>8, <1>9

LEMMA GiveType ==
  ASSUME StateType, ListType, LockType, NEW w \in Waitqs, Give(w),
         owner' \in [Mutexes -> Threads \cup {Host}], depth' \in [Mutexes -> Nat],
         holds' \in [Threads -> Nat], \A k \in Mutexes : owner'[k] # Host => depth'[k] > 0
  PROVE  StateType' /\ ListType' /\ LockType'
<1>1. count' \in [Waitqs -> Nat]
  <2>1. Limit[w] \in Nat /\ count[w] \in Nat
    BY KernelAssumption DEF LockType
  <2>2. Lesser(count[w] + 1, Limit[w]) \in Nat
    BY <2>1 DEF Lesser
  <2> QED BY <2>2 DEF Give, LockType
<1> QED BY <1>1, PopBestType DEF Give, LockType

\* And coming back out of reschedule().
LEMMA ResumedType ==
  ASSUME CallType, NEW t \in Threads, pc' = Resumed(t), UNCHANGED <<want, limit>>
  PROVE  CallType'
<1>1. Resumed(t) \in [Threads -> Points]
  BY DEF Resumed, CallType, Points
<1> QED BY <1>1 DEF Resumed, CallType

-----------------------------------------------------------------------------
\* The steps a thread or the host takes inside the kernel.
LEMMA InsideType == TypeOK /\ Inside => TypeOK'
<1> SUFFICES ASSUME TypeOK, Inside PROVE TypeOK'
  OBVIOUS
<1> USE DEF TypeOK
<1>1. CASE Drain
  <2>1. Head(pend) \in Waitqs /\ Tail(pend) \in Seq(Waitqs)
    BY <1>1 DEF Drain, CpuType
  <2>2. StateType' /\ ListType'
    BY <1>1, <2>1, PopBestType DEF Drain
  <2>3. LifeType' /\ CallType' /\ PrioType' /\ LockType'
    BY <1>1 DEF Drain, LifeType, CallType, PrioType, LockType, lifeVars, callVars, prioVars,
                lockVars
  <2>4. CpuType'
    BY <1>1, <2>1 DEF Drain, CpuType
  <2> QED BY <2>2, <2>3, <2>4
<1>2. CASE HostTurn
  <2>1. Reaped(state, Host) \in [Threads -> Stacks]
    BY DEF Reaped, LifeType, Stacks
  <2>2. StateType' /\ PrioType' /\ timer' \in [Threads -> Nat \cup {Never}]
        /\ current' \in Threads \cup {Host} /\ ageIn' \in 0..AgePeriod /\ crashed' \in BOOLEAN
    BY <1>2, TurnType DEF HostTurn, StateType
  <2>3. LifeType' /\ CallType' /\ LockType' /\ ListType'
    BY <1>2, <2>1, <2>2 DEF HostTurn, LifeType, CallType, LockType, ListType, callVars, lockVars
  <2>4. CpuType'
    BY <1>2, <2>2 DEF HostTurn, CpuType, pendVars
  <2> QED BY <2>2, <2>3, <2>4
<1>3. ASSUME NEW t \in Threads, HeldOff(t) PROVE TypeOK'
  <2>1. CallType'
    BY <1>3, ResumedType DEF HeldOff
  <2>2. StateType' /\ LifeType' /\ ListType' /\ PrioType' /\ LockType'
    BY <1>3 DEF HeldOff, StateType, LifeType, ListType, PrioType, LockType, listVars, prioVars,
                lifeVars, lockVars
  <2>3. CpuType'
    BY <1>3 DEF HeldOff, CpuType, pendVars
  <2> QED BY <2>1, <2>2, <2>3
<1>4. ASSUME NEW t \in Threads, Reschedule(t) PROVE TypeOK'
  <2> DEFINE st == IF stack[t] = "overrun" THEN [state EXCEPT ![t] = "DEAD"] ELSE state
  <2>1. st \in [Threads -> States]
    BY DEF StateType, States
  <2>2. Reaped(st, t) \in [Threads -> Stacks]
    BY DEF Reaped, LifeType, Stacks
  <2>3. Turn(st, t) /\ stack' = Reaped(st, t)
    BY <1>4 DEF Reschedule
  <2>4. fault' \in [Threads -> Faults]
    BY <1>4 DEF Reschedule, LifeType, Faults
  <2> HIDE DEF st
  <2>5. UNCHANGED <<base, boost>>
    BY <1>4 DEF Reschedule
  <2>6. StateType' /\ PrioType' /\ timer' \in [Threads -> Nat \cup {Never}]
        /\ current' \in Threads \cup {Host} /\ ageIn' \in 0..AgePeriod /\ crashed' \in BOOLEAN
    BY <2>1, <2>3, <2>5, TurnType DEF StateType
  <2>7. CallType'
    BY <1>4, ResumedType DEF Reschedule
  <2>8. LifeType' /\ LockType' /\ ListType'
    BY <1>4, <2>2, <2>3, <2>4, <2>6 DEF Reschedule, LifeType, LockType, ListType, lockVars
  <2>9. CpuType'
    BY <1>4, <2>6 DEF Reschedule, CpuType, pendVars
  <2> QED BY <2>6, <2>7, <2>8, <2>9
<1>5. ASSUME NEW t \in Threads, BlockOn(t) PROVE TypeOK'
  <2>0. want[t] \in Waitqs
    BY <1>5 DEF BlockOn, CallType
  <2>1. <<t>> \o waitq[want[t]] \in Seq(Threads)
    BY <2>0 DEF ListType
  <2>2. StateType' /\ ListType'
    BY <1>5, <2>0, <2>1 DEF BlockOn, StateType, ListType, CallType, States
  <2>3. CallType'
    BY <1>5 DEF BlockOn, CallType, Points
  <2>4. LifeType' /\ PrioType' /\ LockType'
    BY <1>5 DEF BlockOn, LifeType, PrioType, LockType, lifeVars, prioVars, lockVars
  <2>5. crashed' \in BOOLEAN
    <3> DEFINE linked == \E w \in Waitqs : t \in Members(waitq[w])
    <3>1. crashed' = linked
      BY <1>5 DEF BlockOn
    <3>2. linked \in BOOLEAN
      OBVIOUS
    <3> QED BY <3>1, <3>2
  <2>6. CpuType'
    BY <1>5, <2>5 DEF BlockOn, CpuType, pendVars
  <2> QED BY <2>2, <2>3, <2>4, <2>6
<1>6. ASSUME NEW t \in Threads, Woke(t) PROVE TypeOK'
  <2>0. want[t] \in Waitqs
    BY <1>6 DEF Woke, CallType
  <2>2. StateType' /\ ListType' /\ LockType'
    <3>1. CASE Detach(t) /\ UNCHANGED <<state, lockVars, count>>
      BY <3>1, DetachType DEF StateType, LockType, lockVars
    <3>2. CASE Acquire(t, want[t])
      BY <2>0, <3>2, AcquireType
    <3>3. CASE UNCHANGED <<state, listVars, lockVars, count>>
      BY <3>3 DEF StateType, ListType, LockType, listVars, lockVars
    <3> QED BY <1>6, <3>1, <3>2, <3>3 DEF Woke
  <2>3. CallType'
    BY <1>6 DEF Woke, CallType, Points, Never
  <2>4. LifeType' /\ PrioType' /\ CpuType'
    BY <1>6 DEF Woke, LifeType, PrioType, CpuType, lifeVars, prioVars, pendVars
  <2> QED BY <2>2, <2>3, <2>4
<1> QED BY <1>1, <1>2, <1>3, <1>4, <1>5, <1>6 DEF Inside

\* Calls that leave the lists, the priorities and the locks alone change only
\* fields of their own.
LEMMA LockingType ==
  ASSUME TypeOK, NEW t \in Threads, Locking(t)
  PROVE  TypeOK'
<1> USE DEF TypeOK
<1>1. ASSUME NEW w \in Waitqs, NEW d \in Timeouts, Take(t, w, d) PROVE TypeOK'
  <2>1. StateType' /\ ListType' /\ LockType'
    <3>1. CASE Acquire(t, w)
      BY <3>1, AcquireType
    <3>2. CASE UNCHANGED <<state, listVars, lockVars, count>>
      BY <3>2 DEF StateType, ListType, LockType, listVars, lockVars
    <3> QED BY <1>1, <3>1, <3>2 DEF Take
  <2>2. CallType'
    <3>1. CASE UNCHANGED callVars
      BY <3>1 DEF CallType, callVars
    <3>2. CASE /\ pc' = [pc EXCEPT ![t] = "block"] /\ want' = [want EXCEPT ![t] = w]
               /\ limit' = [limit EXCEPT ![t] = d]
      <4>1. d \in Nat \cup {Never} /\ w # NoQ
        BY KernelAssumption
      <4> QED BY <3>2, <4>1 DEF CallType, Points
    <3> QED BY <1>1, <3>1, <3>2 DEF Take
  <2>3. LifeType' /\ PrioType' /\ CpuType'
    BY <1>1 DEF Take, LifeType, PrioType, CpuType, lifeVars, prioVars, pendVars
  <2> QED BY <2>1, <2>2, <2>3
<1>2. ASSUME NEW w \in Waitqs, SemGive(t, w) PROVE TypeOK'
  <2>1. StateType' /\ ListType' /\ LockType'
    BY <1>2, GiveType DEF SemGive, LockType, lockVars
  <2>2. CallType' /\ LifeType' /\ PrioType' /\ CpuType'
    BY <1>2 DEF SemGive, CallType, LifeType, PrioType, CpuType, callVars, lifeVars, prioVars,
                pendVars
  <2> QED BY <2>1, <2>2
<1>3. ASSUME NEW m \in Mutexes, Relock(t, m) PROVE TypeOK'
  <2>1. LockType'
    BY <1>3 DEF Relock, LockType
  <2>2. StateType' /\ ListType' /\ CallType' /\ LifeType' /\ PrioType' /\ CpuType'
    BY <1>3 DEF Relock, StateType, ListType, CallType, LifeType, PrioType, CpuType, listVars,
                callVars, lifeVars, prioVars, pendVars
  <2> QED BY <2>1, <2>2
<1>4. ASSUME NEW m \in Mutexes, MutexUnlock(t, m) PROVE TypeOK'
  <2>1. depth[m] \in Nat /\ depth[m] > 0 /\ holds[t] \in Nat
    BY <1>4, HostIsNoThread DEF MutexUnlock, LockType
  <2>2. StateType' /\ ListType' /\ LockType'
    <3>1. CASE depth[m] > 1
      BY <1>4, <2>1, <3>1 DEF MutexUnlock, StateType, ListType, LockType, listVars
    <3>2. CASE depth[m] = 1
      <4>1. Greater(holds[t] - 1, 0) \in Nat
        BY <2>1 DEF Greater
      <4>2. /\ owner' = [owner EXCEPT ![m] = Host] /\ depth' = [depth EXCEPT ![m] = @ - 1]
            /\ holds' = [holds EXCEPT ![t] = Greater(@ - 1, 0)] /\ Give(m)
        BY <1>4, <3>2 DEF MutexUnlock
      <4>3. /\ owner' \in [Mutexes -> Threads \cup {Host}] /\ depth' \in [Mutexes -> Nat]
            /\ holds' \in [Threads -> Nat]
            /\ \A k \in Mutexes : owner'[k] # Host => depth'[k] > 0
        BY <2>1, <3>2, <4>1, <4>2 DEF LockType
      <4> QED BY <4>2, <4>3, GiveType, KernelAssumption
    <3> QED BY <2>1, <3>1, <3>2
  <2>3. CallType' /\ LifeType' /\ PrioType' /\ CpuType'
    BY <1>4 DEF MutexUnlock, CallType, LifeType, PrioType, CpuType, callVars, lifeVars, prioVars,
                pendVars
  <2> QED BY <2>2, <2>3
<1>5. CASE SchedLock(t)
  <2>1. CpuType'
    BY <1>5 DEF SchedLock, CpuType, pendVars
  <2>2. StateType' /\ ListType' /\ CallType' /\ LifeType' /\ PrioType' /\ LockType'
    BY <1>5 DEF SchedLock, StateType, ListType, CallType, LifeType, PrioType, LockType,
                listVars, callVars, lifeVars, prioVars, lockVars
  <2> QED BY <2>1, <2>2
<1>6. CASE SchedUnlock(t)
  <2>1. CpuType'
    BY <1>6 DEF SchedUnlock, CpuType, pendVars
  <2>2. CallType'
    BY <1>6 DEF SchedUnlock, CallType, Points
  <2>3. StateType' /\ ListType' /\ LifeType' /\ PrioType' /\ LockType'
    BY <1>6 DEF SchedUnlock, StateType, ListType, LifeType, PrioType, LockType,
                listVars, lifeVars, prioVars, lockVars
  <2> QED BY <2>1, <2>2, <2>3
<1> QED BY <1>1, <1>2, <1>3, <1>4, <1>5, <1>6 DEF Locking

\* Ending a thread, from inside or from outside.
LEMMA EndType ==
  ASSUME TypeOK, NEW u \in Threads, End(u)
  PROVE  StateType' /\ ListType' /\ CallType' /\ PrioType' /\ LockType' /\ CpuType'
<1> USE DEF TypeOK
<1>1. ListType'
  BY DetachType DEF End
<1>2. StateType' /\ CallType'
  BY DEF End, StateType, CallType, States, Points, Never
<1>3. PrioType' /\ LockType' /\ CpuType'
  BY DEF End, PrioType, LockType, CpuType, prioVars, lockVars, pendVars
<1> QED BY <1>1, <1>2, <1>3

LEMMA EndingType ==
  ASSUME TypeOK, NEW t \in Threads, Ending(t)
  PROVE  TypeOK'
<1> USE DEF TypeOK
<1>1. CASE Exit(t)
  <2>1. StateType' /\ CallType'
    BY <1>1 DEF Exit, Calling, StateType, CallType, States, Points
  <2>2. ListType' /\ LifeType' /\ PrioType' /\ LockType' /\ CpuType'
    BY <1>1 DEF Exit, ListType, LifeType, PrioType, LockType, CpuType, listVars, lifeVars,
                prioVars, lockVars, pendVars
  <2> QED BY <2>1, <2>2
<1>2. CASE Overrun(t)
  <2>1. LifeType'
    BY <1>2 DEF Overrun, LifeType, Stacks
  <2>2. StateType' /\ ListType' /\ CallType' /\ PrioType' /\ LockType' /\ CpuType'
    BY <1>2 DEF Overrun, StateType, ListType, CallType, PrioType, LockType, CpuType,
                listVars, callVars, prioVars, lockVars, pendVars
  <2> QED BY <2>1, <2>2
<1>3. ASSUME NEW u \in Killable, Kill(t, u) PROVE TypeOK'
  <2>1. u \in Threads
    BY KernelAssumption
  <2>2. LifeType'
    BY <1>3 DEF Kill, End, LifeType
  <2> QED BY <1>3, <2>1, <2>2, EndType DEF Kill
<1>4. ASSUME NEW u \in Stoppable, Stop(t, u) PROVE TypeOK'
  <2>1. u \in Threads
    BY KernelAssumption
  <2>2. CASE End(u) /\ fault' = [fault EXCEPT ![u] = "KILLED"] /\ UNCHANGED cancel
    <3>1. LifeType'
      BY <2>1, <2>2 DEF End, LifeType, Faults
    <3> QED BY <2>1, <2>2, <3>1, EndType
  <2>3. CASE /\ cancel' = [cancel EXCEPT ![u] = TRUE]
             /\ UNCHANGED <<state, listVars, prioVars, seq, fault, stack, callVars, lockVars,
                       pendVars, current, schedLock, ageIn, count, crashed>>
    <3>1. LifeType'
      BY <2>1, <2>3 DEF LifeType
    <3>2. StateType' /\ ListType' /\ CallType' /\ PrioType' /\ LockType' /\ CpuType'
      BY <2>3 DEF StateType, ListType, CallType, PrioType, LockType, CpuType,
                  listVars, callVars, prioVars, lockVars, pendVars
    <3> QED BY <3>1, <3>2
  <2> QED BY <1>4, <2>2, <2>3 DEF Stop
<1> QED BY <1>1, <1>2, <1>3, <1>4 DEF Ending

\* The remaining calls: priorities, yielding, sleeping.
LEMMA CallTypeOK ==
  ASSUME TypeOK, NEW t \in Threads, Call(t)
  PROVE  TypeOK'
<1> USE DEF TypeOK
<1>1. CASE Locking(t)
  BY <1>1, LockingType
<1>2. CASE Ending(t)
  BY <1>2, EndingType
<1>3. ASSUME NEW u \in Threads, NEW p \in NewPrios, PrioritySet(t, u, p) PROVE TypeOK'
  <2>1. p \in 0..PrioMax /\ AgeMax \in Nat
    BY KernelAssumption
  <2>2. Effective(p, 0, boost[u]) \in 0..PrioMax
    BY <2>1, EffectiveType DEF PrioType
  <2>3. PrioType'
    BY <1>3, <2>1, <2>2 DEF PrioritySet, PrioType
  <2>4. StateType' /\ ListType' /\ LifeType' /\ CallType' /\ LockType' /\ CpuType'
    BY <1>3 DEF PrioritySet, StateType, ListType, LifeType, CallType, LockType, CpuType,
                listVars, lifeVars, callVars, lockVars, pendVars
  <2> QED BY <2>3, <2>4
<1>4. ASSUME NEW u \in Threads, NEW k \in Boosts \cup {0}, SetBoost(t, u, k) PROVE TypeOK'
  <2>1. k \in 0..PrioMax
    BY KernelAssumption
  <2>2. base[u] \in Nat /\ age[u] \in Nat
    BY KernelAssumption DEF PrioType
  <2>3. Effective(base[u], age[u], k) \in 0..PrioMax
    BY <2>1, <2>2, EffectiveType
  <2>4. PrioType'
    BY <1>4, <2>1, <2>3 DEF SetBoost, PrioType
  <2>5. StateType' /\ ListType' /\ LifeType' /\ CallType' /\ LockType' /\ CpuType'
    BY <1>4 DEF SetBoost, StateType, ListType, LifeType, CallType, LockType, CpuType,
                listVars, lifeVars, callVars, lockVars, pendVars
  <2> QED BY <2>4, <2>5
<1>5. CASE Yield(t)
  <2>1. CallType'
    BY <1>5 DEF Yield, CallType, Points
  <2>2. StateType' /\ ListType' /\ LifeType' /\ PrioType' /\ LockType' /\ CpuType'
    BY <1>5 DEF Yield, StateType, ListType, LifeType, PrioType, LockType, CpuType,
                listVars, lifeVars, prioVars, lockVars, pendVars
  <2> QED BY <2>1, <2>2
<1>6. ASSUME NEW d \in Sleeps, Sleep(t, d) PROVE TypeOK'
  <2>1. d \in Nat
    BY KernelAssumption
  <2>2. StateType' /\ ListType' /\ CallType'
    BY <1>6, <2>1 DEF Sleep, StateType, ListType, CallType, States, Points
  <2>3. LifeType' /\ PrioType' /\ LockType' /\ CpuType'
    BY <1>6 DEF Sleep, LifeType, PrioType, LockType, CpuType, lifeVars, prioVars, lockVars,
                pendVars
  <2> QED BY <2>2, <2>3
<1> QED BY <1>1, <1>2, <1>3, <1>4, <1>5, <1>6 DEF Call, Prioritising

\* Interrupts, and the calls made for a thread from anywhere.
LEMMA InterruptType == TypeOK /\ Interrupt => TypeOK'
<1> SUFFICES ASSUME TypeOK, Interrupt PROVE TypeOK'
  OBVIOUS
<1> USE DEF TypeOK
<1>1. CASE Tick
  <2>1. ListType'
    BY <1>1 DEF Tick, ListType, Never
  <2>2. ageIn' \in 0..AgePeriod
    BY <1>1, KernelAssumption DEF Tick, CpuType, Greater
  <2>3. CpuType'
    BY <1>1, <2>2 DEF Tick, CpuType, pendVars
  <2>4. StateType' /\ LifeType' /\ CallType' /\ PrioType' /\ LockType'
    BY <1>1 DEF Tick, StateType, LifeType, CallType, PrioType, LockType, lifeVars, callVars,
                prioVars, lockVars
  <2> QED BY <2>1, <2>3, <2>4
<1>2. ASSUME NEW w \in IsrQs, GiveFromIsr(w) PROVE TypeOK'
  <2>1. w \in Waitqs /\ Limit[w] \in Nat /\ Partner[w] \in Waitqs \cup {NoQ}
    BY KernelAssumption
  <2>2. count' \in [Waitqs -> Nat]
    <3>1. CASE count' = [count EXCEPT ![w] = Lesser(@ + 1, Limit[w])]
      <4>1. Lesser(count[w] + 1, Limit[w]) \in Nat
        BY <2>1 DEF LockType, Lesser
      <4> QED BY <3>1, <4>1 DEF LockType
    <3>2. CASE Partner[w] # NoQ /\ count[Partner[w]] > 0 /\ count' = Moved(Partner[w])
      BY <2>1, <3>2, MovedType
    <3> QED BY <1>2, <3>1, <3>2 DEF GiveFromIsr
  <2>3. pend' \in Seq(Waitqs) /\ lost' \in BOOLEAN
    <3>1. pend \in Seq(Waitqs) /\ lost \in BOOLEAN
      BY DEF CpuType
    <3>2. Append(pend, w) \in Seq(Waitqs)
      BY <2>1, <3>1
    <3>3. Note(w)
      BY <1>2 DEF GiveFromIsr
    <3>4. CASE UNCHANGED pendVars
      BY <3>1, <3>4 DEF pendVars
    <3>5. CASE pend' = Append(pend, w) /\ UNCHANGED lost
      BY <3>1, <3>2, <3>5
    <3>6. CASE lost' = TRUE /\ UNCHANGED pend
      BY <3>1, <3>6
    <3> QED BY <3>3, <3>4, <3>5, <3>6 DEF Note
  <2>4. LockType'
    BY <1>2, <2>2 DEF GiveFromIsr, LockType, lockVars
  <2>5. CpuType'
    BY <1>2, <2>3 DEF GiveFromIsr, CpuType
  <2>6. StateType' /\ LifeType' /\ ListType' /\ CallType' /\ PrioType'
    BY <1>2 DEF GiveFromIsr, StateType, LifeType, ListType, CallType, PrioType, lifeVars,
                listVars, callVars, prioVars
  <2> QED BY <2>4, <2>5, <2>6
<1> QED BY <1>1, <1>2 DEF Interrupt

LEMMA SlotType ==
  ASSUME TypeOK, NEW u \in Threads, Release(u) \/ \E p \in NewPrios : Create(u, p)
  PROVE  TypeOK'
<1> USE DEF TypeOK
<1>1. CASE Release(u)
  <2>1. LifeType'
    BY <1>1 DEF Release, LifeType, Faults
  <2>2. StateType' /\ ListType' /\ CallType' /\ PrioType' /\ LockType' /\ CpuType'
    BY <1>1 DEF Release, StateType, ListType, CallType, PrioType, LockType, CpuType, listVars,
                callVars, prioVars, lockVars, pendVars
  <2> QED BY <2>1, <2>2
<1>2. ASSUME NEW p \in NewPrios, Create(u, p) PROVE TypeOK'
  <2>1. p \in 0..PrioMax /\ AgeMax \in Nat /\ PrioMax \in Nat /\ NThreads \in Nat
    BY KernelAssumption
  <2>2. Forgotten(u) \in [Threads -> 0..NThreads]
    BY <2>1 DEF Forgotten, PrioType
  <2>3. PrioType'
    <3>1. 0 \in 0..AgeMax /\ 0 \in 0..PrioMax
      BY <2>1
    <3>2. seq' \in [Threads -> 0..NThreads]
      BY <1>2, <2>2 DEF Create
    <3>3. /\ base' \in [Threads -> 0..PrioMax] /\ eff' \in [Threads -> 0..PrioMax]
          /\ boost' \in [Threads -> 0..PrioMax] /\ age' \in [Threads -> 0..AgeMax]
      BY <1>2, <2>1, <3>1 DEF Create, PrioType
    <3> QED BY <3>2, <3>3 DEF PrioType
  <2>4. StateType' /\ LifeType'
    BY <1>2 DEF Create, StateType, LifeType, States, Stacks
  <2>5. ListType' /\ CallType'
    BY <1>2 DEF Create, ListType, CallType, Points, Never
  <2>6. LockType' /\ CpuType'
    BY <1>2 DEF Create, LockType, CpuType, pendVars
  <2> QED BY <2>3, <2>4, <2>5, <2>6
<1> QED BY <1>1, <1>2

\* Type correctness: priorities stay in their band and ages within AgeMax, no
\* count goes negative, and a thread inside block_on knows what it waits for --
\* whatever the kernel's callers and its interrupts do, overruns included.
THEOREM TypeCorrect == Spec => []TypeOK
<1>1. TypeOK /\ [Next]_vars => TypeOK'
  <2> SUFFICES ASSUME TypeOK, [Next]_vars PROVE TypeOK'
    OBVIOUS
  <2>1. CASE Inside
    BY <2>1, InsideType
  <2>2. CASE Interrupt
    BY <2>2, InterruptType
  <2>3. ASSUME NEW t \in Threads, Call(t) PROVE TypeOK'
    BY <2>3, CallTypeOK
  <2>4. ASSUME NEW t \in Threads, Release(t) \/ \E p \in NewPrios : Create(t, p)
        PROVE  TypeOK'
    BY <2>4, SlotType
  <2>5. CASE UNCHANGED vars
    BY <2>5 DEF TypeOK, StateType, LifeType, ListType, CallType, PrioType, LockType, CpuType,
                vars, listVars, prioVars, lifeVars, callVars, lockVars, pendVars
  <2> QED BY <2>1, <2>2, <2>3, <2>4, <2>5 DEF Next
<1> QED BY <1>1, InitType, PTL DEF Spec

-----------------------------------------------------------------------------
\* Priorities: a turn keeps every effective priority what its parts make of it.
LEMMA TurnEarned ==
  ASSUME TypeOK, EffectiveIsEarned, NEW st, NEW from, Turn(st, from), UNCHANGED <<base, boost>>
  PROVE  EffectiveIsEarned'
<1>1. age' = AgedAge(Awakened(st)) /\ eff' = AgedEff(Awakened(st))
  BY DEF Turn
<1>2. CASE ageIn > 0
  BY <1>1, <1>2 DEF AgedAge, AgedEff, EffectiveIsEarned
<1>3. CASE ~ (ageIn > 0)
  <2>1. ASSUME NEW t \in Threads PROVE eff'[t] = Effective(base[t], age'[t], boost[t])
    <3>1. CASE t \in Runnable(Awakened(st))
      BY <1>1, <1>3, <3>1 DEF AgedEff
    <3>2. CASE t \notin Runnable(Awakened(st))
      BY <1>1, <1>3, <3>2 DEF AgedEff, AgedAge, EffectiveIsEarned
    <3> QED BY <3>1, <3>2
  <2> QED BY <2>1 DEF EffectiveIsEarned
<1> QED BY <1>2, <1>3

LEMMA NewlyEarned ==
  ASSUME NEW p \in 0..PrioMax
  PROVE  Effective(p, 0, 0) = p
  BY KernelAssumption DEF Effective, Lesser, Greater

LEMMA EarnedInductive ==
  ASSUME TypeOK, EffectiveIsEarned, [Next]_vars
  PROVE  EffectiveIsEarned'
<1> USE DEF TypeOK, PrioType
<1>1. CASE UNCHANGED prioVars
  BY <1>1 DEF prioVars, EffectiveIsEarned
<1>2. CASE HostTurn
  BY <1>2, TurnEarned DEF HostTurn
<1>3. ASSUME NEW t \in Threads, Reschedule(t) PROVE EffectiveIsEarned'
  BY <1>3, TurnEarned DEF Reschedule
<1>4. ASSUME NEW u \in Threads, NEW t \in Threads, NEW p \in NewPrios, PrioritySet(t, u, p)
      PROVE  EffectiveIsEarned'
  BY <1>4 DEF PrioritySet, EffectiveIsEarned
<1>5. ASSUME NEW u \in Threads, NEW t \in Threads, NEW k \in Boosts \cup {0}, SetBoost(t, u, k)
      PROVE  EffectiveIsEarned'
  BY <1>5 DEF SetBoost, EffectiveIsEarned
<1>6. ASSUME NEW u \in Threads, NEW p \in NewPrios, Create(u, p)
      PROVE  EffectiveIsEarned'
  BY <1>6, NewlyEarned, KernelAssumption DEF Create, EffectiveIsEarned
<1>7. CASE Inside \/ Interrupt
  BY <1>1, <1>2, <1>3, <1>7
  DEF Inside, Interrupt, Drain, HeldOff, BlockOn, Woke, Tick, GiveFromIsr
<1>8. ASSUME NEW t \in Threads, Call(t) PROVE EffectiveIsEarned'
  <2>1. CASE Locking(t)
    BY <1>1, <2>1 DEF Locking, Take, SemGive, Relock, MutexUnlock, SchedLock, SchedUnlock
  <2>2. CASE Ending(t)
    BY <1>1, <2>2 DEF Ending, Exit, Overrun, Kill, Stop, End
  <2>3. CASE Prioritising(t)
    BY <1>4, <1>5, <2>3 DEF Prioritising
  <2>4. CASE Yield(t) \/ \E d \in Sleeps : Sleep(t, d)
    BY <1>1, <2>4 DEF Yield, Sleep
  <2> QED BY <1>8, <2>1, <2>2, <2>3, <2>4 DEF Call
<1>9. ASSUME NEW t \in Threads, Release(t) PROVE EffectiveIsEarned'
  BY <1>1, <1>9 DEF Release
<1>10. CASE UNCHANGED vars
  BY <1>1, <1>10 DEF vars
<1> QED BY <1>6, <1>7, <1>8, <1>9, <1>10 DEF Next

\* A boost is a floor and its end gives back exactly what was earned, through
\* every aging, setting and boosting.
THEOREM EarnedAlways == Spec => []EffectiveIsEarned
<1>1. Init => EffectiveIsEarned
  <2> SUFFICES ASSUME Init, NEW t \in Threads
               PROVE  eff[t] = Effective(base[t], age[t], boost[t])
    BY DEF EffectiveIsEarned
  <2>1. base[t] \in 0..PrioMax /\ eff[t] = base[t] /\ age[t] = 0 /\ boost[t] = 0
    BY KernelAssumption DEF Init, Greater
  <2> QED BY <2>1, NewlyEarned
<1>2. TypeOK /\ EffectiveIsEarned /\ [Next]_vars => EffectiveIsEarned'
  BY EarnedInductive
<1> QED BY <1>1, <1>2, TypeCorrect, PTL DEF Spec

\* The thread a turn picks is at most AgeMax below any it leaves waiting.
LEMMA TurnBand ==
  ASSUME TypeOK, TypeOK', EffectiveIsEarned', NEW st, NEW from, Turn(st, from),
         NEW t \in Threads, NEW u \in Threads,
         current' = t, t # current, boost'[t] = 0, state'[u] = "READY"
  PROVE  base'[u] <= base'[t] + AgeMax
<1> DEFINE awake == Awakened(st)
<1>1. PICK n \in Threads : IsNext(n, awake, eff') /\ current' = n
                          /\ state' = [Left(awake, from) EXCEPT ![n] = "RUNNING"]
  BY HostIsNoThread DEF Turn
<1>2. n = t
  BY <1>1
<1>3. u \in Runnable(awake)
  <2>1. u # t
    BY <1>1, <1>2 DEF Left
  <2>2. awake[u] \in {"READY", "RUNNING"}
    BY <1>1, <1>2, <2>1 DEF Left
  <2> QED BY <2>2 DEF Runnable
<1> HIDE DEF awake
<1>4. eff'[u] <= eff'[t]
  BY <1>1, <1>2, <1>3 DEF IsNext, TypeOK, PrioType
<1>5. /\ eff'[t] = Effective(base'[t], age'[t], boost'[t])
      /\ eff'[u] = Effective(base'[u], age'[u], boost'[u])
  BY DEF EffectiveIsEarned
<1>6. /\ base'[t] \in 0..PrioMax /\ age'[t] \in 0..AgeMax
      /\ base'[u] \in 0..PrioMax /\ age'[u] \in 0..AgeMax /\ boost'[u] \in 0..PrioMax
  BY DEF TypeOK, PrioType
<1>7. eff'[t] <= base'[t] + AgeMax /\ base'[u] <= eff'[u]
  BY <1>5, <1>6, KernelAssumption DEF Effective, Lesser, Greater
<1>8. eff'[t] \in Int /\ eff'[u] \in Int
  BY DEF TypeOK, PrioType
<1> QED BY <1>4, <1>6, <1>7, <1>8, KernelAssumption

\* Aging never lifts a thread past one more than AgeMax above it.
THEOREM BandsAlwaysHold == Spec => BandsHold
<1> DEFINE Band == \A t, u \in Threads :
       current' = t /\ t # current /\ boost'[t] = 0 /\ state'[u] = "READY"
       => base'[u] <= base'[t] + AgeMax
<1>1. ASSUME TypeOK, TypeOK', EffectiveIsEarned, EffectiveIsEarned', [Next]_vars PROVE Band
  <2>1. CASE UNCHANGED current
    BY <2>1
  <2>2. ASSUME NEW st, NEW from, Turn(st, from) PROVE Band
    BY <1>1, <2>2, TurnBand
  <2>3. CASE HostTurn
    BY <2>2, <2>3 DEF HostTurn
  <2>4. ASSUME NEW t \in Threads, Reschedule(t) PROVE Band
    BY <2>2, <2>4 DEF Reschedule
  <2>5. CASE Inside \/ Interrupt
    BY <2>1, <2>3, <2>4, <2>5
    DEF Inside, Interrupt, Drain, HeldOff, BlockOn, Woke, Tick, GiveFromIsr
  <2>6. ASSUME NEW t \in Threads, Call(t) PROVE UNCHANGED current
    <3>1. CASE Locking(t)
      BY <3>1 DEF Locking, Take, SemGive, Relock, MutexUnlock, SchedLock, SchedUnlock
    <3>2. CASE Ending(t)
      BY <3>2 DEF Ending, Exit, Overrun, Kill, Stop, End
    <3>3. CASE Prioritising(t)
      BY <3>3 DEF Prioritising, PrioritySet, SetBoost
    <3>4. CASE Yield(t) \/ \E d \in Sleeps : Sleep(t, d)
      BY <3>4 DEF Yield, Sleep
    <3> QED BY <2>6, <3>1, <3>2, <3>3, <3>4 DEF Call
  <2>7. ASSUME NEW t \in Threads, Release(t) \/ \E p \in NewPrios : Create(t, p)
        PROVE  UNCHANGED current
    BY <2>7 DEF Release, Create
  <2>8. CASE UNCHANGED vars
    BY <2>1, <2>8 DEF vars
  <2> HIDE DEF Band
  <2> QED BY <1>1, <2>1, <2>5, <2>6, <2>7, <2>8 DEF Next
<1>2. TypeOK /\ TypeOK' /\ EffectiveIsEarned /\ EffectiveIsEarned' /\ [Next]_vars => [Band]_vars
  BY <1>1
<1> QED BY <1>2, TypeCorrect, EarnedAlways, PTL DEF Spec, BandsHold

-----------------------------------------------------------------------------
\* Lists: what removing and pushing do to the members.
LEMMA WithoutMembers ==
  ASSUME NEW S, NEW q \in Seq(S), Distinct(q), NEW i \in DOMAIN q
  PROVE  Members(Without(q, i)) = Members(q) \ {q[i]} /\ Distinct(Without(q, i))
<1> DEFINE r == Without(q, i)
<1>1. Len(q) \in Nat /\ i \in 1..Len(q) /\ DOMAIN q = 1..Len(q)
  OBVIOUS
<1>2. DOMAIN r = 1..(Len(q) - 1)
  BY DEF Without
<1>3. \A j \in 1..(Len(q) - 1) : r[j] = IF j < i THEN q[j] ELSE q[j + 1]
  BY DEF Without
<1> HIDE DEF r
<1>4. ASSUME NEW x \in Members(r) PROVE x \in Members(q) /\ x # q[i]
  <2>1. PICK j \in 1..(Len(q) - 1) : x = r[j]
    BY <1>2 DEF Members
  <2>2. CASE j < i
    <3>1. x = q[j] /\ j \in DOMAIN q /\ j # i
      BY <1>1, <1>3, <2>1, <2>2
    <3> QED BY <3>1 DEF Members, Distinct
  <2>3. CASE ~ (j < i)
    <3>1. x = q[j + 1] /\ j + 1 \in DOMAIN q /\ j + 1 # i
      BY <1>1, <1>3, <2>1, <2>3
    <3> QED BY <3>1 DEF Members, Distinct
  <2> QED BY <2>2, <2>3
<1>5. ASSUME NEW x \in Members(q), x # q[i] PROVE x \in Members(r)
  <2>1. PICK j \in 1..Len(q) : x = q[j]
    BY <1>1 DEF Members
  <2>2. CASE j < i
    <3>1. j \in 1..(Len(q) - 1) /\ r[j] = x
      BY <1>1, <1>3, <2>1, <2>2
    <3> QED BY <1>2, <3>1 DEF Members
  <2>3. CASE j > i
    <3>1. j - 1 \in 1..(Len(q) - 1) /\ ~ (j - 1 < i) /\ (j - 1) + 1 = j
      BY <1>1, <2>1, <2>3
    <3>2. r[j - 1] = x
      BY <1>3, <2>1, <3>1
    <3> QED BY <1>2, <3>1, <3>2 DEF Members
  <2> QED BY <1>1, <1>5, <2>1, <2>2, <2>3
<1>6. Distinct(r)
  <2> SUFFICES ASSUME NEW j \in 1..(Len(q) - 1), NEW k \in 1..(Len(q) - 1), r[j] = r[k]
               PROVE  j = k
    BY <1>2 DEF Distinct
  <2> DEFINE at(n) == IF n < i THEN n ELSE n + 1
  <2>1. at(j) \in DOMAIN q /\ at(k) \in DOMAIN q
    BY <1>1
  <2>2. q[at(j)] = r[j] /\ q[at(k)] = r[k]
    BY <1>3
  <2>3. at(j) = at(k)
    BY <2>1, <2>2 DEF Distinct
  <2> QED BY <1>1, <2>3
<1> QED BY <1>4, <1>5, <1>6 DEF r

LEMMA UnlinkedMembers ==
  ASSUME NEW S, NEW q \in Seq(S), Distinct(q), NEW t
  PROVE  Members(Unlinked(q, t)) = Members(q) \ {t} /\ Distinct(Unlinked(q, t))
<1>1. CASE \E i \in DOMAIN q : q[i] = t
  <2> DEFINE k == CHOOSE i \in DOMAIN q : q[i] = t
  <2>1. k \in DOMAIN q /\ q[k] = t
    BY <1>1
  <2>2. Unlinked(q, t) = Without(q, k)
    BY <1>1 DEF Unlinked
  <2> HIDE DEF k
  <2> QED BY <2>1, <2>2, WithoutMembers
<1>2. CASE ~ \E i \in DOMAIN q : q[i] = t
  BY <1>2 DEF Unlinked, Members
<1> QED BY <1>1, <1>2

LEMMA PushedMembers ==
  ASSUME NEW S, NEW q \in Seq(S), Distinct(q), NEW t \in S, t \notin Members(q)
  PROVE  Members(<<t>> \o q) = Members(q) \cup {t} /\ Distinct(<<t>> \o q)
<1> DEFINE r == <<t>> \o q
<1>1. Len(q) \in Nat /\ DOMAIN q = 1..Len(q) /\ DOMAIN r = 1..(Len(q) + 1)
  OBVIOUS
<1>2. r[1] = t /\ \A j \in 1..Len(q) : r[j + 1] = q[j]
  OBVIOUS
<1> HIDE DEF r
<1>3. \A j \in DOMAIN r : j = 1 \/ (j - 1 \in 1..Len(q) /\ r[j] = q[j - 1])
  <2> SUFFICES ASSUME NEW j \in DOMAIN r, j # 1
               PROVE  j - 1 \in 1..Len(q) /\ r[j] = q[j - 1]
    OBVIOUS
  <2>1. j - 1 \in 1..Len(q) /\ (j - 1) + 1 = j
    BY <1>1
  <2> QED BY <1>2, <2>1
<1>4. \A x \in Members(r) : x \in Members(q) \cup {t}
  BY <1>1, <1>2, <1>3 DEF Members
<1>5. t \in Members(r)
  BY <1>1, <1>2 DEF Members
<1>6. \A x \in Members(q) : x \in Members(r)
  <2> SUFFICES ASSUME NEW j \in 1..Len(q) PROVE q[j] \in Members(r)
    BY <1>1 DEF Members
  <2>1. j + 1 \in DOMAIN r /\ r[j + 1] = q[j]
    BY <1>1, <1>2
  <2> QED BY <2>1 DEF Members
<1>7. Distinct(r)
  <2> SUFFICES ASSUME NEW j \in DOMAIN r, NEW k \in DOMAIN r, r[j] = r[k]
               PROVE  j = k
    BY DEF Distinct
  <2>1. \A n \in DOMAIN r : n # 1 => r[n] # t
    BY <1>1, <1>3 DEF Members
  <2>2. CASE j = 1 \/ k = 1
    BY <1>2, <2>1, <2>2
  <2>3. CASE j # 1 /\ k # 1
    <3>1. j - 1 \in DOMAIN q /\ k - 1 \in DOMAIN q /\ q[j - 1] = q[k - 1]
      BY <1>1, <1>3, <2>3
    <3>2. j - 1 = k - 1
      BY <3>1 DEF Distinct
    <3> QED BY <1>1, <3>2
  <2> QED BY <2>2, <2>3
<1> QED BY <1>4, <1>5, <1>6, <1>7 DEF r

-----------------------------------------------------------------------------
LEMMA NoQIsNoWaitq == NoQ \notin Waitqs
  BY KernelAssumption

\* A thread leaves its list and its blocked_on at once.
LEMMA LeaveQueue ==
  ASSUME TypeOK, QueueConsistent, NEW t \in Threads, NEW w \in Waitqs, blockedOn[t] = w,
         blockedOn' = [blockedOn EXCEPT ![t] = NoQ],
         Members(waitq'[w]) = Members(waitq[w]) \ {t}, Distinct(waitq'[w]),
         \A v \in Waitqs : v # w => waitq'[v] = waitq[v]
  PROVE  QueueConsistent'
<1>1. \A u \in Threads : blockedOn'[u] = IF u = t THEN NoQ ELSE blockedOn[u]
  BY DEF TypeOK, ListType
<1>2. ASSUME NEW u \in Threads, NEW v \in Waitqs
      PROVE  u \in Members(waitq'[v]) <=> blockedOn'[u] = v
  <2>1. u \in Members(waitq[v]) <=> blockedOn[u] = v
    BY DEF QueueConsistent
  <2>2. CASE v = w
    BY <1>1, <2>1, <2>2, NoQIsNoWaitq
  <2>3. CASE v # w
    BY <1>1, <2>1, <2>3, NoQIsNoWaitq
  <2> QED BY <2>2, <2>3
<1>3. \A v \in Waitqs : Distinct(waitq'[v])
  BY DEF QueueConsistent
<1> QED BY <1>2, <1>3 DEF QueueConsistent

\* Waking the best waiter of w, if there is one, takes it off its list.
LEMMA PopBestQueues ==
  ASSUME TypeOK, QueueConsistent, NEW w \in Waitqs, PopBest(w)
  PROVE  /\ QueueConsistent'
         /\ \/ UNCHANGED <<blockedOn, state>>
            \/ \E t \in Threads :
                 /\ blockedOn[t] = w /\ blockedOn' = [blockedOn EXCEPT ![t] = NoQ]
                 /\ state' = [state EXCEPT ![t] = "READY"]
<1> USE DEF TypeOK, ListType
<1>1. CASE waitq[w] = <<>> /\ UNCHANGED <<listVars, state>>
  BY <1>1 DEF QueueConsistent, listVars
<1>2. ASSUME NEW i \in DOMAIN waitq[w],
             waitq' = [waitq EXCEPT ![w] = Without(@, i)],
             blockedOn' = [blockedOn EXCEPT ![waitq[w][i]] = NoQ],
             state' = [state EXCEPT ![waitq[w][i]] = "READY"]
      PROVE  /\ QueueConsistent'
             /\ \E t \in Threads :
                 /\ blockedOn[t] = w /\ blockedOn' = [blockedOn EXCEPT ![t] = NoQ]
                 /\ state' = [state EXCEPT ![t] = "READY"]
  <2> DEFINE t == waitq[w][i]
  <2>1. t \in Threads /\ t \in Members(waitq[w])
    BY <1>2 DEF Members
  <2>2. blockedOn[t] = w
    BY <2>1 DEF QueueConsistent
  <2>3. /\ Members(waitq'[w]) = Members(waitq[w]) \ {t} /\ Distinct(waitq'[w])
    BY <1>2, WithoutMembers DEF QueueConsistent
  <2>4. \A v \in Waitqs : v # w => waitq'[v] = waitq[v]
    BY <1>2
  <2>5. blockedOn' = [blockedOn EXCEPT ![t] = NoQ]
    BY <1>2
  <2> HIDE DEF t
  <2>6. QueueConsistent'
    BY <2>1, <2>2, <2>3, <2>4, <2>5, LeaveQueue
  <2> QED BY <1>2, <2>1, <2>2, <2>6 DEF t
<1> QED BY <1>1, <1>2 DEF PopBest

LEMMA DetachQueues ==
  ASSUME TypeOK, QueueConsistent, NEW t \in Threads, Detach(t)
  PROVE  QueueConsistent' /\ blockedOn' = [blockedOn EXCEPT ![t] = NoQ]
<1> USE DEF TypeOK, ListType
<1>1. blockedOn' = [blockedOn EXCEPT ![t] = NoQ]
  BY DEF Detach
<1>2. CASE blockedOn[t] = NoQ
  <2>1. UNCHANGED <<waitq, blockedOn>>
    BY <1>1, <1>2 DEF Detach
  <2> QED BY <1>1, <2>1 DEF QueueConsistent
<1>3. ASSUME NEW w \in Waitqs, blockedOn[t] = w PROVE QueueConsistent'
  <2>1. w # NoQ /\ waitq' = [waitq EXCEPT ![w] = Unlinked(@, t)]
    BY <1>3, NoQIsNoWaitq DEF Detach
  <2>2. Members(waitq'[w]) = Members(waitq[w]) \ {t} /\ Distinct(waitq'[w])
    BY <2>1, UnlinkedMembers DEF QueueConsistent
  <2>3. \A v \in Waitqs : v # w => waitq'[v] = waitq[v]
    BY <2>1
  <2> QED BY <1>1, <1>3, <2>2, <2>3, LeaveQueue
<1> QED BY <1>1, <1>2, <1>3

-----------------------------------------------------------------------------
LEMMA InitKernelInv == Init => KernelInv
<1> SUFFICES ASSUME Init PROVE KernelInv
  OBVIOUS
<1>1. QueueConsistent
  <2>1. \A w \in Waitqs : Members(waitq[w]) = {} /\ Distinct(waitq[w])
    BY DEF Init, Members, Distinct
  <2>2. \A t \in Threads : blockedOn[t] = NoQ
    BY DEF Init
  <2> QED BY <2>1, <2>2, NoQIsNoWaitq DEF QueueConsistent
<1>2. ASSUME NEW t \in Threads PROVE Runs(t) /\ Waits(t) /\ Stands(t)
  <2>1. current # t
    BY HostIsNoThread DEF Init
  <2>2. /\ pc[t] = "run" /\ blockedOn[t] = NoQ /\ fault[t] = "NONE"
        /\ \/ state[t] = "DEAD" /\ stack[t] = "none"
           \/ state[t] = "READY" /\ stack[t] = "ok"
    BY DEF Init
  <2> QED BY <2>1, <2>2 DEF Runs, Waits, Stands
<1>3. schedLock = 0
  BY DEF Init
<1> QED BY <1>1, <1>2, <1>3 DEF KernelInv, PlaceInv

\* A give made by the running thread wakes somebody else.
LEMMA PopBestPlace ==
  ASSUME TypeOK, KernelInv, NEW w \in Waitqs, PopBest(w), NEW c \in Threads,
         current = c, pc[c] # "resched", blockedOn[c] = NoQ,
         UNCHANGED <<current, schedLock, stack, fault>>,
         \A u \in Threads : u # c => pc'[u] = pc[u] /\ want'[u] = want[u],
         want'[c] # NoQ => schedLock = 0
  PROVE  KernelInv'
<1>1. QueueConsistent'
  BY PopBestQueues DEF KernelInv
<1>2. ASSUME NEW u \in Threads PROVE Runs(u)' /\ Waits(u)' /\ Stands(u)'
  <2>1. Runs(u) /\ Waits(u) /\ Stands(u) /\ Runs(c)
    BY DEF KernelInv, PlaceInv
  <2>2. CASE UNCHANGED <<blockedOn, state>>
    BY <2>1, <2>2 DEF Runs, Waits, Stands
  <2>3. ASSUME NEW t \in Threads, blockedOn[t] = w,
               blockedOn' = [blockedOn EXCEPT ![t] = NoQ],
               state' = [state EXCEPT ![t] = "READY"]
        PROVE  Runs(u)' /\ Waits(u)' /\ Stands(u)'
    <3>1. t # c
      BY <2>3, NoQIsNoWaitq
    <3>2. CASE u = t
      <4>1. blockedOn'[u] = NoQ /\ state'[u] = "READY" /\ state[u] \in {"BLOCKED", "READY"}
        BY <2>1, <2>3, <3>1, <3>2, NoQIsNoWaitq DEF TypeOK, ListType, StateType, Waits
      <4> QED BY <2>1, <3>1, <3>2, <4>1 DEF Runs, Waits, Stands
    <3>3. CASE u # t
      <4>1. blockedOn'[u] = blockedOn[u] /\ state'[u] = state[u]
        BY <2>3, <3>3 DEF TypeOK, ListType, StateType
      <4> QED BY <2>1, <4>1 DEF Runs, Waits, Stands
    <3> QED BY <3>2, <3>3
  <2> QED BY <2>2, <2>3, PopBestQueues DEF KernelInv
<1> QED BY <1>1, <1>2 DEF KernelInv, PlaceInv

\* The running thread's own calls find it off every list.
LEMMA CallerIsOffQueues ==
  ASSUME KernelInv, NEW t \in Threads, current = t, pc[t] \in {"run", "block"}, CallType
  PROVE  blockedOn[t] = NoQ /\ state[t] = "RUNNING"
  BY DEF KernelInv, PlaceInv, Runs, Waits

LEMMA AcquirePlace ==
  ASSUME TypeOK, KernelInv, NEW t \in Threads, NEW w \in Waitqs, Acquire(t, w),
         current = t, pc[t] # "resched", blockedOn[t] = NoQ,
         UNCHANGED <<current, schedLock, stack, fault>>,
         \A u \in Threads : u # t => pc'[u] = pc[u] /\ want'[u] = want[u],
         want'[t] # NoQ => schedLock = 0
  PROVE  KernelInv'
<1>1. CASE Partner[w] # NoQ
  <2>1. Partner[w] \in Waitqs /\ PopBest(Partner[w])
    BY <1>1, KernelAssumption DEF Acquire, WakePartner
  <2> QED BY <2>1, PopBestPlace
<1>2. CASE Partner[w] = NoQ
  <2>1. UNCHANGED <<waitq, blockedOn, state>>
    BY <1>2 DEF Acquire, WakePartner, listVars
  <2>2. QueueConsistent'
    BY <2>1 DEF KernelInv, QueueConsistent
  <2>3. ASSUME NEW u \in Threads PROVE Runs(u)' /\ Waits(u)' /\ Stands(u)'
    <3>1. Runs(u) /\ Waits(u) /\ Stands(u)
      BY DEF KernelInv, PlaceInv
    <3> QED BY <2>1, <3>1 DEF Runs, Waits, Stands
  <2> QED BY <2>2, <2>3 DEF KernelInv, PlaceInv
<1> QED BY <1>1, <1>2

-----------------------------------------------------------------------------
\* A turn of the scheduler moves the processor without touching a list.
LEMMA TurnPlace ==
  ASSUME TypeOK, KernelInv, NEW from \in Threads \cup {Host}, current = from,
         from = Host \/ pc[from] = "resched", schedLock = 0,
         Turn(state, from), stack' = Reaped(state, from),
         UNCHANGED <<waitq, blockedOn, want, schedLock, fault>>,
         \A u \in Threads : pc'[u] = IF u # from THEN pc[u]
                                     ELSE IF want[u] = NoQ THEN "run" ELSE "woke"
  PROVE  KernelInv'
<1> DEFINE awake == Awakened(state)
<1>1. QueueConsistent'
  BY DEF KernelInv, QueueConsistent
<1>2. \A u \in Threads :
        /\ awake[u] # "DEAD" <=> state[u] # "DEAD"
        /\ awake[u] = "RUNNING" <=> state[u] = "RUNNING"
        /\ state[u] \in {"BLOCKED", "READY"} => awake[u] \in {"BLOCKED", "READY"}
  BY DEF Awakened, Due
<1>3. \A u \in Threads : awake[u] = "RUNNING" => u = from
  BY <1>2 DEF KernelInv, PlaceInv, Runs
<1>4. \A u \in Threads : pc'[u] \in {"run", "woke"}
  BY DEF KernelInv, PlaceInv, Runs
<1>5. schedLock' = 0
  OBVIOUS
<1> HIDE DEF awake
<1>6. ASSUME NEW u \in Threads PROVE Runs(u)' /\ Waits(u)' /\ Stands(u)'
  <2>1. Runs(u) /\ Waits(u) /\ Stands(u)
    BY DEF KernelInv, PlaceInv
  <2>2. stack'[u] = IF state[u] = "DEAD" /\ u # from THEN "none" ELSE stack[u]
    BY DEF Reaped
  <2>3. CASE current' = Host /\ state' = awake /\ Runnable(awake) = {}
    <3>1. awake[u] \notin {"READY", "RUNNING"}
      BY <2>3 DEF Runnable
    <3> QED BY <1>2, <1>4, <1>5, <2>1, <2>2, <2>3, <3>1, HostIsNoThread DEF Runs, Waits, Stands
  <2>4. ASSUME NEW n \in Threads, n \in Runnable(awake), n = from, awake[n] = "RUNNING",
               state' = awake, current' = current
        PROVE  Runs(u)' /\ Waits(u)' /\ Stands(u)'
    BY <1>2, <1>3, <1>4, <1>5, <2>1, <2>2, <2>4 DEF Runs, Waits, Stands
  <2>5. ASSUME NEW n \in Threads, n \in Runnable(awake), current' = n,
               state' = [Left(awake, from) EXCEPT ![n] = "RUNNING"]
        PROVE  Runs(u)' /\ Waits(u)' /\ Stands(u)'
    <3>1. awake[n] # "DEAD"
      BY <2>5 DEF Runnable
    <3>2. state'[u] = IF u = n THEN "RUNNING"
                      ELSE IF u = from /\ awake[u] = "RUNNING" THEN "READY" ELSE awake[u]
      BY <2>5 DEF Left
    <3>3. CASE u = n
      <4>1. pc[u] = "run" => want[u] = NoQ
        BY DEF TypeOK, CallType
      <4> QED BY <4>1, <1>2, <1>4, <1>5, <2>1, <2>2, <2>5, <3>1, <3>2, <3>3 DEF Runs, Waits, Stands
    <3>4. CASE u # n
      BY <1>2, <1>3, <1>4, <1>5, <2>1, <2>2, <2>5, <3>1, <3>2, <3>4 DEF Runs, Waits, Stands
    <3> QED BY <3>3, <3>4
  <2> QED BY <2>3, <2>4, <2>5, Zenon DEF Turn, IsNext, awake
<1> QED BY <1>1, <1>6 DEF KernelInv, PlaceInv

\* Steps that leave the lists, the states and the processor alone.
LEMMA SamePlace ==
  ASSUME TypeOK, KernelInv,
         UNCHANGED <<waitq, blockedOn, state, current, schedLock, stack, fault, want>>,
         \A u \in Threads : pc'[u] = pc[u] \/ (current = u /\ state[u] = "RUNNING" /\ blockedOn[u] = NoQ)
  PROVE  KernelInv'
<1>1. QueueConsistent'
  BY DEF KernelInv, QueueConsistent
<1>2. ASSUME NEW u \in Threads PROVE Runs(u)' /\ Waits(u)' /\ Stands(u)'
  <2>1. Runs(u) /\ Waits(u) /\ Stands(u)
    BY DEF KernelInv, PlaceInv
  <2> QED BY <2>1 DEF Runs, Waits, Stands
<1> QED BY <1>1, <1>2 DEF KernelInv, PlaceInv

LEMMA InsidePlace ==
  ASSUME MayOverrun = {}, TypeOK, KernelInv, Inside
  PROVE  KernelInv'
<1> USE DEF TypeOK
<1>1. CASE Drain
  <2>1. Head(pend) \in Waitqs /\ PopBest(Head(pend))
    BY <1>1 DEF Drain, CpuType
  <2>2. PICK w \in Waitqs : PopBest(w)
    BY <2>1
  <2>3. UNCHANGED <<pc, want, current, schedLock, stack, fault>>
    BY <1>1 DEF Drain, callVars, lifeVars
  <2>4. ASSUME NEW u \in Threads PROVE Runs(u)' /\ Waits(u)' /\ Stands(u)'
    <3>1. Runs(u) /\ Waits(u) /\ Stands(u)
      BY DEF KernelInv, PlaceInv
    <3>2. CASE UNCHANGED <<blockedOn, state>>
      BY <2>3, <3>1, <3>2 DEF Runs, Waits, Stands
    <3>3. ASSUME NEW t \in Threads, blockedOn[t] = w,
                 blockedOn' = [blockedOn EXCEPT ![t] = NoQ],
                 state' = [state EXCEPT ![t] = "READY"]
          PROVE  Runs(u)' /\ Waits(u)' /\ Stands(u)'
      <4>1. CASE u = t
        <5>1. blockedOn[u] # NoQ /\ blockedOn'[u] = NoQ /\ state'[u] = "READY"
          BY <3>3, <4>1, NoQIsNoWaitq DEF ListType, StateType
        <5>2. current = u => pc[u] = "resched"
          BY <1>1 DEF Drain
        <5>3. state[u] \in {"BLOCKED", "READY"}
          BY <3>1, <5>1, <5>2 DEF Waits
        <5> QED BY <2>3, <3>1, <5>1, <5>2, <5>3 DEF Runs, Waits, Stands
      <4>2. CASE u # t
        <5>1. blockedOn'[u] = blockedOn[u] /\ state'[u] = state[u]
          BY <3>3, <4>2 DEF ListType, StateType
        <5> QED BY <2>3, <3>1, <5>1 DEF Runs, Waits, Stands
      <4> QED BY <4>1, <4>2
    <3> QED BY <2>2, <3>2, <3>3, PopBestQueues DEF KernelInv
  <2>5. QueueConsistent'
    BY <2>2, PopBestQueues DEF KernelInv
  <2> QED BY <2>3, <2>4, <2>5 DEF KernelInv, PlaceInv
<1>2. CASE HostTurn
  <2>1. /\ current = Host /\ Turn(state, Host) /\ stack' = Reaped(state, Host)
        /\ UNCHANGED <<waitq, blockedOn, want, pc, schedLock, fault>>
    BY <1>2 DEF HostTurn, callVars
  <2>2. schedLock = 0
    BY <2>1 DEF KernelInv, PlaceInv
  <2>3. \A u \in Threads : u # Host
    BY HostIsNoThread
  <2> QED BY <2>1, <2>2, <2>3, TurnPlace
<1>3. ASSUME NEW t \in Threads, HeldOff(t) PROVE KernelInv'
  <2>1. current = t /\ pc[t] = "resched" /\ state[t] = "RUNNING"
    BY <1>3 DEF HeldOff, KernelInv, PlaceInv, Runs
  <2>2. blockedOn[t] = NoQ
    BY <2>1 DEF KernelInv, PlaceInv, Waits
  <2>3. \A u \in Threads : u # t => pc'[u] = pc[u]
    BY <1>3 DEF HeldOff, Resumed, CallType
  <2>4. UNCHANGED <<waitq, blockedOn, state, current, schedLock, stack, fault, want>>
    BY <1>3 DEF HeldOff, listVars, lifeVars
  <2> QED BY <2>1, <2>2, <2>3, <2>4, SamePlace
<1>4. ASSUME NEW t \in Threads, Reschedule(t) PROVE KernelInv'
  <2>1. current = t /\ pc[t] = "resched" /\ schedLock = 0
    BY <1>4 DEF Reschedule
  <2>2. stack[t] # "overrun"
    BY DEF KernelInv, PlaceInv, Stands
  <2>3. /\ Turn(state, t) /\ stack' = Reaped(state, t) /\ pc' = Resumed(t)
        /\ UNCHANGED <<waitq, blockedOn, want, schedLock, fault>>
    BY <1>4, <2>2 DEF Reschedule
  <2>4. \A u \in Threads : pc'[u] = IF u # t THEN pc[u]
                                    ELSE IF want[u] = NoQ THEN "run" ELSE "woke"
    BY <2>3 DEF Resumed, CallType
  <2> QED BY <2>1, <2>3, <2>4, TurnPlace
<1>5. ASSUME NEW t \in Threads, BlockOn(t) PROVE KernelInv'
  <2> DEFINE w == want[t]
  <2>1. w \in Waitqs /\ current = t /\ pc[t] = "block"
    BY <1>5 DEF BlockOn, CallType
  <2>2. blockedOn[t] = NoQ /\ state[t] = "RUNNING" /\ stack[t] = "ok" /\ fault[t] = "NONE"
    BY <2>1, CallerIsOffQueues DEF KernelInv, PlaceInv, Stands, LifeType, Faults
  <2>3. waitq' = [waitq EXCEPT ![w] = <<t>> \o @]
    BY <1>5 DEF BlockOn
  <2>4. waitq[w] \in Seq(Threads) /\ Distinct(waitq[w]) /\ t \notin Members(waitq[w])
    BY <2>1, <2>2, NoQIsNoWaitq DEF KernelInv, QueueConsistent, ListType
  <2> HIDE DEF w
  <2>5. Members(waitq'[w]) = Members(waitq[w]) \cup {t} /\ Distinct(waitq'[w])
    BY <2>1, <2>3, <2>4, PushedMembers DEF ListType
  <2>6. \A v \in Waitqs : v # w => waitq'[v] = waitq[v]
    BY <2>3 DEF ListType
  <2>7. \A u \in Threads : blockedOn'[u] = IF u = t THEN w ELSE blockedOn[u]
    BY <1>5 DEF BlockOn, ListType, w
  <2>8. QueueConsistent'
    <3>1. ASSUME NEW u \in Threads, NEW v \in Waitqs
          PROVE  u \in Members(waitq'[v]) <=> blockedOn'[u] = v
      <4>1. u \in Members(waitq[v]) <=> blockedOn[u] = v
        BY DEF KernelInv, QueueConsistent
      <4> QED BY <2>1, <2>2, <2>5, <2>6, <2>7, <4>1, NoQIsNoWaitq
    <3>2. \A v \in Waitqs : Distinct(waitq'[v])
      BY <2>5, <2>6 DEF KernelInv, QueueConsistent
    <3> QED BY <3>1, <3>2 DEF QueueConsistent
  <2>9. ASSUME NEW u \in Threads PROVE Runs(u)' /\ Waits(u)' /\ Stands(u)'
    <3>1. Runs(u) /\ Waits(u) /\ Stands(u)
      BY DEF KernelInv, PlaceInv
    <3>2. CASE u = t
      <4>1. /\ state'[u] = "BLOCKED" /\ pc'[u] = "resched" /\ schedLock = 0
            /\ current' = t /\ want'[u] = w /\ schedLock' = schedLock
            /\ stack'[u] = "ok" /\ fault'[u] = "NONE"
        <5>1. schedLock = 0
          BY <2>1, <3>1, <3>2, NoQIsNoWaitq DEF Runs, w
        <5> QED BY <1>5, <2>1, <2>2, <3>2, <5>1 DEF BlockOn, StateType, CallType, lifeVars, w
      <4> QED BY <2>1, <3>2, <4>1, NoQIsNoWaitq DEF Runs, Waits, Stands
    <3>3. CASE u # t
      <4>1. /\ state'[u] = state[u] /\ pc'[u] = pc[u] /\ blockedOn'[u] = blockedOn[u]
            /\ UNCHANGED <<current, schedLock, want, stack, fault>>
        BY <1>5, <2>7, <3>3 DEF BlockOn, StateType, CallType, lifeVars
      <4> QED BY <3>1, <4>1 DEF Runs, Waits, Stands
    <3> QED BY <3>2, <3>3
  <2> QED BY <1>5, <2>1, <2>8, <2>9, HostIsNoThread DEF KernelInv, PlaceInv, BlockOn
<1>6. ASSUME NEW t \in Threads, Woke(t) PROVE KernelInv'
  <2>1. current = t /\ pc[t] = "woke" /\ state[t] = "RUNNING" /\ want[t] \in Waitqs
    BY <1>6 DEF Woke, KernelInv, PlaceInv, Runs, CallType
  <2>2. UNCHANGED <<current, schedLock, stack, fault>>
    BY <1>6 DEF Woke, lifeVars
  <2>3. CASE /\ Detach(t) /\ UNCHANGED <<state, lockVars, count>>
             /\ pc' = [pc EXCEPT ![t] = "run"] /\ want' = [want EXCEPT ![t] = NoQ]
    <3>1. QueueConsistent' /\ blockedOn' = [blockedOn EXCEPT ![t] = NoQ]
      BY <2>3, DetachQueues DEF KernelInv
    <3>2. ASSUME NEW u \in Threads PROVE Runs(u)' /\ Waits(u)' /\ Stands(u)'
      <4>1. Runs(u) /\ Waits(u) /\ Stands(u)
        BY DEF KernelInv, PlaceInv
      <4>2. CASE u = t
        BY <2>1, <2>2, <2>3, <3>1, <4>1, <4>2 DEF Runs, Waits, Stands, ListType, CallType
      <4>3. CASE u # t
        <5>1. pc'[u] = pc[u] /\ want'[u] = want[u] /\ blockedOn'[u] = blockedOn[u]
          BY <2>3, <3>1, <4>3 DEF CallType, ListType
        <5> QED BY <2>2, <2>3, <4>1, <5>1 DEF Runs, Waits, Stands
      <4> QED BY <4>2, <4>3
    <3> QED BY <2>1, <2>2, <3>1, <3>2, HostIsNoThread DEF KernelInv, PlaceInv
  <2>4. CASE /\ blockedOn[t] = NoQ /\ Acquire(t, want[t])
             /\ pc' = [pc EXCEPT ![t] = "run"] /\ want' = [want EXCEPT ![t] = NoQ]
    <3>1. /\ want'[t] = NoQ /\ \A u \in Threads : u # t => pc'[u] = pc[u] /\ want'[u] = want[u]
      BY <2>4 DEF CallType
    <3> QED BY <2>1, <2>2, <2>4, <3>1, AcquirePlace
  <2>5. CASE /\ blockedOn[t] = NoQ /\ pc' = [pc EXCEPT ![t] = "block"]
             /\ UNCHANGED <<state, listVars, want>>
    <3>1. \A u \in Threads : u # t => pc'[u] = pc[u]
      BY <2>5 DEF CallType
    <3> QED BY <2>1, <2>2, <2>5, <3>1, SamePlace DEF listVars
  <2> QED BY <1>6, <2>3, <2>4, <2>5 DEF Woke
<1> QED BY <1>1, <1>2, <1>3, <1>4, <1>5, <1>6 DEF Inside

-----------------------------------------------------------------------------
LEMMA LockingPlace ==
  ASSUME TypeOK, KernelInv, NEW t \in Threads, Locking(t)
  PROVE  KernelInv'
<1> USE DEF TypeOK
<1>0. current = t /\ pc[t] = "run" /\ want[t] = NoQ /\ blockedOn[t] = NoQ /\ state[t] = "RUNNING"
  <2>1. Calling(t)
    BY DEF Locking, Take, SemGive, Relock, MutexUnlock, SchedLock, SchedUnlock
  <2>2. current = t /\ pc[t] = "run"
    BY <2>1 DEF Calling
  <2> QED BY <2>2, CallerIsOffQueues DEF CallType
<1>1. ASSUME NEW w \in Waitqs, NEW d \in Timeouts, Take(t, w, d) PROVE KernelInv'
  <2>1. UNCHANGED <<current, schedLock, stack, fault>>
    BY <1>1 DEF Take, lifeVars
  <2>2. CASE Acquire(t, w) /\ UNCHANGED callVars
    BY <1>0, <2>1, <2>2, AcquirePlace DEF callVars
  <2>3. CASE /\ MayWait /\ pc' = [pc EXCEPT ![t] = "block"] /\ want' = [want EXCEPT ![t] = w]
             /\ UNCHANGED <<state, listVars, lockVars, count>>
    <3>1. QueueConsistent'
      BY <2>3 DEF KernelInv, QueueConsistent, listVars
    <3>2. ASSUME NEW u \in Threads PROVE Runs(u)' /\ Waits(u)' /\ Stands(u)'
      <4>1. Runs(u) /\ Waits(u) /\ Stands(u)
        BY DEF KernelInv, PlaceInv
      <4>2. CASE u = t
        BY <1>0, <2>1, <2>3, <4>1, <4>2 DEF Runs, Waits, Stands, CallType, listVars, MayWait
      <4>3. CASE u # t
        <5>1. pc'[u] = pc[u] /\ want'[u] = want[u]
          BY <2>3, <4>3 DEF CallType
        <5> QED BY <2>1, <2>3, <4>1, <5>1 DEF Runs, Waits, Stands, listVars
      <4> QED BY <4>2, <4>3
    <3> QED BY <1>0, <2>1, <3>1, <3>2, HostIsNoThread DEF KernelInv, PlaceInv
  <2> QED BY <1>1, <2>2, <2>3 DEF Take
<1>2. ASSUME NEW w \in Waitqs, SemGive(t, w) PROVE KernelInv'
  <2>1. UNCHANGED <<current, schedLock, stack, fault, pc, want>> /\ PopBest(w)
    BY <1>2 DEF SemGive, Give, lifeVars, callVars
  <2> QED BY <1>0, <2>1, PopBestPlace
<1>3. ASSUME NEW m \in Mutexes, Relock(t, m) PROVE KernelInv'
  BY <1>3, SamePlace DEF Relock, listVars, lifeVars, callVars
<1>4. ASSUME NEW m \in Mutexes, MutexUnlock(t, m) PROVE KernelInv'
  <2>1. UNCHANGED <<current, schedLock, stack, fault, pc, want>>
    BY <1>4 DEF MutexUnlock, lifeVars, callVars
  <2>2. CASE PopBest(m)
    BY <1>0, <2>1, <2>2, PopBestPlace, KernelAssumption
  <2>3. CASE UNCHANGED <<state, listVars>>
    BY <2>1, <2>3, SamePlace DEF listVars
  <2> QED BY <1>4, <2>2, <2>3 DEF MutexUnlock, Give
<1>5. CASE SchedLock(t) \/ SchedUnlock(t)
  <2>1. UNCHANGED <<waitq, blockedOn, state, current, stack, fault, want>>
    BY <1>5 DEF SchedLock, SchedUnlock, listVars, lifeVars, callVars
  <2>2. QueueConsistent'
    BY <2>1 DEF KernelInv, QueueConsistent
  <2>3. \A u \in Threads : u # t => pc'[u] = pc[u]
    BY <1>5 DEF SchedLock, SchedUnlock, callVars, CallType
  <2>4. ASSUME NEW u \in Threads PROVE Runs(u)' /\ Waits(u)' /\ Stands(u)'
    <3>1. Runs(u) /\ Waits(u) /\ Stands(u)
      BY DEF KernelInv, PlaceInv
    <3> QED BY <1>0, <2>1, <2>3, <3>1 DEF Runs, Waits, Stands
  <2> QED BY <1>0, <2>1, <2>2, <2>4, HostIsNoThread DEF KernelInv, PlaceInv
<1> QED BY <1>1, <1>2, <1>3, <1>4, <1>5 DEF Locking

\* Ending a thread that does not have the processor.
LEMMA EndPlace ==
  ASSUME TypeOK, KernelInv, NEW u \in Threads, End(u), current # u,
         \A v \in Threads : v # u => fault'[v] = fault[v]
  PROVE  KernelInv'
<1> USE DEF TypeOK
<1>1. QueueConsistent' /\ blockedOn' = [blockedOn EXCEPT ![u] = NoQ]
  BY DetachQueues DEF End, KernelInv
<1>2. ASSUME NEW v \in Threads PROVE Runs(v)' /\ Waits(v)' /\ Stands(v)'
  <2>1. Runs(v) /\ Waits(v) /\ Stands(v)
    BY DEF KernelInv, PlaceInv
  <2>2. UNCHANGED <<current, schedLock, stack>>
    BY DEF End
  <2>3. CASE v = u
    <3>1. state'[v] = "DEAD" /\ pc'[v] = "run" /\ want'[v] = NoQ /\ blockedOn'[v] = NoQ
      BY <1>1, <2>3 DEF End, StateType, CallType, ListType
    <3> QED BY <2>1, <2>2, <2>3, <3>1 DEF Runs, Waits, Stands
  <2>4. CASE v # u
    <3>1. /\ state'[v] = state[v] /\ pc'[v] = pc[v] /\ want'[v] = want[v]
          /\ blockedOn'[v] = blockedOn[v] /\ fault'[v] = fault[v]
      BY <1>1, <2>4 DEF End, StateType, CallType, ListType
    <3> QED BY <2>1, <2>2, <3>1 DEF Runs, Waits, Stands
  <2> QED BY <2>3, <2>4
<1> QED BY <1>1, <1>2 DEF KernelInv, PlaceInv, End

LEMMA EndingPlace ==
  ASSUME MayOverrun = {}, TypeOK, KernelInv, NEW t \in Threads, Ending(t)
  PROVE  KernelInv'
<1> USE DEF TypeOK
<1>1. CASE Exit(t)
  <2>1. current = t /\ pc[t] = "run" /\ want[t] = NoQ /\ blockedOn[t] = NoQ /\ schedLock = 0
    BY <1>1, CallerIsOffQueues DEF Exit, Calling, MayWait, CallType
  <2>2. UNCHANGED <<waitq, blockedOn, want, current, schedLock, stack, fault>>
    BY <1>1 DEF Exit, listVars, lifeVars
  <2>3. QueueConsistent'
    BY <2>2 DEF KernelInv, QueueConsistent
  <2>4. ASSUME NEW u \in Threads PROVE Runs(u)' /\ Waits(u)' /\ Stands(u)'
    <3>1. Runs(u) /\ Waits(u) /\ Stands(u)
      BY DEF KernelInv, PlaceInv
    <3>2. CASE u = t
      <4>1. state'[u] = "DEAD" /\ pc'[u] = "resched"
        BY <1>1, <3>2 DEF Exit, StateType, CallType
      <4> QED BY <2>1, <2>2, <3>1, <3>2, <4>1 DEF Runs, Waits, Stands
    <3>3. CASE u # t
      <4>1. state'[u] = state[u] /\ pc'[u] = pc[u]
        BY <1>1, <3>3 DEF Exit, StateType, CallType
      <4> QED BY <2>1, <2>2, <3>1, <4>1 DEF Runs, Waits, Stands
    <3> QED BY <3>2, <3>3
  <2> QED BY <2>1, <2>2, <2>3, <2>4 DEF KernelInv, PlaceInv
<1>2. ASSUME NEW u \in Killable, Kill(t, u) PROVE KernelInv'
  <2>1. u \in Threads /\ current # u /\ End(u) /\ fault' = fault
    BY <1>2, KernelAssumption DEF Kill, Calling
  <2> QED BY <2>1, EndPlace
<1>3. ASSUME NEW u \in Stoppable, Stop(t, u) PROVE KernelInv'
  <2>1. u \in Threads /\ current # u
    BY <1>3, KernelAssumption DEF Stop, Calling
  <2>2. CASE End(u) /\ fault' = [fault EXCEPT ![u] = "KILLED"]
    <3>1. \A v \in Threads : v # u => fault'[v] = fault[v]
      BY <2>2 DEF LifeType
    <3> QED BY <2>1, <2>2, <3>1, EndPlace
  <2>3. CASE UNCHANGED <<state, listVars, prioVars, seq, fault, stack, callVars, lockVars,
                       pendVars, current, schedLock, ageIn, count, crashed>>
    BY <2>3, SamePlace DEF listVars, callVars
  <2> QED BY <1>3, <2>2, <2>3 DEF Stop
<1>4. ~ Overrun(t)
  BY DEF Overrun
<1> QED BY <1>1, <1>2, <1>3, <1>4 DEF Ending

LEMMA CallPlace ==
  ASSUME MayOverrun = {}, TypeOK, KernelInv, NEW t \in Threads, Call(t)
  PROVE  KernelInv'
<1> USE DEF TypeOK
<1>1. CASE Locking(t)
  BY <1>1, LockingPlace
<1>2. CASE Ending(t)
  BY <1>2, EndingPlace
<1>3. ASSUME NEW u \in Threads, NEW p \in NewPrios, PrioritySet(t, u, p) PROVE KernelInv'
  BY <1>3, SamePlace DEF PrioritySet, listVars, lifeVars, callVars
<1>4. ASSUME NEW u \in Threads, NEW k \in Boosts \cup {0}, SetBoost(t, u, k) PROVE KernelInv'
  BY <1>4, SamePlace DEF SetBoost, listVars, lifeVars, callVars
<1>5. CASE Yield(t)
  <2>1. current = t /\ state[t] = "RUNNING" /\ blockedOn[t] = NoQ
    BY <1>5, CallerIsOffQueues DEF Yield, Calling
  <2>2. \A u \in Threads : u # t => pc'[u] = pc[u]
    BY <1>5 DEF Yield, CallType
  <2> QED BY <1>5, <2>1, <2>2, SamePlace DEF Yield, listVars, lifeVars
<1>6. ASSUME NEW d \in Sleeps, Sleep(t, d) PROVE KernelInv'
  <2>1. /\ current = t /\ pc[t] = "run" /\ want[t] = NoQ /\ blockedOn[t] = NoQ /\ schedLock = 0
        /\ state[t] = "RUNNING"
    BY <1>6, CallerIsOffQueues DEF Sleep, Calling, MayWait, CallType
  <2>2. UNCHANGED <<waitq, blockedOn, want, current, schedLock, stack, fault>>
    BY <1>6 DEF Sleep, lifeVars
  <2>3. QueueConsistent'
    BY <2>2 DEF KernelInv, QueueConsistent
  <2>4. ASSUME NEW u \in Threads PROVE Runs(u)' /\ Waits(u)' /\ Stands(u)'
    <3>1. Runs(u) /\ Waits(u) /\ Stands(u)
      BY DEF KernelInv, PlaceInv
    <3>2. CASE u = t
      <4>1. state'[u] = "SLEEPING" /\ pc'[u] = "resched"
        BY <1>6, <3>2 DEF Sleep, StateType, CallType
      <4> QED BY <2>1, <2>2, <3>1, <3>2, <4>1 DEF Runs, Waits, Stands
    <3>3. CASE u # t
      <4>1. state'[u] = state[u] /\ pc'[u] = pc[u]
        BY <1>6, <3>3 DEF Sleep, StateType, CallType
      <4> QED BY <2>1, <2>2, <3>1, <4>1 DEF Runs, Waits, Stands
    <3> QED BY <3>2, <3>3
  <2> QED BY <2>1, <2>2, <2>3, <2>4 DEF KernelInv, PlaceInv
<1> QED BY <1>1, <1>2, <1>3, <1>4, <1>5, <1>6 DEF Call, Prioritising

LEMMA SlotPlace ==
  ASSUME TypeOK, KernelInv, NEW u \in Threads, Release(u) \/ \E p \in NewPrios : Create(u, p)
  PROVE  KernelInv'
<1> USE DEF TypeOK
<1>1. CASE Release(u)
  <2>1. UNCHANGED <<waitq, blockedOn, state, current, schedLock, stack, want, pc>>
    BY <1>1 DEF Release, listVars, callVars
  <2>2. QueueConsistent'
    BY <2>1 DEF KernelInv, QueueConsistent
  <2>3. ASSUME NEW v \in Threads PROVE Runs(v)' /\ Waits(v)' /\ Stands(v)'
    <3>1. Runs(v) /\ Waits(v) /\ Stands(v)
      BY DEF KernelInv, PlaceInv
    <3>2. fault'[v] # "NONE" => fault[v] # "NONE"
      BY <1>1 DEF Release, LifeType
    <3> QED BY <2>1, <3>1, <3>2 DEF Runs, Waits, Stands
  <2> QED BY <2>1, <2>2, <2>3 DEF KernelInv, PlaceInv
<1>2. ASSUME NEW p \in NewPrios, Create(u, p) PROVE KernelInv'
  <2>1. state[u] = "DEAD" /\ fault[u] = "NONE" /\ stack[u] = "none"
    BY <1>2 DEF Create, Free
  <2>2. current # u
    BY <2>1 DEF KernelInv, PlaceInv, Stands
  <2>3. blockedOn[u] = NoQ
    BY <2>1, <2>2 DEF KernelInv, PlaceInv, Waits
  <2>4. UNCHANGED <<waitq, blockedOn, current, schedLock, fault>>
    BY <1>2, <2>3 DEF Create, ListType
  <2>5. QueueConsistent'
    BY <2>4 DEF KernelInv, QueueConsistent
  <2>6. ASSUME NEW v \in Threads PROVE Runs(v)' /\ Waits(v)' /\ Stands(v)'
    <3>1. Runs(v) /\ Waits(v) /\ Stands(v)
      BY DEF KernelInv, PlaceInv
    <3>2. CASE v = u
      <4>1. state'[v] = "READY" /\ pc'[v] = "run" /\ want'[v] = NoQ /\ stack'[v] = "ok"
        BY <1>2, <3>2 DEF Create, StateType, CallType, LifeType
      <4> QED BY <2>1, <2>2, <2>3, <2>4, <3>2, <4>1 DEF Runs, Waits, Stands
    <3>3. CASE v # u
      <4>1. state'[v] = state[v] /\ pc'[v] = pc[v] /\ want'[v] = want[v] /\ stack'[v] = stack[v]
        BY <1>2, <3>3 DEF Create, StateType, CallType, LifeType
      <4> QED BY <2>4, <3>1, <4>1 DEF Runs, Waits, Stands
    <3> QED BY <3>2, <3>3
  <2> QED BY <2>4, <2>5, <2>6 DEF KernelInv, PlaceInv
<1> QED BY <1>1, <1>2

LEMMA KernelInvInductive ==
  ASSUME MayOverrun = {}, TypeOK, KernelInv, [Next]_vars
  PROVE  KernelInv'
<1>1. CASE Inside
  BY <1>1, InsidePlace
<1>2. CASE Interrupt
  <2>1. UNCHANGED <<waitq, blockedOn, state, current, schedLock, stack, fault, want, pc>>
    BY <1>2 DEF Interrupt, Tick, GiveFromIsr, listVars, lifeVars, callVars
  <2> QED BY <2>1, SamePlace
<1>3. ASSUME NEW t \in Threads, Call(t) PROVE KernelInv'
  BY <1>3, CallPlace
<1>4. ASSUME NEW t \in Threads, Release(t) \/ \E p \in NewPrios : Create(t, p)
      PROVE  KernelInv'
  BY <1>4, SlotPlace
<1>5. CASE UNCHANGED vars
  BY <1>5, SamePlace DEF vars, listVars, lifeVars, callVars
<1> QED BY <1>1, <1>2, <1>3, <1>4, <1>5 DEF Next

-----------------------------------------------------------------------------
\* Where no thread overruns its stack, the invariant holds of every kernel, with
\* any callers, kills, stops, timeouts and interrupts.
THEOREM KernelInvHolds == ASSUME MayOverrun = {} PROVE Spec => []KernelInv
<1>1. TypeOK /\ KernelInv /\ [Next]_vars => KernelInv'
  BY KernelInvInductive
<1> QED BY <1>1, InitKernelInv, TypeCorrect, PTL DEF Spec

\* blocked_on and the lists never disagree: no thread is on two lists, or on one
\* twice, or off the one it believes it waits on.
THEOREM QueuesConsistent == ASSUME MayOverrun = {} PROVE Spec => []QueueConsistent
<1>1. KernelInv => QueueConsistent
  BY DEF KernelInv
<1> QED BY <1>1, KernelInvHolds, PTL

\* One thread at most is RUNNING, and no stack under a live thread, or under the
\* corpse still standing on one, is freed.
THEOREM StacksSafe == ASSUME MayOverrun = {} PROVE Spec => []RunsOnItsOwnStack
<1>1. KernelInv => RunsOnItsOwnStack
  BY DEF KernelInv, PlaceInv, Runs, Stands, RunsOnItsOwnStack
<1> QED BY <1>1, KernelInvHolds, PTL
-----------------------------------------------------------------------------

(***************************************************************************)
(* The kernel implements RvThreads.  Every step of the kernel is a step of *)
(* the thread table or leaves it alone; KernelInv supplies that a thread   *)
(* on a wait queue is alive and that a corpse has no part in anything.     *)
(***************************************************************************)
life == [t \in Threads |-> LifeOf(t)]

\* Steps after which every slot is as dead, as faulted and as reaped as before.
LEMMA SameLife ==
  ASSUME UNCHANGED <<fault, stack, current>>,
         \A t \in Threads : state'[t] = "DEAD" <=> state[t] = "DEAD"
  PROVE  UNCHANGED <<life, current>>
  BY DEF life, LifeOf

\* Waking the best waiter brings nobody back from the dead.
LEMMA PopBestLife ==
  ASSUME TypeOK, KernelInv, NEW w \in Waitqs, PopBest(w)
  PROVE  \A t \in Threads : state'[t] = "DEAD" <=> state[t] = "DEAD"
<1>1. ASSUME NEW u \in Threads PROVE state'[u] = "DEAD" <=> state[u] = "DEAD"
  <2>1. CASE UNCHANGED state
    BY <2>1
  <2>2. ASSUME NEW t \in Threads, blockedOn[t] = w, state' = [state EXCEPT ![t] = "READY"]
        PROVE  state'[u] = "DEAD" <=> state[u] = "DEAD"
    <3>1. Waits(t) /\ Runs(t)
      BY DEF KernelInv, PlaceInv
    <3>2. state[t] # "DEAD"
      BY <2>2, <3>1, NoQIsNoWaitq DEF Waits, Runs
    <3> QED BY <2>2, <3>2 DEF TypeOK, StateType
  <2> QED BY <2>1, <2>2, PopBestQueues DEF KernelInv, TypeOK
<1> QED BY <1>1

\* A turn of the scheduler frees what ended and runs only the living.
LEMMA TurnLife ==
  ASSUME TypeOK, KernelInv, NEW from \in Threads \cup {Host}, current = from,
         Turn(state, from), stack' = Reaped(state, from), UNCHANGED fault
  PROVE  Table!Switch
<1> DEFINE awake == Awakened(state)
<1>1. \A u \in Threads : awake[u] = "DEAD" <=> state[u] = "DEAD"
  BY DEF Awakened, Due
<1>2. \A u \in Threads : Left(awake, from)[u] = "DEAD" <=> state[u] = "DEAD"
  BY <1>1 DEF Left
<1> HIDE DEF awake
<1>3. /\ \A u \in Threads : state'[u] = "DEAD" <=> state[u] = "DEAD"
      /\ current' = Host \/ (current' \in Threads /\ state[current'] # "DEAD")
  <2>1. CASE current' = Host /\ state' = awake
    BY <1>1, <2>1
  <2>2. ASSUME NEW n \in Threads, n \in Runnable(awake),
               \/ state' = awake /\ current' = current /\ n = from
               \/ state' = [Left(awake, from) EXCEPT ![n] = "RUNNING"] /\ current' = n
        PROVE  /\ \A u \in Threads : state'[u] = "DEAD" <=> state[u] = "DEAD"
               /\ current' = Host \/ (current' \in Threads /\ state[current'] # "DEAD")
    <3>1. awake[n] # "DEAD"
      BY <2>2 DEF Runnable
    <3>2. current' = n /\ state[n] # "DEAD"
      BY <1>1, <2>2, <3>1
    <3>3. CASE state' = awake
      BY <1>1, <3>2, <3>3
    <3>4. CASE state' = [Left(awake, from) EXCEPT ![n] = "RUNNING"]
      <4>1. DOMAIN Left(awake, from) = Threads
        BY DEF Left
      <4>2. \A u \in Threads : state'[u] = IF u = n THEN "RUNNING" ELSE Left(awake, from)[u]
        BY <3>4, <4>1
      <4> QED BY <1>2, <3>2, <4>2
    <3> QED BY <2>2, <3>3, <3>4
  <2> QED BY <2>1, <2>2, Zenon DEF Turn, IsNext, awake
<1>4. \A u \in Threads : stack'[u] = IF state[u] = "DEAD" /\ u # from THEN "none" ELSE stack[u]
  BY DEF Reaped
<1>5. \A u \in Threads :
        LifeOf(u)' = IF LifeOf(u) = "ended" /\ u # current THEN "free" ELSE LifeOf(u)
  BY <1>3, <1>4 DEF LifeOf
<1>6. life' = [t \in Threads |-> IF life[t] = "ended" /\ t # current THEN "free" ELSE life[t]]
  BY <1>5 DEF life
<1>7. current' = Host \/ (current' \in Threads /\ life[current'] = "alive")
  BY <1>3 DEF life, LifeOf
<1> QED BY <1>6, <1>7 DEF Table!Switch, life

-----------------------------------------------------------------------------
\* A unit taken, or given: at most one waiter is woken.
LEMMA AcquireLife ==
  ASSUME TypeOK, KernelInv, NEW t \in Threads, NEW w \in Waitqs, Acquire(t, w)
  PROVE  \A u \in Threads : state'[u] = "DEAD" <=> state[u] = "DEAD"
<1>1. CASE Partner[w] = NoQ
  BY <1>1 DEF Acquire, WakePartner
<1>2. CASE Partner[w] # NoQ
  <2>1. Partner[w] \in Waitqs /\ PopBest(Partner[w])
    BY <1>2, KernelAssumption DEF Acquire, WakePartner
  <2> QED BY <2>1, PopBestLife
<1> QED BY <1>1, <1>2

LEMMA InsideLife ==
  ASSUME MayOverrun = {}, TypeOK, KernelInv, Inside
  PROVE  Table!Switch \/ UNCHANGED <<life, current>>
<1>1. CASE Drain
  <2>1. Head(pend) \in Waitqs /\ PopBest(Head(pend))
    BY <1>1 DEF Drain, TypeOK, CpuType
  <2>2. UNCHANGED <<fault, stack, current>>
    BY <1>1 DEF Drain, lifeVars
  <2> QED BY <2>1, <2>2, PopBestLife, SameLife
<1>2. CASE HostTurn
  <2>1. /\ current = Host /\ Turn(state, Host) /\ stack' = Reaped(state, Host)
        /\ UNCHANGED fault
    BY <1>2 DEF HostTurn
  <2> QED BY <2>1, TurnLife
<1>3. ASSUME NEW t \in Threads, HeldOff(t) PROVE UNCHANGED <<life, current>>
  BY <1>3, SameLife DEF HeldOff, lifeVars
<1>4. ASSUME NEW t \in Threads, Reschedule(t) PROVE Table!Switch
  <2>1. stack[t] # "overrun"
    BY DEF KernelInv, PlaceInv, Stands
  <2>2. current = t /\ Turn(state, t) /\ stack' = Reaped(state, t) /\ UNCHANGED fault
    BY <1>4, <2>1 DEF Reschedule
  <2> QED BY <2>2, TurnLife
<1>5. ASSUME NEW t \in Threads, BlockOn(t) PROVE UNCHANGED <<life, current>>
  <2>1. state[t] = "RUNNING"
    BY <1>5, CallerIsOffQueues DEF BlockOn, TypeOK
  <2>2. \A u \in Threads : state'[u] = "DEAD" <=> state[u] = "DEAD"
    BY <1>5, <2>1 DEF BlockOn, TypeOK, StateType
  <2> QED BY <1>5, <2>2, SameLife DEF BlockOn, lifeVars
<1>6. ASSUME NEW t \in Threads, Woke(t) PROVE UNCHANGED <<life, current>>
  <2>1. want[t] \in Waitqs
    BY <1>6 DEF Woke, TypeOK, CallType
  <2>2. \A u \in Threads : state'[u] = "DEAD" <=> state[u] = "DEAD"
    BY <1>6, <2>1, AcquireLife DEF Woke
  <2> QED BY <1>6, <2>2, SameLife DEF Woke, lifeVars
<1> QED BY <1>1, <1>2, <1>3, <1>4, <1>5, <1>6 DEF Inside

LEMMA LockingLife ==
  ASSUME TypeOK, KernelInv, NEW t \in Threads, Locking(t)
  PROVE  UNCHANGED <<life, current>>
<1>1. ASSUME NEW w \in Waitqs, NEW d \in Timeouts, Take(t, w, d)
      PROVE  UNCHANGED <<life, current>>
  <2>1. \A u \in Threads : state'[u] = "DEAD" <=> state[u] = "DEAD"
    BY <1>1, AcquireLife DEF Take
  <2> QED BY <1>1, <2>1, SameLife DEF Take, lifeVars
<1>2. ASSUME NEW w \in Waitqs, SemGive(t, w) PROVE UNCHANGED <<life, current>>
  BY <1>2, PopBestLife, SameLife DEF SemGive, Give, lifeVars
<1>3. ASSUME NEW m \in Mutexes, Relock(t, m) PROVE UNCHANGED <<life, current>>
  BY <1>3, SameLife DEF Relock, lifeVars
<1>4. ASSUME NEW m \in Mutexes, MutexUnlock(t, m) PROVE UNCHANGED <<life, current>>
  <2>1. m \in Waitqs
    BY KernelAssumption
  <2>2. \A u \in Threads : state'[u] = "DEAD" <=> state[u] = "DEAD"
    BY <1>4, <2>1, PopBestLife DEF MutexUnlock, Give
  <2> QED BY <1>4, <2>2, SameLife DEF MutexUnlock, lifeVars
<1>5. CASE SchedLock(t) \/ SchedUnlock(t)
  BY <1>5, SameLife DEF SchedLock, SchedUnlock, lifeVars
<1> QED BY <1>1, <1>2, <1>3, <1>4, <1>5 DEF Locking

\* A step that changes what is known of one slot changes its life alone.
LEMMA OneLife ==
  ASSUME NEW u \in Threads, UNCHANGED current, NEW l,
         \A t \in Threads : LifeOf(t)' = IF t = u THEN l ELSE LifeOf(t)
  PROVE  life' = [life EXCEPT ![u] = l] /\ life[u] = LifeOf(u)
  BY DEF life

LEMMA EndingLife ==
  ASSUME MayOverrun = {}, TypeOK, KernelInv, NEW t \in Threads, Ending(t)
  PROVE  (\E u \in Threads : Table!End(u) \/ Table!Stop(u)) \/ UNCHANGED <<life, current>>
<1> USE DEF TypeOK
<1>1. CASE Exit(t)
  <2>1. current = t /\ pc[t] = "run"
    BY <1>1 DEF Exit, Calling
  <2>2. state[t] = "RUNNING" /\ fault[t] = "NONE" /\ stack[t] = "ok"
    BY <2>1, CallerIsOffQueues DEF KernelInv, PlaceInv, Stands
  <2>3. UNCHANGED <<fault, stack, current>> /\ state' = [state EXCEPT ![t] = "DEAD"]
    BY <1>1 DEF Exit, lifeVars
  <2>4. \A u \in Threads : LifeOf(u)' = IF u = t THEN "ended" ELSE LifeOf(u)
    BY <2>2, <2>3 DEF LifeOf, StateType
  <2>5. LifeOf(t) = "alive"
    BY <2>2 DEF LifeOf
  <2> QED BY <2>3, <2>4, <2>5, OneLife DEF Table!End, life
<1>2. ASSUME NEW u \in Killable, Kill(t, u)
      PROVE  (\E v \in Threads : Table!End(v)) \/ UNCHANGED <<life, current>>
  <2>1. u \in Threads
    BY KernelAssumption
  <2>2. UNCHANGED <<fault, stack, current>> /\ state' = [state EXCEPT ![u] = "DEAD"]
    BY <1>2 DEF Kill, End
  <2>3. CASE state[u] = "DEAD"
    <3>1. \A v \in Threads : state'[v] = "DEAD" <=> state[v] = "DEAD"
      BY <2>1, <2>2, <2>3 DEF StateType
    <3> QED BY <2>2, <3>1, SameLife
  <2>4. CASE state[u] # "DEAD"
    <3>1. fault[u] = "NONE" /\ stack[u] = "ok"
      BY <2>1, <2>4 DEF KernelInv, PlaceInv, Stands
    <3>2. \A v \in Threads : LifeOf(v)' = IF v = u THEN "ended" ELSE LifeOf(v)
      BY <2>1, <2>2, <3>1 DEF LifeOf, StateType
    <3>3. LifeOf(u) = "alive"
      BY <2>4 DEF LifeOf
    <3> QED BY <2>1, <2>2, <3>2, <3>3, OneLife DEF Table!End, life
  <2> QED BY <2>3, <2>4
<1>3. ASSUME NEW u \in Stoppable, Stop(t, u)
      PROVE  (\E v \in Threads : Table!Stop(v)) \/ UNCHANGED <<life, current>>
  <2>1. u \in Threads /\ state[u] # "DEAD" /\ current = t /\ u # t
    BY <1>3, KernelAssumption DEF Stop, Calling
  <2>2. CASE End(u) /\ fault' = [fault EXCEPT ![u] = "KILLED"]
    <3>1. UNCHANGED <<stack, current>> /\ state' = [state EXCEPT ![u] = "DEAD"]
      BY <2>2 DEF End
    <3>2. \A v \in Threads : LifeOf(v)' = IF v = u THEN "corpse" ELSE LifeOf(v)
      BY <2>1, <2>2, <3>1 DEF LifeOf, StateType, LifeType
    <3>3. LifeOf(u) = "alive"
      BY <2>1 DEF LifeOf
    <3> QED BY <2>1, <3>1, <3>2, <3>3, OneLife DEF Table!Stop, life
  <2>3. CASE UNCHANGED <<state, fault, stack, current>>
    BY <2>3, SameLife
  <2> QED BY <1>3, <2>2, <2>3 DEF Stop
<1>4. ~ Overrun(t)
  BY DEF Overrun
<1> QED BY <1>1, <1>2, <1>3, <1>4 DEF Ending

LEMMA CallLife ==
  ASSUME MayOverrun = {}, TypeOK, KernelInv, NEW t \in Threads, Call(t)
  PROVE  (\E u \in Threads : Table!End(u) \/ Table!Stop(u)) \/ UNCHANGED <<life, current>>
<1>1. CASE Locking(t)
  BY <1>1, LockingLife
<1>2. CASE Ending(t)
  BY <1>2, EndingLife
<1>3. CASE Prioritising(t)
  BY <1>3, SameLife DEF Prioritising, PrioritySet, SetBoost, lifeVars
<1>4. CASE Yield(t)
  BY <1>4, SameLife DEF Yield, lifeVars
<1>5. ASSUME NEW d \in Sleeps, Sleep(t, d) PROVE UNCHANGED <<life, current>>
  <2>1. state[t] = "RUNNING"
    BY <1>5, CallerIsOffQueues DEF Sleep, Calling, TypeOK
  <2>2. \A u \in Threads : state'[u] = "DEAD" <=> state[u] = "DEAD"
    BY <1>5, <2>1 DEF Sleep, TypeOK, StateType
  <2> QED BY <1>5, <2>2, SameLife DEF Sleep, lifeVars
<1> QED BY <1>1, <1>2, <1>3, <1>4, <1>5 DEF Call

LEMMA SlotLife ==
  ASSUME TypeOK, KernelInv, NEW u \in Threads, Release(u) \/ \E p \in NewPrios : Create(u, p)
  PROVE  Table!Release(u) \/ Table!Create(u)
<1> USE DEF TypeOK
<1>1. CASE Release(u)
  <2>1. fault[u] # "NONE" /\ state[u] = "DEAD"
    BY <1>1 DEF Release, KernelInv, PlaceInv, Stands
  <2>2. UNCHANGED <<state, stack, current>> /\ fault' = [fault EXCEPT ![u] = "NONE"]
    BY <1>1 DEF Release
  <2>3. LifeOf(u) = "corpse"
    BY <2>1 DEF LifeOf
  <2>4. PICK l \in {"ended", "free"} :
          \A v \in Threads : LifeOf(v)' = IF v = u THEN l ELSE LifeOf(v)
    BY <2>1, <2>2 DEF LifeOf, LifeType
  <2> QED BY <2>2, <2>3, <2>4, OneLife DEF Table!Release, life
<1>2. ASSUME NEW p \in NewPrios, Create(u, p) PROVE Table!Create(u)
  <2>1. state[u] = "DEAD" /\ fault[u] = "NONE" /\ stack[u] = "none"
    BY <1>2 DEF Create, Free
  <2>2. /\ UNCHANGED <<fault, current>> /\ state' = [state EXCEPT ![u] = "READY"]
        /\ stack' = [stack EXCEPT ![u] = "ok"]
    BY <1>2 DEF Create
  <2>3. \A v \in Threads : LifeOf(v)' = IF v = u THEN "alive" ELSE LifeOf(v)
    BY <2>1, <2>2 DEF LifeOf, StateType, LifeType
  <2>4. LifeOf(u) = "free"
    BY <2>1 DEF LifeOf
  <2> QED BY <2>2, <2>3, <2>4, OneLife DEF Table!Create, life
<1> QED BY <1>1, <1>2

LEMMA StepLife ==
  ASSUME MayOverrun = {}, TypeOK, KernelInv, [Next]_vars
  PROVE  [Table!Next]_<<life, current>>
<1>1. CASE Inside
  BY <1>1, InsideLife DEF Table!Next
<1>2. CASE Interrupt
  BY <1>2, SameLife DEF Interrupt, Tick, GiveFromIsr, lifeVars
<1>3. ASSUME NEW t \in Threads, Call(t) PROVE [Table!Next]_<<life, current>>
  BY <1>3, CallLife DEF Table!Next
<1>4. ASSUME NEW t \in Threads, Release(t) \/ \E p \in NewPrios : Create(t, p)
      PROVE  [Table!Next]_<<life, current>>
  BY <1>4, SlotLife DEF Table!Next
<1>5. CASE UNCHANGED vars
  BY <1>5, SameLife DEF vars, lifeVars
<1> QED BY <1>1, <1>2, <1>3, <1>4, <1>5 DEF Next

\* Whatever the callers, the clock and the interrupts do, the thread table the
\* layers above see is one that RvThreads allows.
THEOREM ThreadTableImplemented == ASSUME MayOverrun = {} PROVE Spec => ImplementsThreadTable
<1>1. Init => Table!Init
  BY DEF Init, Table!Init, LifeOf
<1>2. TypeOK /\ KernelInv /\ [Next]_vars => [Table!Next]_<<life, current>>
  BY StepLife
<1> QED
  BY <1>1, <1>2, KernelInvHolds, TypeCorrect, PTL
  DEF Spec, ImplementsThreadTable, Table!Spec, life

(***************************************************************************)
(* A mutex never outlives its owner, where nobody ends, or is killed,      *)
(* holding one.  The count of a mutex says whether it is free, and holds   *)
(* is the number of mutexes a thread owns: what makes the check of holds   *)
(* in rv9k_thread_stop, and in a careful caller's exit and kill, enough.   *)
(***************************************************************************)
Owned(t) == {k \in Mutexes : owner[k] = t}

OwnerInv ==
  /\ \A k \in Mutexes : count[k] = IF owner[k] = Host THEN 1 ELSE 0
  /\ \A t \in Threads : IsFiniteSet(Owned(t)) /\ holds[t] = Cardinality(Owned(t))
  /\ \A t \in Threads : state[t] = "DEAD" => holds[t] = 0

\* Nobody ends in a step the thread table sees as a switch or not at all.
LEMMA NoneEnds ==
  ASSUME Table!Switch \/ UNCHANGED <<life, current>>
  PROVE  \A t \in Threads : state'[t] = "DEAD" => state[t] = "DEAD"
<1> SUFFICES ASSUME NEW t \in Threads, state[t] # "DEAD" PROVE state'[t] # "DEAD"
  OBVIOUS
<1>1. life[t] = "alive" /\ life'[t] = LifeOf(t)'
  BY DEF life, LifeOf
<1>2. life'[t] = "alive"
  BY <1>1 DEF Table!Switch, life
<1> QED BY <1>1, <1>2 DEF LifeOf

\* Steps that leave the owners alone, and end only who owns nothing.
LEMMA SameOwners ==
  ASSUME OwnerInv, UNCHANGED <<owner, holds>>,
         \A k \in Mutexes : count'[k] = count[k],
         \A t \in Threads : state'[t] = "DEAD" => state[t] = "DEAD" \/ holds[t] = 0
  PROVE  OwnerInv'
  BY DEF OwnerInv, Owned

\* A mutex is neither side of a message queue.
LEMMA MutexIsNoPartner ==
  ASSUME NEW w \in Waitqs, Partner[w] # NoQ
  PROVE  Partner[w] \in Waitqs \ Mutexes /\ w \notin Mutexes
  BY KernelAssumption

LEMMA AcquireOwners ==
  ASSUME TypeOK, KernelInv, OwnerInv, NEW t \in Threads, NEW w \in Waitqs, Acquire(t, w),
         state[t] # "DEAD"
  PROVE  OwnerInv'
<1> USE DEF TypeOK, LockType
<1>1. \A u \in Threads : state'[u] = "DEAD" <=> state[u] = "DEAD"
  BY AcquireLife
<1>2. \A k \in Mutexes : count'[k] = IF k = w THEN count[k] - 1 ELSE count[k]
  <2>1. \A k \in Mutexes : k \in Waitqs /\ k # Partner[w]
    BY MutexIsNoPartner, KernelAssumption
  <2> QED BY <2>1 DEF Acquire, Moved
<1>3. CASE w \notin Mutexes
  <2>1. UNCHANGED <<owner, holds>>
    BY <1>3 DEF Acquire, lockVars
  <2> QED BY <1>1, <1>2, <1>3, <2>1, SameOwners
<1>4. CASE w \in Mutexes
  <2>1. owner[w] = Host /\ count[w] = 1
    BY <1>4 DEF Acquire, OwnerInv
  <2>2. owner' = [owner EXCEPT ![w] = t] /\ holds' = [holds EXCEPT ![t] = @ + 1]
    BY <1>4 DEF Acquire, Own
  <2>3. Owned(t)' = Owned(t) \cup {w} /\ w \notin Owned(t)
    BY <1>4, <2>1, <2>2, HostIsNoThread DEF Owned
  <2>4. \A u \in Threads : u # t => Owned(u)' = Owned(u)
    BY <1>4, <2>1, <2>2, HostIsNoThread DEF Owned
  <2>5. IsFiniteSet(Owned(t)') /\ Cardinality(Owned(t)') = Cardinality(Owned(t)) + 1
    BY <2>3, FS_AddElement DEF OwnerInv
  <2>6. \A u \in Threads : IsFiniteSet(Owned(u)') /\ holds'[u] = Cardinality(Owned(u)')
    BY <2>2, <2>4, <2>5 DEF OwnerInv
  <2>7. \A k \in Mutexes : count'[k] = IF owner'[k] = Host THEN 1 ELSE 0
    BY <1>2, <1>4, <2>1, <2>2, HostIsNoThread DEF OwnerInv
  <2>8. \A u \in Threads : state'[u] = "DEAD" => holds'[u] = 0
    BY <1>1, <2>2 DEF OwnerInv
  <2> QED BY <2>6, <2>7, <2>8 DEF OwnerInv
<1> QED BY <1>3, <1>4

LEMMA UnlockOwners ==
  ASSUME TypeOK, KernelInv, OwnerInv, NEW t \in Threads, NEW m \in Mutexes, MutexUnlock(t, m)
  PROVE  OwnerInv'
<1> USE DEF TypeOK, LockType
<1>0. m \in Waitqs /\ Limit[m] = 1 /\ owner[m] = t /\ t # Host
  BY KernelAssumption, HostIsNoThread DEF MutexUnlock
<1>1. CASE depth[m] > 1
  BY <1>1, SameOwners DEF MutexUnlock
<1>2. CASE ~ (depth[m] > 1)
  <2>1. /\ owner' = [owner EXCEPT ![m] = Host]
        /\ holds' = [holds EXCEPT ![t] = Greater(@ - 1, 0)] /\ Give(m)
    BY <1>2 DEF MutexUnlock
  <2>2. count[m] = 0 /\ count' = [count EXCEPT ![m] = Lesser(@ + 1, Limit[m])]
    BY <1>0, <2>1 DEF Give, OwnerInv
  <2>3. \A k \in Mutexes : count'[k] = IF owner'[k] = Host THEN 1 ELSE 0
    <3>1. \A k \in Mutexes : k \in Waitqs
      BY KernelAssumption
    <3>2. count'[m] = 1 /\ owner'[m] = Host
      BY <1>0, <2>1, <2>2 DEF Lesser
    <3>3. \A k \in Mutexes : k # m => count'[k] = count[k] /\ owner'[k] = owner[k]
      BY <2>1, <2>2, <3>1
    <3> QED BY <3>2, <3>3 DEF OwnerInv
  <2>4. Owned(t)' = Owned(t) \ {m} /\ m \in Owned(t)
    BY <1>0, <2>1 DEF Owned
  <2>5. \A u \in Threads : u # t => Owned(u)' = Owned(u)
    BY <1>0, <2>1, HostIsNoThread DEF Owned
  <2>6. IsFiniteSet(Owned(t)') /\ Cardinality(Owned(t)') = Cardinality(Owned(t)) - 1
    BY <2>4, FS_RemoveElement DEF OwnerInv
  <2>7. holds[t] - 1 \in Nat /\ holds'[t] = holds[t] - 1
    <3>1. Cardinality(Owned(t)) # 0
      BY <2>4, FS_EmptySet DEF OwnerInv
    <3>2. holds[t] \in Nat /\ holds[t] # 0
      BY <3>1 DEF OwnerInv
    <3> QED BY <2>1, <3>2 DEF Greater
  <2>8. \A u \in Threads : IsFiniteSet(Owned(u)') /\ holds'[u] = Cardinality(Owned(u)')
    BY <2>1, <2>5, <2>6, <2>7 DEF OwnerInv
  <2>9. \A u \in Threads : state'[u] = "DEAD" => holds'[u] = 0
    <3>1. \A u \in Threads : state'[u] = "DEAD" => state[u] = "DEAD"
      BY <1>0, <2>1, PopBestLife DEF Give
    <3>2. state[t] # "DEAD"
      BY <2>7 DEF OwnerInv
    <3> QED BY <2>1, <3>1, <3>2 DEF OwnerInv
  <2> QED BY <2>3, <2>8, <2>9 DEF OwnerInv
<1> QED BY <1>1, <1>2

LEMMA InsideOwners ==
  ASSUME MayOverrun = {}, TypeOK, KernelInv, OwnerInv, Inside
  PROVE  OwnerInv'
<1> USE DEF TypeOK
<1>1. \A u \in Threads : state'[u] = "DEAD" => state[u] = "DEAD"
  BY InsideLife, NoneEnds
<1>2. CASE UNCHANGED <<owner, holds, count>>
  BY <1>1, <1>2, SameOwners
<1>3. ASSUME NEW t \in Threads, Woke(t) PROVE OwnerInv'
  <2>1. want[t] \in Waitqs /\ state[t] = "RUNNING"
    BY <1>3 DEF Woke, CallType, KernelInv, PlaceInv, Runs
  <2>2. CASE Acquire(t, want[t])
    BY <2>1, <2>2, AcquireOwners
  <2>3. CASE UNCHANGED <<owner, holds, count>>
    BY <1>2, <2>3
  <2> QED BY <1>3, <2>2, <2>3 DEF Woke, lockVars
<1> QED BY <1>2, <1>3 DEF Inside, Drain, HostTurn, HeldOff, Reschedule, BlockOn, lockVars

LEMMA LockingOwners ==
  ASSUME TypeOK, KernelInv, OwnerInv, NEW t \in Threads, Locking(t)
  PROVE  OwnerInv'
<1> USE DEF TypeOK
<1>1. \A u \in Threads : state'[u] = "DEAD" => state[u] = "DEAD"
  BY LockingLife, NoneEnds
<1>2. CASE UNCHANGED <<owner, holds, count>>
  BY <1>1, <1>2, SameOwners
<1>3. ASSUME NEW w \in Waitqs, NEW d \in Timeouts, Take(t, w, d) PROVE OwnerInv'
  <2>1. state[t] # "DEAD"
    BY <1>3, CallerIsOffQueues DEF Take, Calling
  <2>2. CASE Acquire(t, w)
    BY <2>1, <2>2, AcquireOwners
  <2> QED BY <1>2, <1>3, <2>2 DEF Take, lockVars
<1>4. ASSUME NEW w \in Waitqs, SemGive(t, w) PROVE OwnerInv'
  <2>1. \A k \in Mutexes : count'[k] = count[k]
    BY <1>4, KernelAssumption DEF SemGive, Give, LockType
  <2> QED BY <1>1, <1>4, <2>1, SameOwners DEF SemGive, lockVars
<1>5. ASSUME NEW m \in Mutexes, Relock(t, m) PROVE OwnerInv'
  BY <1>2, <1>5 DEF Relock
<1>6. ASSUME NEW m \in Mutexes, MutexUnlock(t, m) PROVE OwnerInv'
  BY <1>6, UnlockOwners
<1>7. CASE SchedLock(t) \/ SchedUnlock(t)
  BY <1>2, <1>7 DEF SchedLock, SchedUnlock, lockVars
<1> QED BY <1>3, <1>4, <1>5, <1>6, <1>7 DEF Locking

LEMMA CallOwners ==
  ASSUME MayOverrun = {}, Careless = {}, TypeOK, KernelInv, OwnerInv, NEW t \in Threads, Call(t)
  PROVE  OwnerInv'
<1>1. CASE Locking(t)
  BY <1>1, LockingOwners
<1>2. CASE ~ Locking(t)
  <2>1. UNCHANGED <<owner, holds, count>>
    BY <1>2
    DEF Call, Ending, Prioritising, Exit, Overrun, Kill, Stop, End, PrioritySet, SetBoost,
        Yield, Sleep, lockVars
  <2>2. ASSUME NEW u \in Threads, state'[u] = "DEAD", state[u] # "DEAD" PROVE holds[u] = 0
    <3>1. CASE Ending(t)
      <4>1. CASE Exit(t)
        BY <2>2, <4>1 DEF Exit, MayEnd, TypeOK, StateType
      <4>2. ASSUME NEW v \in Killable, Kill(t, v) PROVE holds[u] = 0
        BY <2>2, <4>2, KernelAssumption DEF Kill, End, MayEnd, TypeOK, StateType
      <4>3. ASSUME NEW v \in Stoppable, Stop(t, v) PROVE holds[u] = 0
        BY <2>2, <4>3, KernelAssumption DEF Stop, End, TypeOK, StateType
      <4>4. ~ Overrun(t)
        BY DEF Overrun
      <4> QED BY <3>1, <4>1, <4>2, <4>3, <4>4 DEF Ending
    <3>2. CASE Prioritising(t) \/ Yield(t)
      BY <2>2, <3>2 DEF Prioritising, PrioritySet, SetBoost, Yield
    <3>3. ASSUME NEW d \in Sleeps, Sleep(t, d) PROVE FALSE
      BY <2>2, <3>3 DEF Sleep, TypeOK, StateType
    <3> QED BY <1>2, <3>1, <3>2, <3>3 DEF Call
  <2> QED BY <2>1, <2>2, SameOwners
<1> QED BY <1>1, <1>2

LEMMA OwnerInductive ==
  ASSUME MayOverrun = {}, Careless = {}, TypeOK, KernelInv, OwnerInv, [Next]_vars
  PROVE  OwnerInv'
<1>1. CASE Inside
  BY <1>1, InsideOwners
<1>2. CASE Interrupt
  <2>1. UNCHANGED <<owner, holds, state>>
    BY <1>2 DEF Interrupt, Tick, GiveFromIsr, lockVars
  <2>2. \A k \in Mutexes : count'[k] = count[k]
    <3>1. CASE Tick
      BY <3>1 DEF Tick
    <3>2. ASSUME NEW w \in IsrQs, GiveFromIsr(w) PROVE \A k \in Mutexes : count'[k] = count[k]
      <4>1. w \in Waitqs \ Mutexes
        BY KernelAssumption
      <4>2. CASE count' = [count EXCEPT ![w] = Lesser(@ + 1, Limit[w])]
        BY <4>1, <4>2 DEF TypeOK, LockType
      <4>3. CASE Partner[w] # NoQ /\ count' = Moved(Partner[w])
        <5>1. Partner[w] \in Waitqs \ Mutexes /\ Partner[Partner[w]] = w
          BY <4>1, <4>3, MutexIsNoPartner, KernelAssumption
        <5> QED BY <4>1, <4>3, <5>1, KernelAssumption DEF Moved
      <4> QED BY <3>2, <4>2, <4>3 DEF GiveFromIsr
    <3> QED BY <1>2, <3>1, <3>2 DEF Interrupt
  <2> QED BY <2>1, <2>2, SameOwners
<1>3. ASSUME NEW t \in Threads, Call(t) PROVE OwnerInv'
  BY <1>3, CallOwners
<1>4. ASSUME NEW t \in Threads, Release(t) PROVE OwnerInv'
  BY <1>4, SameOwners DEF Release, lockVars
<1>5. ASSUME NEW t \in Threads, NEW p \in NewPrios, Create(t, p) PROVE OwnerInv'
  <2>1. holds[t] = 0 /\ holds' = [holds EXCEPT ![t] = 0]
    BY <1>5 DEF Create, Free, OwnerInv
  <2>2. UNCHANGED <<owner, count, holds>>
    BY <1>5, <2>1 DEF Create, TypeOK, LockType
  <2>3. \A u \in Threads : state'[u] = "DEAD" => state[u] = "DEAD"
    BY <1>5 DEF Create, TypeOK, StateType
  <2> QED BY <2>2, <2>3, SameOwners
<1>6. CASE UNCHANGED vars
  BY <1>6, SameOwners DEF vars, lockVars
<1> QED BY <1>1, <1>2, <1>3, <1>4, <1>5, <1>6 DEF Next

\* A mutex is free exactly when its count says so, and its owner is alive and
\* counted as holding it: exits, kills, stops and slots used again never leave a
\* lock with the dead, for callers that do not end holding one.
THEOREM OwnersLive ==
  ASSUME MayOverrun = {}, Careless = {} PROVE Spec => []MutexHasLivingOwner
<1>1. Init => OwnerInv
  <2> SUFFICES ASSUME Init PROVE OwnerInv
    OBVIOUS
  <2>1. \A t \in Threads : Owned(t) = {} /\ holds[t] = 0
    BY HostIsNoThread DEF Init, Owned
  <2>2. \A k \in Mutexes : owner[k] = Host /\ count[k] = 1
    BY KernelAssumption DEF Init
  <2> QED BY <2>1, <2>2, FS_EmptySet DEF OwnerInv
<1>2. TypeOK /\ KernelInv /\ OwnerInv /\ [Next]_vars => OwnerInv'
  BY OwnerInductive
<1>3. TypeOK /\ OwnerInv => MutexHasLivingOwner
  <2> SUFFICES ASSUME TypeOK, OwnerInv, NEW k \in Mutexes
               PROVE  /\ owner[k] = Host <=> count[k] = 1
                      /\ owner[k] # Host => state[owner[k]] # "DEAD" /\ holds[owner[k]] > 0
    BY DEF MutexHasLivingOwner
  <2>1. owner[k] = Host <=> count[k] = 1
    BY DEF OwnerInv
  <2>2. ASSUME owner[k] # Host PROVE state[owner[k]] # "DEAD" /\ holds[owner[k]] > 0
    <3>1. owner[k] \in Threads /\ holds[owner[k]] \in Nat
      BY <2>2 DEF TypeOK, LockType
    <3>2. k \in Owned(owner[k])
      BY DEF Owned
    <3>3. Cardinality(Owned(owner[k])) # 0
      BY <3>1, <3>2, FS_EmptySet DEF OwnerInv
    <3> QED BY <3>1, <3>3 DEF OwnerInv
  <2> QED BY <2>1, <2>2
<1> QED BY <1>1, <1>2, <1>3, KernelInvHolds, TypeCorrect, PTL DEF Spec

(***************************************************************************)
(* No wakeup is lost, where no interrupt gives and nobody is killed or     *)
(* stopped on its way from a wake to the count.  Everything waited for was *)
(* found at zero with nothing able to raise it before the thread is on its *)
(* list, and every unit given since has its own thread woken for it.       *)
(***************************************************************************)
\* The units of w are no more than the threads woken to take them.
Counted(w) == (\E t \in Threads : blockedOn[t] = w) => count[w] <= Cardinality(Woken(w))

Asks(t) ==
  /\ current = t /\ pc[t] = "block" => count[want[t]] = 0
  /\ blockedOn[t] # NoQ => want[t] = blockedOn[t]
  /\ state[t] = "DEAD" => want[t] = NoQ

CountInv ==
  /\ pend = <<>>
  /\ \A t \in Threads : Asks(t)
  /\ \A w \in Waitqs : Counted(w)

LEMMA WokenIsFinite ==
  ASSUME NEW w
  PROVE  /\ IsFiniteSet(Woken(w)) /\ Cardinality(Woken(w)) \in Nat
         /\ IsFiniteSet(Woken(w)') /\ Cardinality(Woken(w)') \in Nat
<1>1. IsFiniteSet(Threads)
  BY FS_Interval, KernelAssumption DEF Threads
<1>2. Woken(w) \subseteq Threads /\ Woken(w)' \subseteq Threads
  BY DEF Woken
<1> QED BY <1>1, <1>2, FS_Subset, FS_CardinalityType

\* No more units than before, and whoever was woken still is.
LEMMA CountedStill ==
  ASSUME TypeOK, TypeOK', NEW w \in Waitqs, Counted(w), count'[w] <= count[w],
         \A t \in Threads : blockedOn'[t] = w => blockedOn[t] = w,
         Woken(w) \subseteq Woken(w)'
  PROVE  Counted(w)'
<1>1. Cardinality(Woken(w)) <= Cardinality(Woken(w)')
  BY WokenIsFinite, FS_Subset
<1>2. count[w] \in Nat /\ count'[w] \in Nat
  BY DEF TypeOK, LockType
<1> QED BY <1>1, <1>2, WokenIsFinite DEF Counted

\* One unit is taken by one of those it woke.
LEMMA CountedTaken ==
  ASSUME TypeOK, TypeOK', NEW w \in Waitqs, NEW c, Counted(w), count'[w] = count[w] - 1,
         \A t \in Threads : blockedOn'[t] = w => blockedOn[t] = w,
         Woken(w) \ {c} \subseteq Woken(w)'
  PROVE  Counted(w)'
<1> DEFINE n == Cardinality(Woken(w))
           r == Cardinality(Woken(w) \ {c})
<1>1. r >= n - 1
  <2>1. n \in Nat /\ r = IF c \in Woken(w) THEN n - 1 ELSE n
    BY WokenIsFinite, FS_RemoveElement
  <2> HIDE DEF n, r
  <2> QED BY <2>1
<1>2. r <= Cardinality(Woken(w)') /\ r \in Nat
  BY WokenIsFinite, FS_Subset, FS_CardinalityType, FS_RemoveElement
<1>3. count[w] \in Nat /\ count'[w] \in Nat
  BY DEF TypeOK, LockType
<1>4. (\E t \in Threads : blockedOn'[t] = w) => count[w] <= n
  BY DEF Counted
<1>5. n \in Nat /\ Cardinality(Woken(w)') \in Nat
  BY WokenIsFinite
<1>6. (\E t \in Threads : blockedOn'[t] = w) => count'[w] <= Cardinality(Woken(w)')
  <2> HIDE DEF n, r
  <2> QED BY <1>1, <1>2, <1>3, <1>4, <1>5
<1> QED BY <1>6 DEF Counted

\* One unit more, and one thread more woken.
LEMMA CountedGiven ==
  ASSUME TypeOK, TypeOK', NEW w \in Waitqs, NEW c, Counted(w), count'[w] <= count[w] + 1,
         blockedOn[c] = w, c \in Threads, c \notin Woken(w), Woken(w) \cup {c} \subseteq Woken(w)'
  PROVE  Counted(w)'
<1>1. /\ IsFiniteSet(Woken(w) \cup {c})
      /\ Cardinality(Woken(w) \cup {c}) = Cardinality(Woken(w)) + 1
  BY WokenIsFinite, FS_AddElement
<1>2. Cardinality(Woken(w) \cup {c}) <= Cardinality(Woken(w)')
  BY <1>1, WokenIsFinite, FS_Subset
<1>3. count[w] \in Nat /\ count'[w] \in Nat
  BY DEF TypeOK, LockType
<1> QED BY <1>1, <1>2, <1>3, WokenIsFinite DEF Counted

\* Who is on a list is inside reschedule(), or back from it and not looking yet.
LEMMA WaitersAreInside ==
  ASSUME TypeOK, KernelInv, NEW t \in Threads, blockedOn[t] # NoQ
  PROVE  pc[t] \in {"resched", "woke"}
<1>1. Runs(t) /\ Waits(t) /\ pc[t] \in Points
  BY DEF KernelInv, PlaceInv, TypeOK, CallType
<1>2. want[t] # NoQ /\ pc[t] # "run"
  BY <1>1 DEF Waits, TypeOK, CallType
<1>3. pc[t] # "block"
  BY <1>1, CallerIsOffQueues DEF Runs, TypeOK
<1> QED BY <1>1, <1>2, <1>3 DEF Points

\* Waking the best waiter of w wakes one if there is one.
LEMMA PopBestWakes ==
  ASSUME TypeOK, KernelInv, NEW w \in Waitqs, PopBest(w)
  PROVE  \/ UNCHANGED <<blockedOn, state>> /\ \A t \in Threads : blockedOn[t] # w
         \/ \E t \in Threads :
              /\ blockedOn[t] = w /\ blockedOn' = [blockedOn EXCEPT ![t] = NoQ]
              /\ state' = [state EXCEPT ![t] = "READY"]
<1>1. CASE waitq[w] = <<>> /\ UNCHANGED <<listVars, state>>
  <2>1. Members(waitq[w]) = {}
    BY <1>1 DEF Members
  <2> QED BY <1>1, <2>1 DEF KernelInv, QueueConsistent, listVars
<1>2. ASSUME NEW i \in DOMAIN waitq[w],
             blockedOn' = [blockedOn EXCEPT ![waitq[w][i]] = NoQ],
             state' = [state EXCEPT ![waitq[w][i]] = "READY"]
      PROVE  \E t \in Threads :
              /\ blockedOn[t] = w /\ blockedOn' = [blockedOn EXCEPT ![t] = NoQ]
              /\ state' = [state EXCEPT ![t] = "READY"]
  <2>1. waitq[w][i] \in Threads /\ waitq[w][i] \in Members(waitq[w])
    BY <1>2 DEF Members, TypeOK, ListType
  <2> QED BY <1>2, <2>1 DEF KernelInv, QueueConsistent
<1> QED BY <1>1, <1>2 DEF PopBest

\* A give by the running thread c: to w, one unit more at the most.
LEMMA PopBestCounted ==
  ASSUME TypeOK, TypeOK', KernelInv, CountInv, NEW w \in Waitqs, PopBest(w),
         NEW c \in Threads, blockedOn[c] = NoQ, want[c] # w,
         \A u \in Threads : u # c => pc'[u] = pc[u] /\ want'[u] = want[u],
         count'[w] <= count[w] + 1
  PROVE  Counted(w)'
<1>1. CASE UNCHANGED <<blockedOn, state>> /\ \A t \in Threads : blockedOn[t] # w
  BY <1>1 DEF Counted
<1>2. ASSUME NEW t \in Threads, blockedOn[t] = w, blockedOn' = [blockedOn EXCEPT ![t] = NoQ]
      PROVE  Counted(w)'
  <2>1. t # c /\ want[t] = w /\ pc[t] \in {"resched", "woke"} /\ w # NoQ
    BY <1>2, WaitersAreInside, NoQIsNoWaitq DEF CountInv, Asks
  <2>2. \A u \in Threads : blockedOn'[u] = IF u = t THEN NoQ ELSE blockedOn[u]
    BY <1>2 DEF TypeOK, ListType
  <2>3. t \notin Woken(w) /\ Woken(w) \cup {t} \subseteq Woken(w)'
    BY <1>2, <2>1, <2>2 DEF Woken
  <2> QED BY <1>2, <2>3, CountedGiven DEF CountInv
<1> QED BY <1>1, <1>2, PopBestWakes

\* For every list but the one popped, nothing changes.
LEMMA PopBestOthers ==
  ASSUME TypeOK, TypeOK', KernelInv, NEW w \in Waitqs, PopBest(w)
  PROVE  \A u \in Threads, v \in Waitqs :
           /\ blockedOn'[u] = v => blockedOn[u] = v
           /\ v # w /\ blockedOn[u] \in {v, NoQ} => blockedOn'[u] = blockedOn[u]
           /\ state'[u] = "DEAD" => state[u] = "DEAD"
<1>1. \A u \in Threads : state'[u] = "DEAD" => state[u] = "DEAD"
  BY PopBestLife
<1> QED BY <1>1, PopBestWakes, NoQIsNoWaitq DEF TypeOK, ListType

-----------------------------------------------------------------------------
\* Steps that neither give nor take, nor put anyone on a list.
LEMMA SameCounts ==
  ASSUME TypeOK, TypeOK', CountInv, pend' = <<>>, UNCHANGED count,
         \A t \in Threads : blockedOn'[t] \in {blockedOn[t], NoQ} /\ Asks(t)',
         \A t \in Threads : want[t] # NoQ /\ blockedOn[t] = NoQ /\ pc[t] \in {"resched", "woke"}
           => want'[t] = want[t] /\ pc'[t] \in {"resched", "woke"}
  PROVE  CountInv'
<1>1. ASSUME NEW w \in Waitqs PROVE Counted(w)'
  <2>1. \A t \in Threads : blockedOn'[t] = w => blockedOn[t] = w
    BY NoQIsNoWaitq
  <2>2. Woken(w) \subseteq Woken(w)'
    BY NoQIsNoWaitq DEF Woken
  <2>3. count'[w] <= count[w]
    BY DEF TypeOK, LockType
  <2> QED BY <2>1, <2>2, <2>3, CountedStill DEF CountInv
<1> QED BY <1>1 DEF CountInv

\* The running thread c takes a unit of w: it wakes whoever waits for the room,
\* or the item, that leaves.  It may be one of those w had woken.
LEMMA AcquireCounts ==
  ASSUME TypeOK, TypeOK', KernelInv, CountInv, NEW c \in Threads, NEW w \in Waitqs,
         Acquire(c, w), current = c, current' = c, blockedOn[c] = NoQ, state[c] = "RUNNING",
         want[c] \in {w, NoQ}, want'[c] = NoQ, pc'[c] = "run", pend' = pend,
         \A u \in Threads : u # c => pc'[u] = pc[u] /\ want'[u] = want[u]
  PROVE  CountInv'
<1>0. /\ \A u \in Threads, v \in Waitqs :
           /\ blockedOn'[u] = v => blockedOn[u] = v
           /\ v # Partner[w] /\ blockedOn[u] \in {v, NoQ} => blockedOn'[u] = blockedOn[u]
      /\ \A u \in Threads : state'[u] = "DEAD" => state[u] = "DEAD"
  <2>1. CASE Partner[w] = NoQ
    BY <2>1 DEF Acquire, WakePartner, listVars
  <2>2. CASE Partner[w] # NoQ
    <3>1. Partner[w] \in Waitqs /\ PopBest(Partner[w])
      BY <2>2, KernelAssumption DEF Acquire, WakePartner
    <3> QED BY <3>1, PopBestOthers, PopBestLife
  <2> QED BY <2>1, <2>2
<1>1. \A v \in Waitqs : count'[v] = IF v = w THEN count[v] - 1
                                    ELSE IF v = Partner[w] THEN count[v] + 1 ELSE count[v]
  BY DEF Acquire, Moved
<1>2. Partner[w] # w
  BY KernelAssumption, NoQIsNoWaitq
<1>3. Counted(w)'
  <2>1. Woken(w) \ {c} \subseteq Woken(w)'
    BY <1>0, <1>2, NoQIsNoWaitq DEF Woken
  <2> QED BY <1>0, <1>1, <2>1, CountedTaken DEF CountInv
<1>4. ASSUME NEW v \in Waitqs, v # w, v = Partner[w] PROVE Counted(v)'
  <2>1. PopBest(v) /\ want[c] # v /\ count'[v] <= count[v] + 1
    BY <1>1, <1>4, NoQIsNoWaitq DEF Acquire, WakePartner, TypeOK, LockType
  <2> QED BY <2>1, PopBestCounted
<1>5. ASSUME NEW v \in Waitqs, v # w, v # Partner[w] PROVE Counted(v)'
  <2>1. Woken(v) \subseteq Woken(v)'
    BY <1>0, <1>5, NoQIsNoWaitq DEF Woken
  <2>2. count'[v] <= count[v]
    BY <1>1, <1>5 DEF TypeOK, LockType
  <2> QED BY <1>0, <2>1, <2>2, CountedStill DEF CountInv
<1>6. ASSUME NEW u \in Threads PROVE Asks(u)'
  <2>1. Asks(u) /\ blockedOn'[u] \in {blockedOn[u], NoQ}
    BY <1>0 DEF CountInv, TypeOK, ListType
  <2> QED BY <1>0, <2>1 DEF Asks
<1> QED BY <1>3, <1>4, <1>5, <1>6 DEF CountInv

\* The running thread c gives a unit of w.
LEMMA GiveCounts ==
  ASSUME TypeOK, TypeOK', KernelInv, CountInv, NEW c \in Threads, NEW w \in Waitqs,
         Give(w), current = c, pc[c] = "run", UNCHANGED <<callVars, pend, current>>
  PROVE  CountInv'
<1>0. \A u \in Threads, v \in Waitqs :
           /\ blockedOn'[u] = v => blockedOn[u] = v
           /\ v # w /\ blockedOn[u] \in {v, NoQ} => blockedOn'[u] = blockedOn[u]
           /\ state'[u] = "DEAD" => state[u] = "DEAD"
  BY PopBestOthers DEF Give
<1>1. /\ count'[w] <= count[w] + 1 /\ \A v \in Waitqs : v # w => count'[v] = count[v]
  <2>1. Limit[w] \in Nat /\ count[w] \in Nat
    BY KernelAssumption DEF TypeOK, LockType
  <2>2. count'[w] = Lesser(count[w] + 1, Limit[w]) /\ \A v \in Waitqs : v # w => count'[v] = count[v]
    BY DEF Give, TypeOK, LockType
  <2> QED BY <2>1, <2>2 DEF Lesser
<1>2. want[c] = NoQ /\ blockedOn[c] = NoQ /\ want' = want /\ pc' = pc
  BY CallerIsOffQueues DEF TypeOK, CallType, callVars
<1>3. Counted(w)'
  BY <1>1, <1>2, PopBestCounted, NoQIsNoWaitq DEF Give
<1>4. ASSUME NEW v \in Waitqs, v # w PROVE Counted(v)'
  <2>1. Woken(v) \subseteq Woken(v)'
    BY <1>0, <1>2, <1>4 DEF Woken
  <2>2. count'[v] <= count[v]
    BY <1>1, <1>4 DEF TypeOK, LockType
  <2> QED BY <1>0, <2>1, <2>2, CountedStill DEF CountInv
<1>5. ASSUME NEW u \in Threads PROVE Asks(u)'
  <2>1. Asks(u) /\ blockedOn'[u] \in {blockedOn[u], NoQ} /\ (state'[u] = "DEAD" => state[u] = "DEAD")
    <3>1. state'[u] = "DEAD" => state[u] = "DEAD"
      BY PopBestLife DEF Give
    <3> QED BY <1>0, <3>1 DEF CountInv, TypeOK, ListType
  <2>2. ~ (current' = u /\ pc'[u] = "block")
    BY <1>2
  <2> QED BY <1>2, <2>1, <2>2 DEF Asks
<1> QED BY <1>3, <1>4, <1>5 DEF CountInv

LEMMA InsideCounts ==
  ASSUME MayOverrun = {}, TypeOK, TypeOK', KernelInv, CountInv, Inside
  PROVE  CountInv'
<1>1. \A u \in Threads : state'[u] = "DEAD" => state[u] = "DEAD"
  BY InsideLife, NoneEnds
<1>2. ~ Drain
  BY DEF Drain, CountInv
<1>3. ASSUME NEW from \in Threads \cup {Host}, current = from,
             UNCHANGED <<blockedOn, want, count, pend>>,
             from = Host \/ pc[from] = "resched",
             \A u \in Threads : pc'[u] = IF u # from THEN pc[u]
                                         ELSE IF want[u] = NoQ THEN "run" ELSE "woke"
      PROVE  CountInv'
  <2>1. \A u \in Threads : Asks(u)'
    <3> SUFFICES ASSUME NEW u \in Threads PROVE Asks(u)'
      OBVIOUS
    <3>1. pc'[u] # "block"
      BY <1>3 DEF KernelInv, PlaceInv, Runs
    <3> QED BY <1>1, <1>3, <3>1 DEF CountInv, Asks
  <2> QED BY <1>3, <2>1, SameCounts DEF CountInv
<1>4. CASE HostTurn
  BY <1>3, <1>4, HostIsNoThread DEF HostTurn, callVars, pendVars
<1>5. ASSUME NEW t \in Threads, HeldOff(t) \/ Reschedule(t) PROVE CountInv'
  <2>1. /\ current = t /\ pc[t] = "resched" /\ pc' = Resumed(t)
        /\ UNCHANGED <<blockedOn, want, count, pend>>
    BY <1>5 DEF HeldOff, Reschedule, listVars, pendVars
  <2>2. \A u \in Threads : pc'[u] = IF u # t THEN pc[u]
                                    ELSE IF want[u] = NoQ THEN "run" ELSE "woke"
    BY <2>1 DEF Resumed, TypeOK, CallType
  <2> QED BY <1>3, <2>1, <2>2
<1>6. ASSUME NEW t \in Threads, BlockOn(t) PROVE CountInv'
  <2> DEFINE w == want[t]
  <2>1. /\ w \in Waitqs /\ current = t /\ pc[t] = "block" /\ count[w] = 0
        /\ UNCHANGED <<count, want, pend, current>>
    BY <1>6 DEF BlockOn, TypeOK, CallType, CountInv, Asks, pendVars
  <2>2. \A u \in Threads : /\ blockedOn'[u] = IF u = t THEN w ELSE blockedOn[u]
                           /\ pc'[u] = IF u = t THEN "resched" ELSE pc[u]
    BY <1>6 DEF BlockOn, TypeOK, ListType, CallType
  <2> HIDE DEF w
  <2>3. ASSUME NEW v \in Waitqs PROVE Counted(v)'
    <3>1. CASE v = w
      BY <2>1, <3>1, WokenIsFinite DEF Counted
    <3>2. CASE v # w
      <4>1. Woken(v) \subseteq Woken(v)'
        BY <2>1, <2>2, <3>2 DEF Woken
      <4>2. count'[v] <= count[v]
        BY <2>1 DEF TypeOK, LockType
      <4> QED BY <2>2, <3>2, <4>1, <4>2, CountedStill DEF CountInv
    <3> QED BY <3>1, <3>2
  <2>4. ASSUME NEW u \in Threads PROVE Asks(u)'
    <3>1. Asks(u)
      BY DEF CountInv
    <3>2. CASE u = t
      BY <1>1, <2>1, <2>2, <3>1, <3>2 DEF Asks, w
    <3>3. CASE u # t
      BY <1>1, <2>1, <2>2, <3>1, <3>3 DEF Asks
    <3> QED BY <3>2, <3>3
  <2> QED BY <2>1, <2>3, <2>4 DEF CountInv
<1>7. ASSUME NEW t \in Threads, Woke(t) PROVE CountInv'
  <2>1. /\ current = t /\ pc[t] = "woke" /\ state[t] = "RUNNING" /\ want[t] \in Waitqs
        /\ UNCHANGED <<current, pend>>
    BY <1>7 DEF Woke, KernelInv, PlaceInv, Runs, TypeOK, CallType, pendVars
  <2>2. CASE /\ blockedOn[t] # NoQ /\ Detach(t) /\ UNCHANGED <<state, lockVars, count>>
             /\ pc' = [pc EXCEPT ![t] = "run"] /\ want' = [want EXCEPT ![t] = NoQ]
    <3>1. \A u \in Threads : /\ blockedOn'[u] = IF u = t THEN NoQ ELSE blockedOn[u]
                             /\ pc'[u] = IF u = t THEN "run" ELSE pc[u]
                             /\ want'[u] = IF u = t THEN NoQ ELSE want[u]
      BY <2>2 DEF Detach, TypeOK, ListType, CallType
    <3>2. \A u \in Threads : Asks(u)'
      BY <2>1, <2>2, <3>1 DEF CountInv, Asks
    <3> QED BY <2>1, <2>2, <3>1, <3>2, SameCounts DEF CountInv
  <2>3. CASE /\ blockedOn[t] = NoQ /\ Acquire(t, want[t])
             /\ pc' = [pc EXCEPT ![t] = "run"] /\ want' = [want EXCEPT ![t] = NoQ]
    <3>1. /\ want'[t] = NoQ /\ pc'[t] = "run"
          /\ \A u \in Threads : u # t => pc'[u] = pc[u] /\ want'[u] = want[u]
      BY <2>3 DEF TypeOK, CallType
    <3> QED BY <2>1, <2>3, <3>1, AcquireCounts
  <2>4. CASE /\ blockedOn[t] = NoQ /\ count[want[t]] = 0 /\ pc' = [pc EXCEPT ![t] = "block"]
             /\ UNCHANGED <<state, listVars, want, count>>
    <3>1. \A u \in Threads : pc'[u] = IF u = t THEN "block" ELSE pc[u]
      BY <2>4 DEF TypeOK, CallType
    <3>2. ASSUME NEW v \in Waitqs PROVE Counted(v)'
      <4>1. CASE v = want[t]
        BY <2>4, <4>1, WokenIsFinite DEF Counted
      <4>2. CASE v # want[t]
        <5>1. Woken(v) \subseteq Woken(v)'
          BY <2>4, <3>1, <4>2 DEF Woken, listVars
        <5>2. count'[v] <= count[v]
          BY <2>4 DEF TypeOK, LockType
        <5> QED BY <2>4, <5>1, <5>2, CountedStill DEF CountInv, listVars
      <4> QED BY <4>1, <4>2
    <3>3. \A u \in Threads : Asks(u)'
      BY <2>1, <2>4, <3>1 DEF CountInv, Asks, listVars
    <3> QED BY <2>1, <3>2, <3>3 DEF CountInv
  <2> QED BY <1>7, <2>2, <2>3, <2>4 DEF Woke
<1> QED BY <1>2, <1>4, <1>5, <1>6, <1>7 DEF Inside

LEMMA LockingCounts ==
  ASSUME TypeOK, TypeOK', KernelInv, CountInv, NEW t \in Threads, Locking(t)
  PROVE  CountInv'
<1>0. current = t /\ pc[t] = "run" /\ want[t] = NoQ /\ blockedOn[t] = NoQ /\ state[t] = "RUNNING"
  <2>1. Calling(t)
    BY DEF Locking, Take, SemGive, Relock, MutexUnlock, SchedLock, SchedUnlock
  <2>2. current = t /\ pc[t] = "run"
    BY <2>1 DEF Calling
  <2> QED BY <2>2, CallerIsOffQueues DEF TypeOK, CallType
<1>1. ASSUME UNCHANGED <<state, blockedOn, count, current, pend>>,
             \A u \in Threads : u # t => pc'[u] = pc[u] /\ want'[u] = want[u],
             pc'[t] = "block" => count[want'[t]] = 0
      PROVE  CountInv'
  <2>1. \A u \in Threads : Asks(u)'
    BY <1>0, <1>1 DEF CountInv, Asks
  <2> QED BY <1>0, <1>1, <2>1, SameCounts DEF CountInv
<1>2. ASSUME NEW w \in Waitqs, NEW d \in Timeouts, Take(t, w, d) PROVE CountInv'
  <2>1. UNCHANGED <<current, pend>>
    BY <1>2 DEF Take, pendVars
  <2>2. CASE Acquire(t, w) /\ UNCHANGED callVars
    BY <1>0, <2>1, <2>2, AcquireCounts DEF callVars
  <2>3. CASE /\ count[w] = 0 /\ pc' = [pc EXCEPT ![t] = "block"]
             /\ want' = [want EXCEPT ![t] = w] /\ UNCHANGED <<state, listVars, lockVars, count>>
    BY <1>1, <2>1, <2>3 DEF TypeOK, CallType, listVars
  <2> QED BY <1>2, <2>2, <2>3 DEF Take
<1>3. ASSUME NEW w \in Waitqs, SemGive(t, w) PROVE CountInv'
  BY <1>0, <1>3, GiveCounts DEF SemGive, pendVars
<1>4. ASSUME NEW m \in Mutexes, Relock(t, m) PROVE CountInv'
  BY <1>0, <1>1, <1>4 DEF Relock, listVars, callVars, pendVars
<1>5. ASSUME NEW m \in Mutexes, MutexUnlock(t, m) PROVE CountInv'
  <2>1. UNCHANGED <<callVars, pend, current>> /\ m \in Waitqs
    BY <1>5, KernelAssumption DEF MutexUnlock, pendVars
  <2>2. CASE Give(m)
    BY <1>0, <2>1, <2>2, GiveCounts
  <2>3. CASE UNCHANGED <<state, listVars, owner, holds, count>>
    BY <1>0, <1>1, <2>1, <2>3 DEF listVars, callVars
  <2> QED BY <1>5, <2>2, <2>3 DEF MutexUnlock
<1>6. CASE SchedLock(t) \/ SchedUnlock(t)
  <2>1. /\ UNCHANGED <<state, blockedOn, count, current, pend, want>>
        /\ pc'[t] \in {"run", "resched"} /\ \A u \in Threads : u # t => pc'[u] = pc[u]
    BY <1>0, <1>6 DEF SchedLock, SchedUnlock, listVars, callVars, pendVars, TypeOK, CallType
  <2> QED BY <1>1, <2>1
<1> QED BY <1>2, <1>3, <1>4, <1>5, <1>6 DEF Locking

LEMMA CallCounts ==
  ASSUME Killable = {}, Stoppable = {}, TypeOK, TypeOK', KernelInv, CountInv,
         NEW t \in Threads, Call(t)
  PROVE  CountInv'
<1>1. CASE Locking(t)
  BY <1>1, LockingCounts
<1>2. CASE ~ Locking(t)
  <2>0. current = t /\ pc[t] = "run"
    BY <1>2 DEF Call, Ending, Prioritising, Exit, Overrun, Kill, Stop, PrioritySet, SetBoost,
                Yield, Sleep, Calling
  <2>1. want[t] = NoQ
    BY <2>0 DEF TypeOK, CallType
  <2>2. /\ UNCHANGED <<blockedOn, want, count, current, pend>>
        /\ \A u \in Threads : u # t => pc'[u] = pc[u] /\ state'[u] = state[u]
        /\ pc'[t] \in {"run", "resched"}
    BY <1>2, <2>0
    DEF Call, Ending, Prioritising, Exit, Overrun, PrioritySet, SetBoost, Yield, Sleep,
        listVars, callVars, pendVars, TypeOK, CallType, StateType
  <2>3. \A u \in Threads : Asks(u)'
    BY <2>0, <2>1, <2>2 DEF CountInv, Asks
  <2> QED BY <2>0, <2>1, <2>2, <2>3, SameCounts DEF CountInv
<1> QED BY <1>1, <1>2

LEMMA CountInductive ==
  ASSUME MayOverrun = {}, IsrQs = {}, Killable = {}, Stoppable = {},
         TypeOK, TypeOK', KernelInv, CountInv, [Next]_vars
  PROVE  CountInv'
<1>1. CASE Inside
  BY <1>1, InsideCounts
<1>2. ASSUME UNCHANGED <<state, blockedOn, want, pc, count, current, pend>> PROVE CountInv'
  <2>1. \A u \in Threads : Asks(u)'
    BY <1>2 DEF CountInv, Asks
  <2> QED BY <1>2, <2>1, SameCounts DEF CountInv
<1>3. CASE Interrupt
  BY <1>2, <1>3 DEF Interrupt, Tick, callVars, pendVars
<1>4. ASSUME NEW t \in Threads, Call(t) PROVE CountInv'
  BY <1>4, CallCounts
<1>5. ASSUME NEW t \in Threads, Release(t) PROVE CountInv'
  BY <1>2, <1>5 DEF Release, listVars, callVars, pendVars
<1>6. ASSUME NEW t \in Threads, NEW p \in NewPrios, Create(t, p) PROVE CountInv'
  <2>1. state[t] = "DEAD" /\ want[t] = NoQ
    BY <1>6 DEF Create, Free, CountInv, Asks
  <2>2. /\ \A u \in Threads : /\ blockedOn'[u] = IF u = t THEN NoQ ELSE blockedOn[u]
                              /\ pc'[u] = IF u = t THEN "run" ELSE pc[u]
                              /\ want'[u] = IF u = t THEN NoQ ELSE want[u]
                              /\ state'[u] = IF u = t THEN "READY" ELSE state[u]
        /\ UNCHANGED <<count, current, pend>>
    BY <1>6 DEF Create, TypeOK, ListType, CallType, StateType, pendVars
  <2>3. \A u \in Threads : Asks(u)'
    BY <2>2 DEF CountInv, Asks
  <2> QED BY <2>1, <2>2, <2>3, SameCounts DEF CountInv
<1>7. CASE UNCHANGED vars
  BY <1>2, <1>7 DEF vars, listVars, callVars, pendVars
<1> QED BY <1>1, <1>3, <1>4, <1>5, <1>6, <1>7 DEF Next

\* No thread is left asleep beside a unit nobody was woken for: under semaphores,
\* mutexes, message queues, deadlines, priorities, sleeps, the scheduler lock and
\* threads that come and go, as long as no interrupt gives and nobody is killed.
THEOREM WakeupsKept ==
  ASSUME MayOverrun = {}, IsrQs = {}, Killable = {}, Stoppable = {}
  PROVE  Spec => []NoLostWakeup
<1>1. Init => CountInv
  <2> SUFFICES ASSUME Init PROVE CountInv
    OBVIOUS
  <2>1. \A t \in Threads : Asks(t) /\ blockedOn[t] = NoQ
    BY DEF Init, Asks
  <2> QED BY <2>1, NoQIsNoWaitq DEF Init, CountInv, Counted
<1>2. TypeOK /\ TypeOK' /\ KernelInv /\ CountInv /\ [Next]_vars => CountInv'
  BY CountInductive
<1>3. TypeOK /\ KernelInv /\ CountInv => NoLostWakeup
  <2> SUFFICES ASSUME TypeOK, KernelInv, CountInv, NEW w \in Waitqs, waitq[w] # <<>>
               PROVE  count[w] <= Cardinality(Woken(w)) + Cardinality(Notes(w))
    BY DEF NoLostWakeup
  <2>1. waitq[w][1] \in Threads /\ waitq[w][1] \in Members(waitq[w])
    BY DEF TypeOK, ListType, Members
  <2>2. blockedOn[waitq[w][1]] = w
    BY <2>1 DEF KernelInv, QueueConsistent
  <2>3. count[w] <= Cardinality(Woken(w))
    BY <2>1, <2>2 DEF CountInv, Counted
  <2>4. Notes(w) = {}
    BY DEF Notes, CountInv
  <2>5. count[w] \in Nat
    BY DEF TypeOK, LockType
  <2> QED BY <2>3, <2>4, <2>5, WokenIsFinite, FS_EmptySet
<1> QED BY <1>1, <1>2, <1>3, KernelInvHolds, TypeCorrect, PTL DEF Spec

(***************************************************************************)
(* No context is loaded that was not saved, where nothing makes the thread *)
(* that gives up the processor ready again before it has left: no          *)
(* interrupt's give, no deadline and no sleep.                             *)
(***************************************************************************)
\* Nothing is due, nobody sleeps, and the thread in reschedule() is not ready.
Settled(t) ==
  /\ timer[t] = Never /\ limit[t] = Never
  /\ state[t] # "SLEEPING" /\ (current = t => state[t] # "READY")

LoadInv == ~crashed /\ pend = <<>> /\ \A t \in Threads : Settled(t)

LEMMA NeverIsNoTick == Never # 0 /\ ~ (Never > 0)
  BY DEF Never

\* Steps that set no deadline and make nobody ready.
LEMMA SameSettled ==
  ASSUME LoadInv, UNCHANGED <<crashed, pend, limit, current>>,
         \A t \in Threads : /\ timer'[t] \in {timer[t], Never}
                            /\ state'[t] \in {state[t], "DEAD", "BLOCKED"}
  PROVE  LoadInv'
  BY DEF LoadInv, Settled

\* Waking the best waiter never wakes the running thread.
LEMMA PopBestSettled ==
  ASSUME TypeOK, KernelInv, LoadInv, NEW w \in Waitqs, PopBest(w), NEW c \in Threads,
         current = c, blockedOn[c] = NoQ, UNCHANGED <<crashed, pend, current>>,
         \A u \in Threads : limit'[u] \in {limit[u], Never}
  PROVE  LoadInv'
<1>1. \A u \in Threads : timer'[u] \in {timer[u], Never}
  BY DEF PopBest, listVars, TypeOK, ListType
<1>2. \A u \in Threads : state'[u] # state[u] => state'[u] = "READY" /\ u # c
  BY PopBestWakes, NoQIsNoWaitq DEF TypeOK, StateType
<1> QED BY <1>1, <1>2 DEF LoadInv, Settled

LEMMA AcquireSettled ==
  ASSUME TypeOK, KernelInv, LoadInv, NEW c \in Threads, NEW w \in Waitqs, Acquire(c, w),
         current = c, blockedOn[c] = NoQ, UNCHANGED <<crashed, pend, current>>,
         \A u \in Threads : limit'[u] \in {limit[u], Never}
  PROVE  LoadInv'
<1>1. CASE Partner[w] = NoQ
  BY <1>1 DEF Acquire, WakePartner, listVars, LoadInv, Settled
<1>2. CASE Partner[w] # NoQ
  <2>1. Partner[w] \in Waitqs /\ PopBest(Partner[w])
    BY <1>2, KernelAssumption DEF Acquire, WakePartner
  <2> QED BY <2>1, PopBestSettled
<1> QED BY <1>1, <1>2

\* A turn loads the context of another thread, and that one was saved.
LEMMA TurnSettled ==
  ASSUME TypeOK, KernelInv, LoadInv, NEW from \in Threads \cup {Host}, current = from,
         Turn(state, from), stack' = Reaped(state, from), UNCHANGED <<pend, limit>>
  PROVE  LoadInv'
<1>1. Awakened(state) = state /\ \A t \in Threads : timer'[t] = Never
  <2>1. \A t \in Threads : ~ Due(t, state)
    BY NeverIsNoTick DEF LoadInv, Settled, Due
  <2>2. \A t \in Threads : timer'[t] = timer[t]
    BY <2>1 DEF Turn
  <2>3. Awakened(state) = state
    BY <2>1 DEF Awakened, TypeOK, StateType
  <2> QED BY <2>2, <2>3 DEF LoadInv, Settled
<1>2. CASE UNCHANGED crashed /\ state' = state
           /\ (current' = Host \/ (current' = current /\ state[from] = "RUNNING"))
  BY <1>1, <1>2, HostIsNoThread DEF LoadInv, Settled
<1>3. ASSUME NEW n \in Threads, IsNext(n, state, eff'), ~ (n = from /\ state[n] = "RUNNING"),
             state' = [Left(state, from) EXCEPT ![n] = "RUNNING"], current' = n,
             crashed' \in LoadOutcomes(n, from)
      PROVE  LoadInv'
  <2>1. state[n] \in {"READY", "RUNNING"} /\ n # from
    BY <1>3 DEF IsNext, Runnable, LoadInv, Settled
  <2>2. \A t \in Threads : stack'[t] = IF state[t] = "DEAD" /\ t # from THEN "none" ELSE stack[t]
    BY DEF Reaped
  <2>3. stack'[n] = "ok" /\ stack[n] = "ok"
    BY <2>1, <2>2 DEF KernelInv, PlaceInv, Stands
  <2>4. \A t \in Threads : t = from => stack'[t] = "ok"
    BY <2>2 DEF KernelInv, PlaceInv, Stands
  <2>5. ~ crashed'
    BY <1>3, <2>1, <2>3, <2>4 DEF LoadOutcomes
  <2>6. \A t \in Threads : state'[t] = IF t = n THEN "RUNNING"
                                       ELSE IF t = from /\ state[t] = "RUNNING" THEN "READY" ELSE state[t]
    BY <1>3 DEF Left
  <2> QED BY <1>1, <1>3, <2>5, <2>6 DEF LoadInv, Settled
<1>4. CASE Runnable(state) = {} /\ current' = Host /\ state' = state /\ UNCHANGED <<seq, crashed>>
  BY <1>2, <1>4
<1>5. ASSUME NEW n \in Threads, IsNext(n, state, eff'),
             IF n = from /\ state[n] = "RUNNING"
             THEN state' = state /\ UNCHANGED <<current, seq, crashed>>
             ELSE /\ state' = [Left(state, from) EXCEPT ![n] = "RUNNING"]
                  /\ current' = n /\ seq' = Selected(n)
                  /\ crashed' \in LoadOutcomes(n, from)
      PROVE  LoadInv'
  <2>1. CASE n = from /\ state[n] = "RUNNING"
    BY <1>2, <1>5, <2>1
  <2>2. CASE ~ (n = from /\ state[n] = "RUNNING")
    BY <1>3, <1>5, <2>2
  <2> QED BY <2>1, <2>2
<1> QED BY <1>1, <1>4, <1>5, Zenon DEF Turn

LEMMA InsideSettled ==
  ASSUME MayOverrun = {}, TypeOK, KernelInv, LoadInv, Inside
  PROVE  LoadInv'
<1> USE DEF TypeOK
<1>1. ~ Drain
  BY DEF Drain, LoadInv
<1>2. CASE HostTurn
  BY <1>2, TurnSettled DEF HostTurn, callVars, pendVars
<1>3. ASSUME NEW t \in Threads, HeldOff(t) PROVE LoadInv'
  BY <1>3, SameSettled DEF HeldOff, listVars, pendVars
<1>4. ASSUME NEW t \in Threads, Reschedule(t) PROVE LoadInv'
  <2>1. stack[t] # "overrun"
    BY DEF KernelInv, PlaceInv, Stands
  <2>2. /\ current = t /\ Turn(state, t) /\ stack' = Reaped(state, t)
        /\ UNCHANGED <<pend, limit>>
    BY <1>4, <2>1 DEF Reschedule, pendVars
  <2> QED BY <2>2, TurnSettled
<1>5. ASSUME NEW t \in Threads, BlockOn(t) PROVE LoadInv'
  <2>1. current = t /\ blockedOn[t] = NoQ
    BY <1>5, CallerIsOffQueues DEF BlockOn
  <2>2. \A w \in Waitqs : t \notin Members(waitq[w])
    BY <2>1, NoQIsNoWaitq DEF KernelInv, QueueConsistent
  <2>3. ~ crashed' /\ UNCHANGED <<pend, limit, current>>
    BY <1>5, <2>2 DEF BlockOn, pendVars
  <2>4. \A u \in Threads : /\ timer'[u] = IF u = t THEN limit[t] ELSE timer[u]
                           /\ state'[u] = IF u = t THEN "BLOCKED" ELSE state[u]
    BY <1>5 DEF BlockOn, ListType, StateType
  <2> QED BY <2>3, <2>4, SameSettled DEF LoadInv, Settled
<1>6. ASSUME NEW t \in Threads, Woke(t) PROVE LoadInv'
  <2>1. /\ current = t /\ want[t] \in Waitqs /\ UNCHANGED <<crashed, pend, current>>
        /\ \A u \in Threads : limit'[u] \in {limit[u], Never}
    BY <1>6 DEF Woke, CallType, pendVars
  <2>2. CASE Detach(t) /\ UNCHANGED state
    <3>1. \A u \in Threads : timer'[u] \in {timer[u], Never}
      BY <2>2 DEF Detach, ListType
    <3> QED BY <2>1, <2>2, <3>1 DEF LoadInv, Settled
  <2>3. CASE blockedOn[t] = NoQ /\ Acquire(t, want[t])
    BY <2>1, <2>3, AcquireSettled
  <2>4. CASE UNCHANGED <<state, listVars, limit>>
    BY <2>1, <2>4, SameSettled DEF listVars
  <2> QED BY <1>6, <2>2, <2>3, <2>4 DEF Woke
<1> QED BY <1>1, <1>2, <1>3, <1>4, <1>5, <1>6 DEF Inside

LEMMA CallSettled ==
  ASSUME Timeouts \subseteq {Never}, Sleeps = {}, TypeOK, KernelInv, LoadInv,
         NEW t \in Threads, Call(t)
  PROVE  LoadInv'
<1> USE DEF TypeOK
<1>0. current = t /\ pc[t] = "run" /\ blockedOn[t] = NoQ /\ UNCHANGED <<current, pend, crashed>>
  <2>1. Calling(t) /\ UNCHANGED <<current, pend, crashed>>
    BY DEF Call, Locking, Ending, Prioritising, Take, SemGive, Relock, MutexUnlock, SchedLock,
           SchedUnlock, Exit, Overrun, Kill, Stop, End, PrioritySet, SetBoost, Yield, Sleep,
           pendVars
  <2>2. current = t /\ pc[t] = "run"
    BY <2>1 DEF Calling
  <2> QED BY <2>1, <2>2, CallerIsOffQueues
<1>1. ASSUME UNCHANGED <<state, timer, limit>> PROVE LoadInv'
  BY <1>0, <1>1, SameSettled
<1>2. ASSUME NEW w \in Waitqs, NEW d \in Timeouts, Take(t, w, d) PROVE LoadInv'
  <2>1. CASE Acquire(t, w) /\ UNCHANGED callVars
    BY <1>0, <2>1, AcquireSettled DEF callVars
  <2>2. CASE limit' = [limit EXCEPT ![t] = d] /\ UNCHANGED <<state, listVars>>
    <3>1. \A u \in Threads : limit'[u] \in {limit[u], Never}
      BY <2>2 DEF CallType
    <3> QED BY <1>0, <2>2, <3>1 DEF LoadInv, Settled, listVars
  <2> QED BY <1>2, <2>1, <2>2 DEF Take
<1>3. ASSUME NEW w \in Waitqs, SemGive(t, w) \/ MutexUnlock(t, w), w \in Mutexes \/ SemGive(t, w)
      PROVE  LoadInv'
  <2>1. UNCHANGED limit /\ (PopBest(w) \/ UNCHANGED <<state, listVars>>)
    BY <1>3 DEF SemGive, MutexUnlock, Give, callVars
  <2>2. CASE PopBest(w)
    BY <1>0, <2>1, <2>2, PopBestSettled
  <2>3. CASE UNCHANGED <<state, listVars>>
    BY <1>1, <2>1, <2>3 DEF listVars
  <2> QED BY <2>1, <2>2, <2>3
<1>4. ASSUME NEW u \in Threads, End(u) PROVE LoadInv'
  <2>1. \A v \in Threads : /\ timer'[v] \in {timer[v], Never} /\ limit'[v] \in {limit[v], Never}
                           /\ state'[v] \in {state[v], "DEAD"}
    BY <1>4 DEF End, Detach, ListType, CallType, StateType
  <2> QED BY <1>0, <2>1 DEF LoadInv, Settled
<1>5. CASE Locking(t)
  <2>1. \A m \in Mutexes : m \in Waitqs
    BY KernelAssumption
  <2> QED BY <1>1, <1>2, <1>3, <1>5, <2>1
      DEF Locking, Relock, SchedLock, SchedUnlock, listVars, callVars
<1>6. CASE Exit(t)
  BY <1>0, <1>6, SameSettled DEF Exit, listVars, StateType
<1>7. CASE Ending(t)
  BY <1>1, <1>4, <1>6, <1>7, KernelAssumption
  DEF Ending, Overrun, Kill, Stop, listVars, callVars
<1>8. CASE Prioritising(t) \/ Yield(t)
  BY <1>1, <1>8 DEF Prioritising, PrioritySet, SetBoost, Yield, listVars, callVars
<1> QED BY <1>5, <1>7, <1>8 DEF Call

LEMMA LoadInductive ==
  ASSUME MayOverrun = {}, IsrQs = {}, Timeouts \subseteq {Never}, Sleeps = {},
         TypeOK, KernelInv, LoadInv, [Next]_vars
  PROVE  LoadInv'
<1>1. CASE Inside
  BY <1>1, InsideSettled
<1>2. CASE Interrupt
  <2>1. Tick
    BY <1>2 DEF Interrupt
  <2>2. \A t \in Threads : timer'[t] = timer[t]
    BY <2>1, NeverIsNoTick DEF Tick, LoadInv, Settled
  <2> QED BY <2>1, <2>2, SameSettled DEF Tick, callVars, pendVars
<1>3. ASSUME NEW t \in Threads, Call(t) PROVE LoadInv'
  BY <1>3, CallSettled
<1>4. ASSUME NEW t \in Threads, Release(t) PROVE LoadInv'
  BY <1>4, SameSettled DEF Release, listVars, callVars, pendVars
<1>5. ASSUME NEW t \in Threads, NEW p \in NewPrios, Create(t, p) PROVE LoadInv'
  <2>1. current # t
    BY <1>5 DEF Create, Free, KernelInv, PlaceInv, Stands
  <2>2. \A u \in Threads : /\ timer'[u] \in {timer[u], Never} /\ limit'[u] \in {limit[u], Never}
                           /\ state'[u] = IF u = t THEN "READY" ELSE state[u]
    BY <1>5 DEF Create, TypeOK, ListType, CallType, StateType
  <2> QED BY <1>5, <2>1, <2>2 DEF Create, LoadInv, Settled, pendVars
<1>6. CASE UNCHANGED vars
  BY <1>6, SameSettled DEF vars, listVars, callVars, pendVars
<1> QED BY <1>1, <1>2, <1>3, <1>4, <1>5, <1>6 DEF Next

\* Where no interrupt gives, and no deadline and no sleep ends, while a thread is on
\* its way off the processor, the kernel never resumes a context that was not saved,
\* and what it stopped stays dead -- under semaphores, mutexes, message queues,
\* kills, stops and slots used again.
THEOREM SettledStayOff ==
  ASSUME MayOverrun = {}, IsrQs = {}, Timeouts \subseteq {Never}, Sleeps = {}
  PROVE  Spec => DeadStayOff
<1>1. Init => LoadInv
  <2> SUFFICES ASSUME Init PROVE LoadInv
    OBVIOUS
  <2>1. \A t \in Threads : current # t
    BY HostIsNoThread DEF Init
  <2>2. \A t \in Threads : state[t] # "SLEEPING" /\ timer[t] = Never /\ limit[t] = Never
    BY DEF Init
  <2> QED BY <2>1, <2>2 DEF Init, LoadInv, Settled
<1>2. TypeOK /\ KernelInv /\ LoadInv /\ [Next]_vars => LoadInv'
  BY LoadInductive
<1>3. KernelInv' /\ LoadInv' =>
        [/\ LoadsSavedContext'
         /\ \A t \in Threads : fault[t] # "NONE" /\ fault'[t] # "NONE" => state'[t] = "DEAD"]_vars
  BY DEF LoadInv, LoadsSavedContext, KernelInv, PlaceInv, Stands
<1> QED BY <1>1, <1>2, <1>3, KernelInvHolds, TypeCorrect, PTL DEF Spec, DeadStayOff

-----------------------------------------------------------------------------
\* The same for threads that overrun their stacks, where there is nothing to wait
\* on: with no list to be woken from, a corpse is never made ready.
Lone(t) ==
  /\ timer[t] = Never /\ state[t] \in {"DEAD", "READY", "RUNNING"}
  /\ state[t] = "RUNNING" => current = t
  /\ current = t => state[t] # "READY"
  /\ current = t /\ (pc[t] # "resched" \/ schedLock > 0) => state[t] = "RUNNING"
  /\ current # t => pc[t] = "run"
  /\ state[t] # "DEAD" \/ current = t => stack[t] # "none"
  /\ stack[t] = "overrun" => current = t \/ state[t] = "DEAD"
  /\ fault[t] # "NONE" => state[t] = "DEAD"

LoneInv ==
  /\ ~crashed
  /\ current = Host => schedLock = 0
  /\ \A t \in Threads : Lone(t)

LEMMA NothingToWaitOn ==
  ASSUME Waitqs = {}, TypeOK
  PROVE  /\ pend = <<>> /\ Mutexes = {} /\ IsrQs = {}
         /\ \A t \in Threads : /\ want[t] = NoQ /\ blockedOn[t] = NoQ
                               /\ pc[t] \in {"run", "resched"}
<1>1. Mutexes = {} /\ IsrQs = {}
  BY KernelAssumption
<1>2. \A t \in Threads : want[t] = NoQ /\ blockedOn[t] = NoQ /\ pc[t] \in {"run", "resched"}
  BY DEF TypeOK, ListType, CallType, Points
<1>3. pend = <<>>
  <2>1. pend \in Seq({})
    BY DEF TypeOK, CpuType
  <2>2. ASSUME pend # <<>> PROVE FALSE
    <3>1. Head(pend) \in {}
      BY <2>1, <2>2
    <3> QED BY <3>1
  <2> QED BY <2>2
<1> QED BY <1>1, <1>2, <1>3

LEMMA TurnAlone ==
  ASSUME Waitqs = {}, TypeOK, LoneInv, NEW from \in Threads \cup {Host}, current = from,
         NEW st \in [Threads -> States],
         \A t \in Threads : \/ st[t] = state[t] /\ (t = from => stack[t] # "overrun")
                            \/ st[t] = "DEAD" /\ t = from,
         Turn(st, from), stack' = Reaped(st, from), UNCHANGED schedLock, schedLock = 0,
         \A t \in Threads : pc'[t] = "run",
         \A t \in Threads : fault'[t] = fault[t] \/ (t = from /\ st[t] = "DEAD")
  PROVE  LoneInv'
<1>0. \A t \in Threads : Lone(t) /\ st[t] \in {"DEAD", "READY", "RUNNING"}
  BY DEF LoneInv, Lone
<1>1. Awakened(st) = st /\ \A t \in Threads : timer'[t] = Never
  <2>1. \A t \in Threads : ~ Due(t, st)
    BY <1>0 DEF Due
  <2>2. \A t \in Threads : timer'[t] = timer[t]
    BY <2>1 DEF Turn
  <2> QED BY <1>0, <2>1, <2>2 DEF Awakened, Lone
<1>2. \A t \in Threads : stack'[t] = IF st[t] = "DEAD" /\ t # from THEN "none" ELSE stack[t]
  BY DEF Reaped
<1>3. CASE /\ UNCHANGED crashed /\ state' = st
           /\ ((current' = Host /\ Runnable(st) = {})
               \/ (from \in Threads /\ current' = current /\ st[from] = "RUNNING"))
  <2>1. ASSUME NEW t \in Threads PROVE Lone(t)'
    <3>1. CASE current' = Host /\ Runnable(st) = {}
      <4>1. st[t] = "DEAD" /\ current' # t
        BY <1>0, <3>1, HostIsNoThread DEF Runnable
      <4> QED BY <1>0, <1>1, <1>2, <1>3, <4>1 DEF Lone
    <3>2. CASE from \in Threads /\ current' = current /\ st[from] = "RUNNING"
      BY <1>0, <1>1, <1>2, <1>3, <3>2 DEF Lone
    <3> QED BY <1>3, <3>1, <3>2
  <2> QED BY <1>3, <2>1 DEF LoneInv
<1>4. ASSUME NEW n \in Threads, IsNext(n, st, eff'), ~ (n = from /\ st[n] = "RUNNING"),
             state' = [Left(st, from) EXCEPT ![n] = "RUNNING"], current' = n,
             crashed' \in LoadOutcomes(n, from)
      PROVE  LoneInv'
  <2>1. st[n] \in {"READY", "RUNNING"} /\ n # from
    BY <1>0, <1>4 DEF IsNext, Runnable, Lone
  <2>2. stack'[n] = stack[n] /\ stack[n] \notin {"none", "overrun"}
    BY <1>0, <1>2, <2>1 DEF Lone
  <2>3. \A t \in Threads : t = from => stack'[t] # "none"
    BY <1>0, <1>2 DEF Lone
  <2>4. ~ crashed'
    BY <1>4, <2>1, <2>2, <2>3 DEF LoadOutcomes
  <2>5. \A t \in Threads : state'[t] = IF t = n THEN "RUNNING"
                                       ELSE IF t = from /\ st[t] = "RUNNING" THEN "READY" ELSE st[t]
    BY <1>4 DEF Left
  <2>6. ASSUME NEW t \in Threads PROVE Lone(t)'
    BY <1>0, <1>1, <1>2, <1>4, <2>1, <2>2, <2>5 DEF Lone
  <2> QED BY <1>4, <2>4, <2>6, HostIsNoThread DEF LoneInv
<1>5. ASSUME NEW n \in Threads, IsNext(n, st, eff'),
             IF n = from /\ st[n] = "RUNNING"
             THEN state' = st /\ UNCHANGED <<current, seq, crashed>>
             ELSE /\ state' = [Left(st, from) EXCEPT ![n] = "RUNNING"]
                  /\ current' = n /\ seq' = Selected(n)
                  /\ crashed' \in LoadOutcomes(n, from)
      PROVE  LoneInv'
  <2>1. CASE n = from /\ st[n] = "RUNNING"
    BY <1>3, <1>5, <2>1
  <2>2. CASE ~ (n = from /\ st[n] = "RUNNING")
    BY <1>4, <1>5, <2>2
  <2> QED BY <2>1, <2>2
<1>6. CASE Runnable(st) = {} /\ current' = Host /\ state' = st /\ UNCHANGED <<seq, crashed>>
  BY <1>3, <1>6
<1> QED BY <1>1, <1>5, <1>6, Zenon DEF Turn

LEMMA InsideAlone ==
  ASSUME Waitqs = {}, TypeOK, LoneInv, Inside
  PROVE  LoneInv'
<1> USE DEF TypeOK
<1>1. CASE HostTurn
  <2>1. \A t \in Threads : t # Host /\ pc[t] = "run"
    BY <1>1, HostIsNoThread DEF HostTurn, LoneInv, Lone
  <2> QED BY <1>1, <2>1, TurnAlone DEF HostTurn, StateType, callVars, LoneInv
<1>2. ASSUME NEW t \in Threads, HeldOff(t) PROVE LoneInv'
  <2>1. \A u \in Threads : pc'[u] = IF u = t THEN "run" ELSE pc[u]
    BY <1>2, NothingToWaitOn DEF HeldOff, Resumed, CallType
  <2> QED BY <1>2, <2>1 DEF HeldOff, LoneInv, Lone, listVars, lifeVars
<1>3. ASSUME NEW t \in Threads, Reschedule(t) PROVE LoneInv'
  <2> DEFINE st == IF stack[t] = "overrun" THEN [state EXCEPT ![t] = "DEAD"] ELSE state
  <2>1. /\ current = t /\ schedLock = 0 /\ UNCHANGED schedLock
        /\ Turn(st, t) /\ stack' = Reaped(st, t) /\ pc' = Resumed(t)
    BY <1>3 DEF Reschedule
  <2>2. st \in [Threads -> States]
    BY DEF StateType, States
  <2>3. \A u \in Threads : \/ st[u] = state[u] /\ (u = t => stack[u] # "overrun")
                           \/ st[u] = "DEAD" /\ u = t
    BY DEF StateType
  <2>4. \A u \in Threads : fault'[u] = fault[u] \/ (u = t /\ st[u] = "DEAD")
    BY <1>3 DEF Reschedule, LifeType, StateType
  <2>5. \A u \in Threads : pc'[u] = "run"
    BY <2>1, NothingToWaitOn DEF Resumed, CallType, LoneInv, Lone
  <2> HIDE DEF st
  <2> QED BY <2>1, <2>2, <2>3, <2>4, <2>5, TurnAlone
<1>4. ~ Drain /\ \A t \in Threads : ~ BlockOn(t) /\ ~ Woke(t)
  BY NothingToWaitOn DEF Drain, BlockOn, Woke
<1> QED BY <1>1, <1>2, <1>3, <1>4 DEF Inside

LEMMA CallAlone ==
  ASSUME Waitqs = {}, Sleeps = {}, TypeOK, LoneInv, NEW t \in Threads, Call(t)
  PROVE  LoneInv'
<1> USE DEF TypeOK
<1>0. Calling(t) /\ UNCHANGED <<current, crashed>>
  BY NothingToWaitOn
  DEF Call, Locking, Ending, Prioritising, SchedLock, SchedUnlock, Exit, Overrun, Kill, Stop,
      End, PrioritySet, SetBoost, Yield
<1>1. current = t /\ pc[t] = "run" /\ state[t] = "RUNNING"
  BY <1>0 DEF Calling, LoneInv, Lone
<1>2. ASSUME UNCHANGED <<state, timer, stack, fault, schedLock>>,
             \A u \in Threads : u # t => pc'[u] = pc[u]
      PROVE  LoneInv'
  BY <1>0, <1>1, <1>2 DEF LoneInv, Lone
<1>3. CASE Locking(t)
  <2>1. SchedLock(t) \/ SchedUnlock(t)
    BY <1>3, NothingToWaitOn DEF Locking
  <2>2. /\ UNCHANGED <<state, timer, stack, fault>> /\ schedLock' \in Nat
        /\ \A u \in Threads : u # t => pc'[u] = pc[u]
    BY <2>1 DEF SchedLock, SchedUnlock, listVars, lifeVars, callVars, CallType, CpuType
  <2> QED BY <1>0, <1>1, <2>2, HostIsNoThread DEF LoneInv, Lone
<1>4. CASE Exit(t)
  <2>1. \A u \in Threads : /\ state'[u] = IF u = t THEN "DEAD" ELSE state[u]
                           /\ pc'[u] = IF u = t THEN "resched" ELSE pc[u]
    BY <1>4 DEF Exit, StateType, CallType
  <2>2. UNCHANGED <<timer, stack, fault, schedLock>> /\ schedLock = 0
    BY <1>4 DEF Exit, MayWait, listVars, lifeVars
  <2> QED BY <1>0, <1>1, <2>1, <2>2 DEF LoneInv, Lone
<1>5. CASE Overrun(t)
  <2>1. \A u \in Threads : stack'[u] = IF u = t THEN "overrun" ELSE stack[u]
    BY <1>5 DEF Overrun, LifeType
  <2>2. UNCHANGED <<state, timer, fault, schedLock, pc>>
    BY <1>5 DEF Overrun, listVars, callVars
  <2> QED BY <1>0, <1>1, <2>1, <2>2 DEF LoneInv, Lone
<1>6. ASSUME NEW u \in Threads, u # t, End(u), fault' = fault \/ fault' = [fault EXCEPT ![u] = "KILLED"]
      PROVE  LoneInv'
  <2>1. \A v \in Threads : /\ state'[v] = IF v = u THEN "DEAD" ELSE state[v]
                           /\ pc'[v] = IF v = u THEN "run" ELSE pc[v]
                           /\ timer'[v] \in {timer[v], Never}
                           /\ fault'[v] = fault[v] \/ v = u
    BY <1>6 DEF End, Detach, StateType, CallType, ListType, LifeType
  <2>2. UNCHANGED <<stack, schedLock>>
    BY <1>6 DEF End
  <2> QED BY <1>0, <1>1, <1>6, <2>1, <2>2 DEF LoneInv, Lone
<1>7. CASE Ending(t)
  <2>1. ASSUME NEW u \in Killable, Kill(t, u) PROVE LoneInv'
    BY <1>6, <2>1, KernelAssumption DEF Kill
  <2>2. ASSUME NEW u \in Stoppable, Stop(t, u) PROVE LoneInv'
    <3>1. CASE End(u) /\ fault' = [fault EXCEPT ![u] = "KILLED"]
      BY <1>6, <2>2, <3>1, KernelAssumption DEF Stop
    <3>2. CASE UNCHANGED <<state, listVars, stack, fault, callVars, schedLock>>
      BY <1>2, <3>2 DEF listVars, callVars
    <3> QED BY <2>2, <3>1, <3>2 DEF Stop
  <2> QED BY <1>4, <1>5, <1>7, <2>1, <2>2 DEF Ending
<1>8. CASE Prioritising(t) \/ Yield(t)
  BY <1>2, <1>8 DEF Prioritising, PrioritySet, SetBoost, Yield, listVars, lifeVars, callVars, CallType
<1> QED BY <1>3, <1>7, <1>8 DEF Call

LEMMA LoneInductive ==
  ASSUME Waitqs = {}, Sleeps = {}, TypeOK, LoneInv, [Next]_vars
  PROVE  LoneInv'
<1>1. CASE Inside
  BY <1>1, InsideAlone
<1>2. CASE Interrupt
  <2>1. Tick
    BY <1>2, NothingToWaitOn DEF Interrupt
  <2>2. \A t \in Threads : timer'[t] = timer[t]
    BY <2>1, NeverIsNoTick DEF Tick, LoneInv, Lone
  <2> QED BY <2>1, <2>2 DEF Tick, LoneInv, Lone, lifeVars, callVars
<1>3. ASSUME NEW t \in Threads, Call(t) PROVE LoneInv'
  BY <1>3, CallAlone
<1>4. ASSUME NEW t \in Threads, Release(t) PROVE LoneInv'
  <2>1. \A u \in Threads : fault'[u] # "NONE" => fault[u] # "NONE"
    BY <1>4 DEF Release, TypeOK, LifeType
  <2> QED BY <1>4, <2>1 DEF Release, LoneInv, Lone, listVars, callVars
<1>5. ASSUME NEW t \in Threads, NEW p \in NewPrios, Create(t, p) PROVE LoneInv'
  <2>1. current # t /\ fault[t] = "NONE"
    BY <1>5 DEF Create, Free, LoneInv, Lone
  <2>2. \A u \in Threads : /\ timer'[u] \in {timer[u], Never}
                           /\ state'[u] = IF u = t THEN "READY" ELSE state[u]
                           /\ stack'[u] = IF u = t THEN "ok" ELSE stack[u]
                           /\ pc'[u] = IF u = t THEN "run" ELSE pc[u]
    BY <1>5 DEF Create, TypeOK, ListType, CallType, StateType, LifeType
  <2>3. UNCHANGED <<crashed, current, schedLock, fault>>
    BY <1>5 DEF Create
  <2> QED BY <2>1, <2>2, <2>3 DEF LoneInv, Lone
<1>6. CASE UNCHANGED vars
  BY <1>6 DEF vars, LoneInv, Lone, listVars, lifeVars, callVars
<1> QED BY <1>1, <1>2, <1>3, <1>4, <1>5, <1>6 DEF Next

\* A thread that overruns its stack is stopped at its next switch, stays the corpse
\* it became, and neither it nor a stack given away is ever resumed -- with kills,
\* stops, exits and slots used again, where there is nothing to wait on.
THEOREM OverrunsStayOff ==
  ASSUME Waitqs = {}, Sleeps = {} PROVE Spec => DeadStayOff
<1>1. Init => LoneInv
  <2> SUFFICES ASSUME Init PROVE LoneInv
    OBVIOUS
  <2>1. ASSUME NEW t \in Threads PROVE Lone(t)
    <3>1. current # t /\ timer[t] = Never /\ pc[t] = "run" /\ fault[t] = "NONE"
      BY HostIsNoThread DEF Init
    <3>2. \/ state[t] = "DEAD" /\ stack[t] = "none"
          \/ state[t] = "READY" /\ stack[t] = "ok"
      BY DEF Init
    <3> QED BY <3>1, <3>2 DEF Lone
  <2> QED BY <2>1 DEF Init, LoneInv
<1>2. TypeOK /\ LoneInv /\ [Next]_vars => LoneInv'
  BY LoneInductive
<1>3. LoneInv' =>
        [/\ LoadsSavedContext'
         /\ \A t \in Threads : fault[t] # "NONE" /\ fault'[t] # "NONE" => state'[t] = "DEAD"]_vars
  BY DEF LoneInv, Lone, LoadsSavedContext
<1> QED BY <1>1, <1>2, <1>3, TypeCorrect, PTL DEF Spec, DeadStayOff
=============================================================================
