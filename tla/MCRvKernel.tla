----------------------------- MODULE MCRvKernel -----------------------------
(***************************************************************************)
(* Instances of RvKernel for TLC.  The .cfg files pick, per question, which *)
(* threads, wait queues and calls take part.                               *)
(***************************************************************************)
EXTENDS RvKernel, TLC

CONSTANTS s, m, items, room    \* a semaphore, a mutex, a queue's two lists

NoPartner == [w \in Waitqs |-> NoQ]
QueuePartner == [w \in Waitqs |-> IF w = items THEN room ELSE IF w = room THEN items ELSE NoQ]

\* A mutex is free, a semaphore empty, a queue empty and so all room.
StartCounts == [w \in Waitqs |-> IF w = m \/ w = room THEN 1 ELSE 0]
UpToOne == [w \in Waitqs |-> 1]
UpToTwo == [w \in Waitqs |-> IF w = s THEN 2 ELSE 1]

\* Timeouts: only without a deadline, or with one of a tick as well.
Forever == {Never}
ForeverOrOne == {Never, 1}

OnePriority == [t \in Threads |-> 1]
TwoPriorities == [t \in Threads |-> IF t = 1 THEN 2 ELSE 1]
LowestFirst == [t \in Threads |-> t - 1]

\* RV-9's own figures: RV9_PRIO_HIGH, beside RV9_PRIO_LOW or RV9_PRIO_IDLE.
HighAndLow == [t \in Threads |-> IF t = 1 THEN 12 ELSE 4]

\* One off its stack does not block: stack_fault would leave it on the list.
NoneBlocksOffStack == \A t \in Threads : stack[t] = "overrun" => pc'[t] # "block"
=============================================================================
