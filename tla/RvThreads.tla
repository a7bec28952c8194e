----------------------------- MODULE RvThreads -----------------------------
(***************************************************************************)
(* What the layers above the kernel rely on of its thread table: kernel.h  *)
(* on thread_create, _kill, _stop, _exit and _release, with no queues, no  *)
(* clock and no priorities.                                                *)
(*                                                                         *)
(* A slot is free, or belongs to a thread that is alive, or to one that    *)
(* ended by itself or by a kill and is yet to be reaped, or to the corpse  *)
(* of one the kernel stopped, kept until whoever watches has read why.     *)
(***************************************************************************)
CONSTANTS Threads, Nobody

VARIABLES life, onCpu

Lives == {"free", "alive", "ended", "corpse"}

Init ==
  /\ life \in [Threads -> {"free", "alive"}]
  /\ onCpu = Nobody

Create(t) ==
  /\ life[t] = "free"
  /\ life' = [life EXCEPT ![t] = "alive"]
  /\ UNCHANGED onCpu

\* A thread exits, or another kills it.  It may still have the processor.
End(t) ==
  /\ life[t] = "alive"
  /\ life' = [life EXCEPT ![t] = "ended"]
  /\ UNCHANGED onCpu

\* Nobody is stopped while it has the processor.
Stop(t) ==
  /\ life[t] = "alive" /\ onCpu # t
  /\ life' = [life EXCEPT ![t] = "corpse"]
  /\ UNCHANGED onCpu

Release(t) ==
  /\ life[t] = "corpse"
  /\ life' \in {[life EXCEPT ![t] = "ended"], [life EXCEPT ![t] = "free"]}
  /\ UNCHANGED onCpu

\* The processor goes to a living thread, or to nobody, and every slot that
\* ended is free again but the one the switch leaves.
Switch ==
  /\ onCpu' = Nobody \/ (onCpu' \in Threads /\ life[onCpu'] = "alive")
  /\ life' = [t \in Threads |-> IF life[t] = "ended" /\ t # onCpu THEN "free" ELSE life[t]]

Next == Switch \/ \E t \in Threads : Create(t) \/ End(t) \/ Stop(t) \/ Release(t)

Spec == Init /\ [][Next]_<<life, onCpu>>
=============================================================================
