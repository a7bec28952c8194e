------------------------------- MODULE RvProc -------------------------------
(***************************************************************************)
(* The process table: components/rv9_proc/src/proc.c, for processes of the *)
(* ordinary class, on RV-9's own kernel.                                   *)
(*                                                                         *)
(* One action per stretch of code that runs under the table's lock, with   *)
(* what it does on either side that no other process can come between.     *)
(* The hooks into the I/O manager (claims, paths, failsafes) run between   *)
(* those stretches, and may sleep; a process may be stopped there.         *)
(***************************************************************************)
EXTENDS Naturals, Sequences, FiniteSets, SequencesExt, FiniteSetsExt

CONSTANTS
  Descs,       \* descriptors there is memory for
  Slots,       \* thread slots of the kernel
  Sys,         \* the boot task, which is not a process
  Mods,        \* modules
  Foot,        \* what a process of a module costs
  Budget,      \* what it may hold with everything it starts
  MaxPid,      \* the last pid; 65535
  MaxSerial,   \* bound: how many forks are charged
  History,     \* PROC_HISTORY
  HistoryMax,  \* PROC_HISTORY_MAX
  MaxAncestors,\* PROC_ANCESTORS
  StopsAt,     \* where rv9_task_kill may find a process without a lock
  FaultsAt,    \* where one may be found off its stack
  MayAskUnborn,\* whether a process is asked about before fork returned its pid
  ChainEnds,   \* when a chain may be refused: FALSE before the old module is
               \* given back, TRUE after, when there are no statics for the new
  Nil

\* rv9_proc_t, and the serials of those whose budgets it is charged to.
Charges == BoundedSeq(1..MaxSerial, MaxAncestors)
ProcRecord == [pid : 1..MaxPid, serial : 1..MaxSerial, parent : 0..MaxPid,
               task : Slots \cup {Nil}, mod : Mods, state : {"active", "exited"},
               anc : Charges, foot : Nat, held : Nat, budget : Nat, refs : Nat,
               collecting : BOOLEAN, waited : BOOLEAN]

ASSUME ProcAssumption ==
  /\ IsFiniteSet(Descs) /\ IsFiniteSet(Slots) /\ IsFiniteSet(Mods)
  /\ Sys \notin Slots /\ Nil \notin Descs \cup Slots \cup Mods /\ Nil \notin ProcRecord
  /\ Foot \in [Mods -> Nat] /\ Budget \in [Mods -> Nat]
  /\ MaxPid \in Nat \ {0} /\ MaxSerial \in Nat
  /\ History \in Nat /\ HistoryMax \in Nat /\ History <= HistoryMax
  /\ MaxAncestors \in Nat \ {0} /\ MayAskUnborn \in BOOLEAN /\ ChainEnds \subseteq BOOLEAN

VARIABLES
  proc,        \* descriptors: records, or Nil where the memory is free
  list,        \* s_procs, the newest first
  ended,       \* the exited of them in the order of ended_seq
  next_pid, next_serial,
  links,       \* how often each module is linked
  thread,      \* slots: "free", "live", or "dead" and not yet reaped
  body,        \* whose trampoline a thread runs
  pc, job,     \* where a thread is, and what it has in hand
  lost         \* what was in the hands of threads that were stopped

table == <<proc, list, ended>>
issued == <<next_pid, next_serial>>
kernel == <<thread, body>>
vars == <<proc, list, ended, next_pid, next_serial, links, thread, body, pc, job, lost>>

Actors == Slots \cup {Sys}
NoJob == [pid |-> 0, serial |-> 0, anc |-> <<>>, mod |-> Nil, desc |-> Nil, back |-> "idle"]

Forking == {"claim", "insert", "refuse"}      \* charged, not in the table
Points == Forking \cup {"idle", "create", "undo", "chain", "swap", "exit", "bury", "wait", "why",
           "kill", "funeral", "watch", "collect", "reap", "none"}

Init ==
  /\ proc = [d \in Descs |-> Nil] /\ list = <<>> /\ ended = <<>>
  /\ next_pid = 1 /\ next_serial = 1 /\ links = [m \in Mods |-> 0]
  /\ thread = [t \in Slots |-> "free"] /\ body = [t \in Slots |-> Nil]
  /\ pc = [a \in Actors |-> IF a = Sys THEN "idle" ELSE "none"]
  /\ job = [a \in Actors |-> NoJob] /\ lost = {}

Listed == {d \in Descs : proc[d] # Nil}
Living == {d \in Listed : proc[d].state = "active"}
Named(pid) == {d \in Listed : proc[d].pid = pid}       \* find_locked

\* rv9_mod_link, of a module whose image can be had, and rv9_mod_unlink.
LinkedIn(L, m) == [L EXCEPT ![m] = @ + 1]
UnlinkedIn(L, m) == [L EXCEPT ![m] = IF @ > 0 THEN @ - 1 ELSE 0]

Goes(a, x, y) == pc[a] = x /\ pc' = [pc EXCEPT ![a] = y]
Idles(a, x) == Goes(a, x, "idle") /\ job' = [job EXCEPT ![a] = NoJob]

\* current_locked: the first descriptor with this task, whatever its state.
Current(a) == LET of == {i \in DOMAIN list : proc[list[i]].task = a}
              IN IF of = {} THEN Nil ELSE list[Min(of)]

(***************************************************************************)
(* How long a process is remembered.                                       *)
(***************************************************************************)
ParentMayWait(d) ==
  proc[d].parent = 0 \/ \E q \in Named(proc[d].parent) : proc[q].state # "exited"

Forgettable(d) == proc[d].refs = 0 /\ ~proc[d].collecting

Oldest(s, n) == Range(SubSeq(s, 1, Min({n, Len(s)})))
Beyond(n, limit) == IF n > limit THEN n - limit ELSE 0

\* What of a sequence is in a set, in its order.
Only(s, S) ==
  LET those == {i \in DOMAIN s : s[i] \in S}
  IN [k \in 1..Cardinality(those) |->
        s[CHOOSE i \in those : Cardinality({j \in those : j <= i}) = k]]

\* prune_locked: the oldest of any kind beyond HistoryMax, then the oldest
\* that nobody will ask about beyond History.
Victims ==
  LET any == Only(ended, {d \in Listed : Forgettable(d)})
      first == Oldest(any, Beyond(Len(ended), HistoryMax))
      left == Len(ended) - Cardinality(first)
      done == Only(any, {d \in Listed \ first : proc[d].waited \/ ~ParentMayWait(d)})
  IN first \cup (IF left > HistoryMax THEN {} ELSE Oldest(done, Beyond(left, History)))

Keep(s, gone) == Only(s, Descs \ gone)
Pruned(gone) == [d \in Descs |-> IF d \in gone THEN Nil ELSE proc[d]]

(***************************************************************************)
(* Budgets.                                                                *)
(***************************************************************************)
Ancestors(a) ==
  LET p == Current(a)
      all == <<proc[p].serial>> \o proc[p].anc
  IN IF p = Nil \/ proc[p].state = "exited" THEN <<>>
     ELSE SubSeq(all, 1, Min({Len(all), MaxAncestors}))

\* Bug: only the parent's own budget is asked.
WouldOverdrawParent(anc, bytes) ==
  anc # <<>> /\ \E q \in Living : proc[q].serial = anc[1] /\ proc[q].held + bytes > proc[q].budget

WouldOverdraw(anc, bytes) ==
  \E q \in Living : proc[q].serial \in Range(anc) /\ proc[q].held + bytes > proc[q].budget

Charged(P, anc, bytes) ==
  [q \in Descs |-> IF P[q] # Nil /\ P[q].serial \in Range(anc)
                   THEN [P[q] EXCEPT !.held = @ + bytes] ELSE P[q]]

Uncharged(P, anc, bytes) ==
  [q \in Descs |-> IF P[q] # Nil /\ P[q].serial \in Range(anc)
                   THEN [P[q] EXCEPT !.held = IF @ > bytes THEN @ - bytes ELSE 0] ELSE P[q]]

\* ended_locked.
Ended(P, d) ==
  [Uncharged(P, P[d].anc, P[d].foot) EXCEPT
     ![d].state = "exited", ![d].anc = <<>>, ![d].held = 0]

(***************************************************************************)
(* Fork.                                                                   *)
(***************************************************************************)
\* next_pid_locked, after pruning, and the next one after it.
After(pid) == IF pid >= MaxPid THEN 1 ELSE pid + 1
Distance(pid) == (pid + MaxPid - next_pid) % MaxPid
Unused(gone) == {i \in 1..MaxPid : Named(i) \subseteq gone}
NextPid(gone) == CHOOSE i \in Unused(gone) : \A j \in Unused(gone) : Distance(i) <= Distance(j)
InFlight(pid) == \E a \in Actors : pc[a] \in Forking /\ job[a].pid = pid

\* Link the module (or nothing happens: RV9_PROC_ERR_MODULE), prune, take a number,
\* charge.  Bound: nobody forks so often that a number comes round again while the
\* fork it was given to is under way.
ForkCharged(a, m) ==
  LET gone == Victims
      pid == NextPid(gone)
      anc == Ancestors(a)
  IN /\ Goes(a, "idle", "claim") /\ next_serial <= MaxSerial
     /\ Unused(gone) # {} /\ ~InFlight(pid)
     /\ Foot[m] <= Budget[m] /\ ~WouldOverdraw(anc, Foot[m])
     /\ links' = LinkedIn(links, m)
     /\ list' = Keep(list, gone) /\ ended' = Keep(ended, gone)
     /\ proc' = Charged(Pruned(gone), anc, Foot[m])
     /\ next_pid' = After(pid) /\ next_serial' = next_serial + 1
     /\ job' = [job EXCEPT ![a] = [NoJob EXCEPT !.pid = pid, !.serial = next_serial,
                                               !.anc = anc, !.mod = m]]
     /\ UNCHANGED <<kernel, lost>>

\* RV9_PROC_ERR_BUDGET, or no pid: a number is spent, and nothing else.
ForkOverBudget(a, m) ==
  LET gone == Victims
      pid == NextPid(gone)
  IN /\ pc[a] = "idle"
     /\ \/ Unused(gone) = {} /\ UNCHANGED next_pid
        \/ /\ Unused(gone) # {} /\ next_pid' = After(pid)
           /\ Foot[m] > Budget[m] \/ WouldOverdraw(Ancestors(a), Foot[m])
     /\ list' = Keep(list, gone) /\ ended' = Keep(ended, gone) /\ proc' = Pruned(gone)
     /\ UNCHANGED <<next_serial, links, kernel, pc, job, lost>>

\* s_on_claim lets it have what it declared.
ForkAdmitted(a) ==
  Goes(a, "claim", "insert") /\ UNCHANGED <<table, issued, links, kernel, job, lost>>

\* It does not, or there is no memory.
ForkRefused(a) ==
  /\ pc[a] \in {"claim", "insert"} /\ pc' = [pc EXCEPT ![a] = "refuse"]
  /\ UNCHANGED <<table, issued, links, kernel, job, lost>>

\* refuse_fork, up to its hooks.
Refuse(a) ==
  /\ Goes(a, "refuse", "undo")
  /\ proc' = Uncharged(proc, job[a].anc, Foot[job[a].mod])
  /\ UNCHANGED <<list, ended, issued, links, kernel, job, lost>>

\* undo_fork and rv9_mod_unlink.
Undo(a) ==
  /\ Idles(a, "undo") /\ links' = UnlinkedIn(links, job[a].mod)
  /\ UNCHANGED <<table, issued, kernel, lost>>

Parent(a) == IF Current(a) = Nil THEN 0 ELSE proc[Current(a)].pid

ForkInserted(a, d) ==
  LET b == job[a] IN
  /\ Goes(a, "insert", "create") /\ proc[d] = Nil
  /\ proc' = [proc EXCEPT ![d] =
       [pid |-> b.pid, serial |-> b.serial, parent |-> Parent(a), task |-> Nil, mod |-> b.mod,
        state |-> "active", anc |-> b.anc, foot |-> Foot[b.mod],
        held |-> Foot[b.mod], budget |-> Budget[b.mod], refs |-> 1,
        collecting |-> FALSE, waited |-> FALSE]]
  /\ list' = <<d>> \o list
  /\ job' = [job EXCEPT ![a].desc = d]
  /\ UNCHANGED <<ended, issued, links, kernel, lost>>

\* s_on_fork, and a thread for it.
ForkStarted(a, t) ==
  LET d == job[a].desc IN
  /\ pc[a] = "create" /\ thread[t] = "free"
  /\ thread' = [thread EXCEPT ![t] = "live"] /\ body' = [body EXCEPT ![t] = d]
  /\ pc' = [pc EXCEPT ![a] = "idle", ![t] = "idle"]
  /\ job' = [job EXCEPT ![a] = NoJob, ![t] = NoJob]
  /\ proc' = [proc EXCEPT ![d].task = t]
  /\ UNCHANGED <<list, ended, issued, links, lost>>

\* No thread: the descriptor stays, marked dead, with nobody to hold it.
ForkNotStarted(a) ==
  LET d == job[a].desc IN
  /\ Goes(a, "create", "undo")
  /\ proc' = [Ended(proc, d) EXCEPT ![d].refs = 0]
  /\ ended' = Append(ended, d)
  /\ UNCHANGED <<list, issued, links, kernel, job, lost>>

(***************************************************************************)
(* The trampoline: chain, and finish.                                      *)
(***************************************************************************)
\* The module returned with another one named, which is linked.
ChainLinked(t, m) ==
  /\ Goes(t, "idle", "chain") /\ t \in Slots
  /\ links' = LinkedIn(links, m) /\ job' = [job EXCEPT ![t].mod = m]
  /\ UNCHANGED <<table, issued, kernel, lost>>

\* The old module is given back, with no lock, while the descriptor still names it.
ChainSwapped(t) ==
  /\ Goes(t, "chain", "swap")
  /\ links' = UnlinkedIn(links, proc[body[t]].mod)
  /\ UNCHANGED <<table, issued, kernel, job, lost>>

\* The table's lock is had, perhaps after a sleep: the descriptor names the new one.
Chained(t) ==
  /\ Idles(t, "swap")
  /\ proc' = [proc EXCEPT ![body[t]].mod = job[t].mod]
  /\ UNCHANGED <<list, ended, issued, links, kernel, lost>>

\* What it declares is refused, its arena does not fit, or, with the module it
\* was given back, there is no room for its statics: the process ends.
ChainRefused(t, swapped) ==
  /\ Goes(t, IF swapped THEN "swap" ELSE "chain", "exit")
  /\ links' = UnlinkedIn(links, job[t].mod)
  /\ job' = [job EXCEPT ![t] = NoJob]
  /\ UNCHANGED <<table, issued, kernel, lost>>

\* finish, up to the end of s_on_exit.
Exit(t) ==
  Goes(t, "idle", "exit") /\ t \in Slots /\ UNCHANGED <<table, issued, links, kernel, job, lost>>

Finish(t) ==
  LET d == body[t] IN
  /\ Goes(t, "exit", "bury")
  /\ proc' = Ended(proc, d) /\ ended' = Append(ended, d)
  /\ UNCHANGED <<list, issued, links, kernel, job, lost>>

\* s_on_ended, the module, the statics, the task's own hold, the task.
Bury(t) ==
  LET d == body[t] IN
  /\ Goes(t, "bury", "none")
  /\ links' = UnlinkedIn(links, proc[d].mod)
  /\ proc' = [proc EXCEPT ![d].refs = IF @ > 0 THEN @ - 1 ELSE 0]
  /\ thread' = [thread EXCEPT ![t] = "free"] /\ body' = [body EXCEPT ![t] = Nil]
  /\ UNCHANGED <<list, ended, issued, job, lost>>

(***************************************************************************)
(* Collecting the killed.                                                  *)
(***************************************************************************)
\* Bug: two passers-by may hold one funeral.
FaultedByAnyone(d) ==
  /\ proc[d].state # "exited"
  /\ proc[d].task # Nil /\ thread[proc[d].task] # "live"

\* claim_faulted_locked, where it claims.
Faulted(d) ==
  /\ proc[d].state # "exited" /\ ~proc[d].collecting
  /\ proc[d].task # Nil /\ thread[proc[d].task] # "live"

\* Whoever looked holds the funeral: s_on_exit is under way at "collect".
Claimed(a, d, back) ==
  /\ Faulted(d)
  /\ pc' = [pc EXCEPT ![a] = "collect"] /\ job' = [job EXCEPT ![a].back = back]
  /\ proc' = [proc EXCEPT ![d].collecting = TRUE]

\* collect_faulted, its stretch under the lock.
Collect(a) ==
  LET d == job[a].desc IN
  /\ Goes(a, "collect", "reap")
  /\ proc' = [Ended(proc, d) EXCEPT ![d].task = Nil, ![d].collecting = FALSE]
  /\ ended' = Append(ended, d)
  /\ job' = [job EXCEPT ![a].mod = proc[d].mod]
  /\ UNCHANGED <<list, issued, links, kernel, lost>>

\* Bug: the dead task's own hold is left.
ReapHeld(a) ==
  LET d == job[a].desc IN
  /\ Goes(a, "reap", job[a].back)
  /\ links' = UnlinkedIn(links, job[a].mod)
  /\ thread' = [t \in Slots |-> IF thread[t] = "dead" /\ body[t] = d THEN "free" ELSE thread[t]]
  /\ body' = [t \in Slots |-> IF thread[t] = "dead" /\ body[t] = d THEN Nil ELSE body[t]]
  /\ job' = [job EXCEPT ![a].mod = Nil]
  /\ UNCHANGED <<table, issued, lost>>

\* s_on_ended, the module, the statics, the slot, the dead task's hold.
Reap(a) ==
  LET d == job[a].desc IN
  /\ Goes(a, "reap", job[a].back)
  /\ links' = UnlinkedIn(links, job[a].mod)
  /\ thread' = [t \in Slots |-> IF thread[t] = "dead" /\ body[t] = d THEN "free" ELSE thread[t]]
  /\ body' = [t \in Slots |-> IF thread[t] = "dead" /\ body[t] = d THEN Nil ELSE body[t]]
  /\ proc' = [proc EXCEPT ![d].refs = IF @ > 0 THEN @ - 1 ELSE 0]
  /\ job' = [job EXCEPT ![a].mod = Nil]
  /\ UNCHANGED <<list, ended, issued, lost>>

(***************************************************************************)
(* Wait, which looks every 5 ms, and wait_why, which then looks again.     *)
(***************************************************************************)
Hold(a, d, x) ==
  /\ Goes(a, "idle", x)
  /\ MayAskUnborn \/ proc[d].task # Nil \/ proc[d].state = "exited"
  /\ proc' = [proc EXCEPT ![d].refs = @ + 1]
  /\ job' = [job EXCEPT ![a] = [NoJob EXCEPT !.desc = d, !.pid = proc[d].pid,
                                             !.serial = proc[d].serial]]
  /\ UNCHANGED <<list, ended, issued, links, kernel, lost>>

Wait(a, d) == d \in Listed /\ Hold(a, d, "wait")

WaitCollects(a) ==
  /\ pc[a] = "wait" /\ Claimed(a, job[a].desc, "wait")
  /\ UNCHANGED <<list, ended, issued, links, kernel, lost>>

Dropped(d) == [proc EXCEPT ![d].refs = IF @ > 0 THEN @ - 1 ELSE 0]

\* It has exited: the status is read, and the hold let go.
WaitAnswered(a) ==
  LET d == job[a].desc IN
  /\ Goes(a, "wait", "why") /\ proc[d].state = "exited"
  /\ proc' = [Dropped(d) EXCEPT ![d].waited = TRUE]
  /\ UNCHANGED <<list, ended, issued, links, kernel, job, lost>>

WaitTimedOut(a) ==
  LET d == job[a].desc IN
  /\ Idles(a, "wait") /\ proc[d].state # "exited" /\ proc' = Dropped(d)
  /\ UNCHANGED <<list, ended, issued, links, kernel, lost>>

\* wait_why reads the fault of whoever has the number now.
WaitWhy(a) == Idles(a, "why") /\ UNCHANGED <<table, issued, links, kernel, lost>>

(***************************************************************************)
(* Kill.                                                                   *)
(***************************************************************************)
Kill(a, d) ==
  /\ a \in Slots /\ d \in Living /\ d # Current(a) /\ Hold(a, d, "kill")

\* What a thread had in hand when it was stopped stays as it was.
Died(t) ==
  /\ thread' = [thread EXCEPT ![t] = "dead"]
  /\ lost' = IF pc[t] = "idle" \/ pc[t] = "exit" THEN lost
             ELSE lost \cup {[at |-> pc[t], job |-> job[t], of |-> proc[body[t]].serial]}

\* Checked and stopped under the lock: nothing to stop, or stopped.
KillDone(a) ==
  LET d == job[a].desc
      t == proc[d].task
  IN /\ pc[a] = "kill"
     /\ \/ /\ proc[d].state = "exited" \/ proc[d].collecting \/ t = Nil
           /\ pc' = [pc EXCEPT ![a] = "funeral"] /\ UNCHANGED <<kernel, job, lost>>
        \/ /\ proc[d].state # "exited" /\ ~proc[d].collecting /\ t # Nil
           /\ thread[t] = "live" /\ pc[t] \in StopsAt
           /\ Died(t) /\ pc' = [pc EXCEPT ![a] = "funeral", ![t] = "none"]
           /\ job' = [job EXCEPT ![t] = NoJob] /\ UNCHANGED body
     /\ UNCHANGED <<table, issued, links>>

\* It would not be stopped, for KILL_WAIT_MS, or has already been.
KillGivesUp(a) ==
  /\ pc[a] \in {"kill", "watch"} /\ Idles(a, pc[a])
  /\ proc[job[a].desc].state # "exited"
  /\ pc[a] = "kill" => ~proc[job[a].desc].collecting /\ proc[job[a].desc].task # Nil
  /\ proc' = Dropped(job[a].desc)
  /\ UNCHANGED <<list, ended, issued, links, kernel, lost>>

\* The funeral is held now, if nobody else holds it.
KillFuneral(a) ==
  /\ pc[a] = "funeral"
  /\ \/ Claimed(a, job[a].desc, "watch")
     \/ ~Faulted(job[a].desc) /\ Goes(a, "funeral", "watch") /\ UNCHANGED <<proc, job>>
  /\ UNCHANGED <<list, ended, issued, links, kernel, lost>>

Killed(a) ==
  /\ Idles(a, "watch") /\ proc[job[a].desc].state = "exited"
  /\ proc' = Dropped(job[a].desc)
  /\ UNCHANGED <<list, ended, issued, links, kernel, lost>>

\* The scheduler's guard finds a thread off its stack as it switches away.
Faults(t) ==
  /\ thread[t] = "live" /\ pc[t] \in FaultsAt
  /\ Died(t) /\ pc' = [pc EXCEPT ![t] = "none"] /\ job' = [job EXCEPT ![t] = NoJob]
  /\ UNCHANGED <<table, issued, links, body>>

Step(a) ==
  \/ \E m \in Mods : ForkCharged(a, m) \/ ForkOverBudget(a, m)
  \/ ForkAdmitted(a) \/ ForkRefused(a) \/ Refuse(a) \/ Undo(a)
  \/ \E d \in Descs : ForkInserted(a, d)
  \/ \E t \in Slots : ForkStarted(a, t)
  \/ ForkNotStarted(a)
  \/ Collect(a) \/ Reap(a)
  \/ \E d \in Descs : Wait(a, d) \/ Kill(a, d)
  \/ WaitCollects(a) \/ WaitAnswered(a) \/ WaitTimedOut(a) \/ WaitWhy(a)
  \/ KillDone(a) \/ KillGivesUp(a) \/ KillFuneral(a) \/ Killed(a)

Body(t) ==
  \/ \E m \in Mods : ChainLinked(t, m)
  \/ \E swapped \in ChainEnds : ChainRefused(t, swapped)
  \/ ChainSwapped(t) \/ Chained(t) \/ Exit(t) \/ Finish(t) \/ Bury(t) \/ Faults(t)

Next == (\E a \in Actors : Step(a)) \/ (\E t \in Slots : Body(t))

Spec == Init /\ [][Next]_vars

(***************************************************************************)
(* What must hold.                                                         *)
(***************************************************************************)
HoldingPoints == {"wait", "kill", "funeral", "watch", "collect", "reap"}
Holders(d) == {a \in Actors : pc[a] \in HoldingPoints /\ job[a].desc = d}
LostAt(points) == {l \in lost : l.at \in points}

\* Every field has its type, and the two lists name what is in the table, once.
TypeOK ==
  /\ proc \in [Descs -> ProcRecord \cup {Nil}]
  /\ ToSet(list) = Listed /\ Len(list) = Cardinality(Listed)
  /\ ToSet(ended) = Listed \ Living /\ Len(ended) = Cardinality(Listed \ Living)
  /\ next_pid \in 1..MaxPid /\ next_serial \in 1..MaxSerial + 1
  /\ links \in [Mods -> Nat]
  /\ thread \in [Slots -> {"free", "live", "dead"}] /\ body \in [Slots -> Descs \cup {Nil}]
  /\ pc \in [Actors -> Points]

\* Nothing is forgotten while anybody holds it: who waits for a process, kills it
\* or buries it still has the descriptor it found, which is not another's by now;
\* and so has a thread the descriptor of its process.  A descriptor's count is of
\* those who hold it: whoever asks, those stopped while they asked, and the
\* process's own task until it is buried.
RefsAreHolds ==
  /\ TypeOK
  /\ \A t \in Slots : thread[t] # "free" => proc[body[t]] # Nil
  /\ \A a \in Actors : pc[a] \in HoldingPoints =>
       proc[job[a].desc] # Nil /\ proc[job[a].desc].serial = job[a].serial
  /\ \A d \in Listed :
       proc[d].refs = Cardinality(Holders(d))
                      + Cardinality({l \in LostAt(HoldingPoints) : l.job.serial = proc[d].serial})
                      + (IF \/ d \in Living
                            \/ \E t \in Slots : pc[t] = "bury" /\ body[t] = d
                            \/ \E a \in Actors : pc[a] = "reap" /\ job[a].desc = d
                            \/ \E l \in LostAt({"reap"}) : l.job.serial = proc[d].serial
                         THEN 1 ELSE 0)

\* What a process holds is its own cost, that of every living process charged to
\* it, and that of the forks under way or abandoned by a parent that was stopped;
\* and it is never more than its budget.
Heirs(s) == {e \in Living : s \in Range(proc[e].anc)}
Bills(s) == {a \in Actors : pc[a] \in Forking /\ s \in Range(job[a].anc)}
LostBills(s) == {l \in LostAt(Forking) : s \in Range(l.job.anc)}
Accounted ==
  \A d \in Living :
    LET s == proc[d].serial
    IN /\ proc[d].held = proc[d].foot + SumFunction([e \in Heirs(s) |-> proc[e].foot])
                         + SumFunction([a \in Bills(s) |-> Foot[job[a].mod]])
                         + SumFunction([l \in LostBills(s) |-> Foot[l.job.mod]])
       /\ proc[d].held <= proc[d].budget

\* A module is linked once for every process that has not been buried and every
\* call that has it in hand, or was stopped with it: never given back twice, as
\* long as nobody is stopped between the two halves of a chain, where the old
\* module has been given back and the descriptor still names it. And what a killed
\* process had is not left for ever: as long as its thread's slot is taken,
\* anybody who looks may finish the job, unless somebody is at it, or was stopped
\* at it.
LinkPoints == Forking \cup {"undo", "chain", "swap", "reap"}
Between(d) == \E t \in Slots : pc[t] = "swap" /\ body[t] = d
LinksAreHeld ==
  /\ LostAt({"swap"}) = {} => \A m \in Mods :
       links[m] = Cardinality({d \in Living : proc[d].mod = m /\ ~Between(d)})
                  + Cardinality({t \in Slots : pc[t] = "bury" /\ proc[body[t]].mod = m})
                  + Cardinality({a \in Actors : pc[a] \in LinkPoints /\ job[a].mod = m})
                  + Cardinality({l \in LostAt(LinkPoints) : l.job.mod = m})
  /\ \A t \in Slots : thread[t] = "dead" =>
       \/ Faulted(body[t])
       \/ \E a \in Actors : pc[a] \in {"collect", "reap"} /\ job[a].desc = body[t]
       \/ \E l \in LostAt({"collect", "reap"}) : l.job.serial = proc[body[t]].serial

\* "The image is freed when the count reaches zero": a module is linked as long
\* as a thread is in its code.
CodeIsLinked ==
  \A t \in Slots : thread[t] = "live" /\ pc[t] \notin {"swap", "exit", "bury"} =>
    links[proc[body[t]].mod] > 0

=============================================================================
