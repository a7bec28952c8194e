---------------------------- MODULE RvProcProofs ----------------------------
(***************************************************************************)
(* Proofs about the process table (RvProc): a descriptor's count is of     *)
(* those who hold it, and a module is linked once for every process that   *)
(* runs it and every call that has it in hand; and a process holds the     *)
(* cost of all that are charged to it.                                     *)
(*                                                                         *)
(* The invariant says who may hold what (Places) and that the counts are   *)
(* of those (HoldsCounted; LinkInv for the modules, and BillInv for sums   *)
(* of costs).  A step is sorted by its effect on that - fourteen kinds,    *)
(* Quiet to Dying - so that each part is shown once per kind, and each     *)
(* action to be of its kind.                                               *)
(***************************************************************************)
EXTENDS RvProc, RvLemmas, FiniteSetTheorems, SequenceTheorems, WellFoundedInduction, TLAPS

(***************************************************************************)
(* What of a sequence is in a set.                                         *)
(***************************************************************************)
\* Its rank in a finite set of numbers numbers the set from one.
LEMMA Ranks ==
  ASSUME NEW S, S \subseteq Nat, IsFiniteSet(S)
  PROVE  /\ \A i \in S : Cardinality({j \in S : j <= i}) \in 1..Cardinality(S)
         /\ \A i, k \in S :
              Cardinality({j \in S : j <= i}) = Cardinality({j \in S : j <= k}) => i = k
         /\ \A n \in 1..Cardinality(S) : \E i \in S : Cardinality({j \in S : j <= i}) = n
<1> DEFINE B(i) == {j \in S : j <= i}
<1>0. Cardinality(S) \in Nat BY FS_CardinalityType
<1>1. ASSUME NEW i \in S PROVE IsFiniteSet(B(i)) /\ Cardinality(B(i)) \in 1..Cardinality(S)
  <2>1. B(i) \subseteq S /\ i \in B(i) OBVIOUS
  <2>2. IsFiniteSet(B(i)) /\ Cardinality(B(i)) <= Cardinality(S) BY <2>1, FS_Subset
  <2>3. Cardinality(B(i)) \in Nat /\ Cardinality(B(i)) # 0
    <3> HIDE DEF B
    <3> QED BY <2>1, <2>2, FS_CardinalityType, FS_EmptySet
  <2> QED BY <1>0, <2>2, <2>3
<1>2. ASSUME NEW i \in S, NEW k \in S, i < k PROVE Cardinality(B(i)) # Cardinality(B(k))
  <2>1. B(i) \subseteq B(k) /\ k \in B(k) /\ k \notin B(i)
    <3>1. i \in Nat /\ k \in Nat /\ k <= k /\ ~(k <= i) BY <1>2
    <3>2. \A j \in S : j <= i => j <= k
      <4> SUFFICES ASSUME NEW j \in S, j <= i PROVE j <= k OBVIOUS
      <4>1. j \in Nat OBVIOUS
      <4> QED BY <1>2, <3>1, <4>1
    <3> QED BY <3>1, <3>2
  <2>2. IsFiniteSet(B(k)) BY <1>1
  <2> HIDE DEF B
  <2>3. B(i) # B(k) BY <2>1
  <2> QED BY <2>1, <2>2, <2>3, FS_Subset
<1>3. \A i, k \in S : Cardinality(B(i)) = Cardinality(B(k)) => i = k
  <2> SUFFICES ASSUME NEW i \in S, NEW k \in S, i # k PROVE Cardinality(B(i)) # Cardinality(B(k))
    OBVIOUS
  <2>1. i < k \/ k < i OBVIOUS
  <2> HIDE DEF B
  <2> QED BY <1>2, <2>1
<1>4. PICK T : T = 1..Cardinality(S) OBVIOUS
<1>5. IsFiniteSet(T) /\ Cardinality(T) = Cardinality(S)
  <2>1. IsFiniteSet(1..Cardinality(S)) /\ Cardinality(1..Cardinality(S)) = Cardinality(S)
    BY <1>0, FS_Interval
  <2> QED BY <1>4, <2>1
<1>6. PICK f : f = [i \in S |-> Cardinality(B(i))] OBVIOUS
<1> HIDE DEF B
<1>7. f \in [S -> T] BY <1>1, <1>4, <1>6
<1>8. \A i, k \in S : f[i] = f[k] => i = k BY <1>3, <1>6
<1>9. f \in Injection(S, T) BY <1>7, <1>8 DEF Injection, IsInjective
<1>10. f \in Surjection(S, T) BY <1>5, <1>9, FS_Injection
<1>11. \A n \in T : \E i \in S : f[i] = n BY <1>10 DEF Surjection
<1>12. \A n \in 1..Cardinality(S) : \E i \in S : Cardinality(B(i)) = n BY <1>4, <1>6, <1>11
<1> QED BY <1>1, <1>3, <1>12 DEF B

Once(s) == \A i, j \in DOMAIN s : s[i] = s[j] => i = j

LEMMA OnlyIs ==
  ASSUME NEW T, NEW s \in Seq(T), NEW S
  PROVE  /\ Only(s, S) \in Seq(T) /\ ToSet(Only(s, S)) = ToSet(s) \cap S
         /\ Once(s) => Once(Only(s, S))
<1>1. PICK those : those = {i \in DOMAIN s : s[i] \in S} OBVIOUS
<1>2. those \subseteq 1..Len(s) /\ those \subseteq Nat BY <1>1
<1>3. IsFiniteSet(those)
  <2>1. Len(s) \in Nat OBVIOUS
  <2>2. IsFiniteSet(1..Len(s)) BY <2>1, FS_Interval
  <2> QED BY <1>2, <2>2, FS_Subset
<1>4. PICK n \in Nat : n = Cardinality(those) BY <1>3, FS_CardinalityType
<1> DEFINE R(i) == Cardinality({j \in those : j <= i})
           at(k) == CHOOSE i \in those : R(i) = k
<1>5. /\ \A i \in those : R(i) \in 1..n
      /\ \A i, k \in those : R(i) = R(k) => i = k
      /\ \A k \in 1..n : \E i \in those : R(i) = k
  BY <1>2, <1>3, <1>4, Ranks
<1>6. Only(s, S) = [k \in 1..n |-> s[at(k)]] BY <1>1, <1>4 DEF Only
<1> HIDE DEF R
<1>7. ASSUME NEW k \in 1..n PROVE at(k) \in those /\ R(at(k)) = k BY <1>5
<1>8. ASSUME NEW i \in those PROVE at(R(i)) = i
  <2>1. R(i) \in 1..n BY <1>5
  <2>2. at(R(i)) \in those /\ R(at(R(i))) = R(i) BY <1>7, <2>1
  <2> HIDE DEF at
  <2> QED BY <1>5, <2>2
<1> HIDE DEF at
<1>9. PICK o : o = Only(s, S) OBVIOUS
<1>10. DOMAIN o = 1..n /\ \A k \in 1..n : o[k] = s[at(k)] BY <1>6, <1>9
<1>11. \A i \in those : s[i] \in T BY <1>1
<1>12. o \in Seq(T)
  <2>1. o \in [1..n -> T] BY <1>6, <1>7, <1>9, <1>11
  <2> QED BY <2>1
<1>13. ToSet(o) = ToSet(s) \cap S
  <2>1. ASSUME NEW x \in ToSet(o) PROVE x \in ToSet(s) \cap S
    <3>1. PICK k \in 1..n : x = s[at(k)] BY <1>10 DEF ToSet
    <3> QED BY <1>1, <1>7, <3>1 DEF ToSet
  <2>2. ASSUME NEW x \in ToSet(s) \cap S PROVE x \in ToSet(o)
    <3>1. PICK i \in DOMAIN s : x = s[i] BY DEF ToSet
    <3>2. i \in those BY <1>1, <2>2, <3>1
    <3>3. R(i) \in 1..n /\ o[R(i)] = x BY <1>5, <1>8, <1>10, <3>1, <3>2
    <3> QED BY <1>10, <3>3 DEF ToSet
  <2> QED BY <2>1, <2>2
<1>14. ASSUME Once(s) PROVE Once(o)
  <2> SUFFICES ASSUME NEW k \in 1..n, NEW l \in 1..n, o[k] = o[l] PROVE k = l
    BY <1>10 DEF Once
  <2>1. at(k) \in DOMAIN s /\ at(l) \in DOMAIN s BY <1>1, <1>7
  <2>2. at(k) = at(l) BY <1>10, <1>14, <2>1 DEF Once
  <2> QED BY <1>7, <2>2
<1> QED BY <1>9, <1>12, <1>13, <1>14

(***************************************************************************)
(* The table.                                                              *)
(***************************************************************************)
ProcTable == [Descs -> ProcRecord \cup {Nil}]

\* The same process at the same point of its life, whatever it holds or runs.
Alike(r, q) ==
  /\ r = Nil <=> q = Nil
  /\ q # Nil => /\ r.serial = q.serial /\ r.task = q.task /\ r.state = q.state
                /\ r.refs = q.refs /\ r.collecting = q.collecting
SameMod(r, q) == q # Nil => r.mod = q.mod

LEMMA ProcFacts ==
  /\ Nil \notin ProcRecord /\ Nil \notin Descs /\ Nil \notin Slots /\ Nil \notin Mods
  /\ Sys \notin Slots /\ IsFiniteSet(Descs) /\ IsFiniteSet(Slots) /\ IsFiniteSet(Actors)
  /\ Actors = Slots \cup {Sys} /\ Slots \subseteq Actors
  /\ \A m \in Mods : Foot[m] \in Nat /\ Budget[m] \in Nat
  /\ MaxPid \in Nat /\ MaxPid >= 1 /\ MaxSerial \in Nat /\ MaxAncestors \in Nat
<1>1. IsFiniteSet(Slots \cup {Sys}) BY ProcAssumption, FS_AddElement, FS_EmptySet
<1> QED BY <1>1, ProcAssumption DEF Actors

LEMMA HeldIs ==
  ASSUME NEW r \in ProcRecord, NEW h \in Nat
  PROVE  LET q == [r EXCEPT !.held = h]
         IN  q \in ProcRecord /\ Alike(q, r) /\ SameMod(q, r) /\ q # Nil /\ r # Nil
<1>1. [r EXCEPT !.held = h] \in ProcRecord BY DEF ProcRecord
<1>2. PICK q : q = [r EXCEPT !.held = h] OBVIOUS
<1>3. /\ q.serial = r.serial /\ q.task = r.task /\ q.state = r.state /\ q.refs = r.refs
      /\ q.collecting = r.collecting /\ q.mod = r.mod
  BY <1>2 DEF ProcRecord
<1> QED BY <1>1, <1>2, <1>3, ProcFacts DEF Alike, SameMod

LEMMA AlikeSame ==
  ASSUME NEW r
  PROVE  Alike(r, r) /\ SameMod(r, r)
BY DEF Alike, SameMod

LEMMA AlikeOn ==
  ASSUME NEW r, NEW q, NEW p
  PROVE  /\ Alike(r, q) /\ Alike(q, p) => Alike(r, p)
         /\ Alike(r, q) /\ SameMod(r, q) /\ Alike(q, p) /\ SameMod(q, p) => SameMod(r, p)
BY DEF Alike, SameMod

LEMMA ChargedIs ==
  ASSUME NEW P \in ProcTable, NEW anc, NEW bytes \in Nat
  PROVE  /\ Charged(P, anc, bytes) \in ProcTable
         /\ \A d \in Descs : /\ Alike(Charged(P, anc, bytes)[d], P[d])
                             /\ SameMod(Charged(P, anc, bytes)[d], P[d])
<1>1. PICK Q : Q = Charged(P, anc, bytes) OBVIOUS
<1>2. Q = [d \in Descs |-> Q[d]] BY <1>1 DEF Charged
<1>3. ASSUME NEW d \in Descs
      PROVE  Q[d] \in ProcRecord \cup {Nil} /\ Alike(Q[d], P[d]) /\ SameMod(Q[d], P[d])
  <2>1. CASE P[d] # Nil /\ P[d].serial \in Range(anc)
    <3>1. P[d] \in ProcRecord /\ P[d].held \in Nat BY <2>1 DEF ProcTable, ProcRecord
    <3>2. PICK h \in Nat : h = P[d].held + bytes BY <3>1
    <3>3. Q[d] = [P[d] EXCEPT !.held = h] BY <1>1, <2>1, <3>2 DEF Charged
    <3> QED BY <3>1, <3>3, HeldIs
  <2>2. CASE ~(P[d] # Nil /\ P[d].serial \in Range(anc))
    <3>1. Q[d] = P[d] BY <1>1, <2>2 DEF Charged
    <3> QED BY <3>1, AlikeSame DEF ProcTable
  <2> QED BY <2>1, <2>2
<1> QED BY <1>1, <1>2, <1>3 DEF ProcTable

LEMMA UnchargedIs ==
  ASSUME NEW P \in ProcTable, NEW anc, NEW bytes \in Nat
  PROVE  /\ Uncharged(P, anc, bytes) \in ProcTable
         /\ \A d \in Descs : /\ Alike(Uncharged(P, anc, bytes)[d], P[d])
                             /\ SameMod(Uncharged(P, anc, bytes)[d], P[d])
<1>1. PICK Q : Q = Uncharged(P, anc, bytes) OBVIOUS
<1>2. Q = [d \in Descs |-> Q[d]] BY <1>1 DEF Uncharged
<1>3. ASSUME NEW d \in Descs
      PROVE  Q[d] \in ProcRecord \cup {Nil} /\ Alike(Q[d], P[d]) /\ SameMod(Q[d], P[d])
  <2>1. CASE P[d] # Nil /\ P[d].serial \in Range(anc)
    <3>1. P[d] \in ProcRecord /\ P[d].held \in Nat BY <2>1 DEF ProcTable, ProcRecord
    <3>2. PICK h \in Nat : h = IF P[d].held > bytes THEN P[d].held - bytes ELSE 0 BY <3>1
    <3>3. Q[d] = [P[d] EXCEPT !.held = h] BY <1>1, <2>1, <3>2 DEF Uncharged
    <3> QED BY <3>1, <3>3, HeldIs
  <2>2. CASE ~(P[d] # Nil /\ P[d].serial \in Range(anc))
    <3>1. Q[d] = P[d] BY <1>1, <2>2 DEF Uncharged
    <3> QED BY <3>1, AlikeSame DEF ProcTable
  <2> QED BY <2>1, <2>2
<1> QED BY <1>1, <1>2, <1>3 DEF ProcTable

LEMMA NoCharges == <<>> \in Charges
<1>1. 0 \in 0..MaxAncestors BY ProcFacts
<1>2. <<>> \in [1..0 -> 1..MaxSerial] OBVIOUS
<1> QED BY <1>1, <1>2 DEF Charges, BoundedSeq, SeqOf

\* What ended_locked leaves of a process.
LEMMA EndedIs ==
  ASSUME NEW P \in ProcTable, NEW d \in Descs, P[d] # Nil
  PROVE  LET Q == Ended(P, d)
         IN  /\ Q \in ProcTable /\ Q[d] # Nil
             /\ Q[d].state = "exited" /\ Q[d].serial = P[d].serial /\ Q[d].task = P[d].task
             /\ Q[d].refs = P[d].refs /\ Q[d].collecting = P[d].collecting
             /\ Q[d].mod = P[d].mod
             /\ \A e \in Descs \ {d} : Alike(Q[e], P[e]) /\ SameMod(Q[e], P[e])
<1>1. P[d] \in ProcRecord BY DEF ProcTable
<1>2. P[d].foot \in Nat BY <1>1 DEF ProcRecord
<1>3. PICK U : U = Uncharged(P, P[d].anc, P[d].foot) OBVIOUS
<1>4. /\ U \in ProcTable
      /\ \A e \in Descs : Alike(U[e], P[e]) /\ SameMod(U[e], P[e])
  BY <1>2, <1>3, UnchargedIs
<1>5. PICK r \in ProcRecord : r = U[d] BY <1>4 DEF ProcTable, Alike
<1>6. PICK q : q = [r EXCEPT !.state = "exited", !.anc = <<>>, !.held = 0] OBVIOUS
<1>7. Ended(P, d) = [U EXCEPT ![d] = q]
  <2>1. Ended(P, d) = [U EXCEPT ![d].state = "exited", ![d].anc = <<>>, ![d].held = 0]
    BY <1>3 DEF Ended
  <2> QED BY <1>4, <1>5, <1>6, <2>1 DEF ProcTable
<1>8. /\ q \in ProcRecord /\ q.state = "exited" /\ q.serial = r.serial /\ q.task = r.task
      /\ q.refs = r.refs /\ q.collecting = r.collecting /\ q.mod = r.mod
  BY <1>5, <1>6, NoCharges DEF ProcRecord
<1>9. PICK Q : Q = Ended(P, d) OBVIOUS
<1>10. Q \in ProcTable /\ Q[d] = q /\ \A e \in Descs \ {d} : Q[e] = U[e]
  BY <1>4, <1>7, <1>8, <1>9 DEF ProcTable
<1>11. /\ r.serial = P[d].serial /\ r.task = P[d].task /\ r.refs = P[d].refs
       /\ r.collecting = P[d].collecting /\ r.mod = P[d].mod
  BY <1>4, <1>5 DEF Alike, SameMod
<1>12. q # Nil BY <1>8, ProcFacts
<1> QED BY <1>4, <1>8, <1>9, <1>10, <1>11, <1>12

(***************************************************************************)
(* The inductive invariant.                                                *)
(***************************************************************************)
JobRecord == [pid : 0..MaxPid, serial : 0..MaxSerial, anc : Charges, mod : Mods \cup {Nil},
              desc : Descs \cup {Nil}, back : {"idle", "wait", "watch"}]
LostRecord == [at : Points, job : JobRecord, of : 1..MaxSerial]

ProcTypes ==
  /\ proc \in ProcTable /\ next_pid \in 1..MaxPid /\ next_serial \in 1..MaxSerial + 1
  /\ links \in [Mods -> Nat]
  /\ thread \in [Slots -> {"free", "live", "dead"}] /\ body \in [Slots -> Descs \cup {Nil}]
  /\ pc \in [Actors -> Points] /\ job \in [Actors -> JobRecord]
  /\ lost \in SUBSET LostRecord /\ IsFiniteSet(lost)

ListsSound ==
  /\ list \in Seq(Descs) /\ Once(list) /\ ToSet(list) = Listed
  /\ ended \in Seq(Descs) /\ Once(ended) /\ ToSet(ended) = Listed \ Living

QuietPoints == {"idle", "claim", "insert", "refuse", "undo", "chain", "swap", "exit", "why"}
Undertaking == {"collect", "reap"}

\* A thread is one process's, and a process that has ended has nothing of it but
\* the end of its trampoline, or whoever buries it.
ThreadsSound == \A t \in Slots :
  /\ thread[t] = "live" <=> pc[t] # "none"
  /\ thread[t] = "free" <=> body[t] = Nil
  /\ body[t] # Nil => proc[body[t]] # Nil
  /\ thread[t] = "live" => (pc[t] = "bury" <=> proc[body[t]].state = "exited")
  /\ thread[t] = "dead" /\ proc[body[t]].state = "exited" =>
       \/ \E a \in Actors : pc[a] = "reap" /\ job[a].desc = body[t]
       \/ \E l \in lost : l.at = "reap" /\ l.job.serial = proc[body[t]].serial
  /\ \A u \in Slots : body[t] = body[u] /\ body[t] # Nil => t = u

\* A process between its fork's insertion and its thread is nobody's to find.
Born(d) == proc[d].state = "exited" \/ proc[d].task # Nil

TasksSound == \A d \in Descs : proc[d] # Nil =>
  /\ proc[d].state = "active" /\ proc[d].task = Nil => \A t \in Slots : body[t] # d
  /\ proc[d].state = "active" /\ proc[d].task # Nil => body[proc[d].task] = d
  /\ proc[d].collecting =>
       /\ proc[d].state = "active" /\ proc[d].task # Nil /\ thread[proc[d].task] = "dead"
       /\ \/ \E a \in Actors : pc[a] = "collect" /\ job[a].desc = d
          \/ \E l \in lost : l.at = "collect" /\ l.job.serial = proc[d].serial

Held(d, s) == d \in Descs /\ proc[d] # Nil /\ proc[d].serial = s /\ Born(d)
Buried(d) == proc[d].state = "exited" /\ \A t \in Slots : body[t] = d => thread[t] = "dead"

HoldsSound == \A a \in Actors :
  /\ pc[a] \in HoldingPoints => Held(job[a].desc, job[a].serial)
  /\ pc[a] = "collect" => proc[job[a].desc].collecting
  /\ pc[a] = "reap" => Buried(job[a].desc)

BuriersApart == \A a \in Actors : pc[a] \in Undertaking =>
  /\ job[a].back \in {"wait", "watch"}
  /\ \A b \in Actors : pc[b] \in Undertaking /\ job[b].desc = job[a].desc => a = b

MakersSound == \A a \in Actors : pc[a] = "create" =>
  /\ job[a].desc \in Descs /\ proc[job[a].desc] # Nil /\ proc[job[a].desc].serial = job[a].serial
  /\ ~Born(job[a].desc)
  /\ \A b \in Actors : pc[b] = "create" /\ job[b].desc = job[a].desc => a = b

ForksSound == \A a \in Actors : pc[a] \in {"claim", "insert"} =>
  /\ job[a].serial \in 1..MaxSerial /\ job[a].serial < next_serial
  /\ \A d \in Descs : proc[d] # Nil => proc[d].serial # job[a].serial
  /\ \A l \in lost : l.of # job[a].serial
  /\ \A b \in Actors : pc[b] \in {"claim", "insert"} /\ job[b].serial = job[a].serial => a = b

ModsSound == \A a \in Actors :
  /\ pc[a] \in Forking \cup {"create", "undo", "chain", "swap", "reap"} => job[a].mod \in Mods
  /\ pc[a] \in Forking => job[a].pid \in 1..MaxPid

\* What is known of those who were stopped with something in hand.
LostFits(l) ==
  /\ l.at \in HoldingPoints => \E d \in Descs :
       /\ Held(d, l.job.serial)
       /\ l.at = "collect" => proc[d].collecting
       /\ l.at = "reap" => Buried(d)
  /\ l.at \in Undertaking =>
       \A a \in Actors : pc[a] \in Undertaking => job[a].serial # l.job.serial
  /\ l.of < next_serial
  /\ \A d \in Descs : proc[d] # Nil /\ proc[d].serial = l.of =>
       Born(d) /\ (proc[d].state = "active" => thread[proc[d].task] = "dead")
LostSound == \A l \in lost : LostFits(l)

SerialsApart == \A d \in Descs : proc[d] # Nil =>
  /\ proc[d].serial < next_serial
  /\ \A e \in Descs : proc[e] # Nil /\ proc[e].serial = proc[d].serial => d = e

LostHolds(s) == {l \in lost : l.at \in HoldingPoints /\ l.job.serial = s}
Own(d) ==
  \/ proc[d].state = "active"
  \/ \E t \in Slots : pc[t] = "bury" /\ body[t] = d
  \/ \E a \in Actors : pc[a] = "reap" /\ job[a].desc = d
  \/ \E l \in lost : l.at = "reap" /\ l.job.serial = proc[d].serial

Counted(d) ==
  proc[d].refs = Cardinality(Holders(d)) + Cardinality(LostHolds(proc[d].serial))
                 + (IF Own(d) THEN 1 ELSE 0)
HoldsCounted == \A d \in Descs : proc[d] # Nil => Counted(d)

Places ==
  /\ ThreadsSound /\ TasksSound /\ HoldsSound /\ BuriersApart /\ MakersSound /\ ForksSound
  /\ ModsSound /\ LostSound /\ SerialsApart

ProcInv == ProcTypes /\ ListsSound /\ Places /\ HoldsCounted

(***************************************************************************)
(* What a step does, as far as the invariant tells steps apart.            *)
(***************************************************************************)
ModPoints == Forking \cup {"create", "undo", "chain", "swap", "reap"}
Furnished(y, j) == /\ y \in ModPoints => j.mod \in Mods
                   /\ y \in Forking => j.pid \in 1..MaxPid

\* One actor goes on, with something else in hand.
Moves(a, y, j) ==
  /\ pc'[a] = y /\ job'[a] = j /\ Furnished(y, j)
  /\ \A b \in Actors \ {a} : pc'[b] = pc[b] /\ job'[b] = job[b]

\* The table is as it was, but for one process at most.
Untouched == \A e \in Descs : Alike(proc'[e], proc[e])
Becomes(d, state, task, refs, collecting) ==
  /\ d \in Descs /\ proc[d] # Nil /\ proc'[d] # Nil /\ proc'[d].serial = proc[d].serial
  /\ proc'[d].state = state /\ proc'[d].task = task
  /\ proc'[d].refs = refs /\ proc'[d].collecting = collecting
  /\ \A e \in Descs \ {d} : Alike(proc'[e], proc[e])
Less(n) == IF n > 0 THEN n - 1 ELSE 0
Apart == UNCHANGED <<kernel, lost, next_serial>>

\* A fork under way, a chain, or the end of a call: no hold, and no life, changes.
Quiet(a, y, j) ==
  /\ pc[a] \in QuietPoints /\ y \in QuietPoints /\ Moves(a, y, j)
  /\ y \in {"claim", "insert"} =>
       pc[a] \in {"claim", "insert"} /\ j.serial = job[a].serial
  /\ Untouched /\ Apart

\* A fork begins: what nobody will ask about is forgotten (prune_locked).
Pruning(a, y, j, gone) ==
  /\ pc[a] = "idle" /\ Moves(a, y, j)
  /\ \/ y = "idle" /\ next_serial' = next_serial
     \/ y = "claim" /\ j.serial = next_serial /\ next_serial <= MaxSerial
        /\ next_serial' = next_serial + 1
  /\ \A d \in gone : proc[d] # Nil /\ proc[d].state = "exited" /\ proc[d].refs = 0
                     /\ proc'[d] = Nil
  /\ gone \subseteq Descs /\ \A d \in Descs \ gone : Alike(proc'[d], proc[d])
  /\ UNCHANGED <<kernel, lost>>

\* Its descriptor is in the table, held once.
Inserting(a, d, j) ==
  /\ pc[a] = "insert" /\ Moves(a, "create", j) /\ j.desc = d /\ j.serial = job[a].serial
  /\ d \in Descs /\ proc[d] = Nil
  /\ proc'[d] # Nil /\ proc'[d].serial = job[a].serial /\ proc'[d].state = "active"
  /\ proc'[d].task = Nil /\ proc'[d].refs = 1 /\ proc'[d].collecting = FALSE
  /\ \A e \in Descs \ {d} : Alike(proc'[e], proc[e])
  /\ Apart

\* There is a thread for it.
Starting(a, t, d) ==
  /\ pc[a] = "create" /\ job[a].desc = d /\ t \in Slots /\ thread[t] = "free"
  /\ thread'[t] = "live" /\ body'[t] = d
  /\ \A u \in Slots \ {t} : thread'[u] = thread[u] /\ body'[u] = body[u]
  /\ pc'[a] = "idle" /\ pc'[t] = "idle"
  /\ \A b \in Actors \ {a, t} : pc'[b] = pc[b] /\ job'[b] = job[b]
  /\ Becomes(d, proc[d].state, t, proc[d].refs, proc[d].collecting)
  /\ UNCHANGED <<lost, next_serial>>

\* There is none: it is dead, and nobody holds it.
Failing(a, d) ==
  /\ pc[a] = "create" /\ job[a].desc = d /\ Moves(a, "undo", job[a])
  /\ Becomes(d, "exited", proc[d].task, 0, proc[d].collecting)
  /\ Apart

\* Somebody waits for it, or is about to kill it.
Holding(a, d, y, j) ==
  /\ pc[a] = "idle" /\ y \in {"wait", "kill"} /\ Moves(a, y, j)
  /\ j.desc = d /\ j.serial = proc[d].serial /\ Born(d)
  /\ Becomes(d, proc[d].state, proc[d].task, proc[d].refs + 1, proc[d].collecting)
  /\ Apart

\* The hold is let go.
Dropping(a, d, y, j) ==
  /\ pc[a] \in {"wait", "kill", "watch"} /\ y \in {"why", "idle"} /\ Moves(a, y, j)
  /\ d = job[a].desc
  /\ Becomes(d, proc[d].state, proc[d].task, Less(proc[d].refs), proc[d].collecting)
  /\ Apart

\* A kill goes from one of its stretches to the next.
Passing(a, y) ==
  /\ pc[a] \in {"kill", "funeral"} /\ y \in {"funeral", "watch"} /\ Moves(a, y, job[a])
  /\ Untouched /\ Apart

\* A passer-by holds the funeral (claim_faulted_locked).
Claiming(a, d, j) ==
  /\ pc[a] \in {"wait", "funeral"} /\ Moves(a, "collect", j)
  /\ d = job[a].desc /\ j.desc = d /\ j.serial = job[a].serial /\ j.back \in {"wait", "watch"}
  /\ Faulted(d) /\ Becomes(d, proc[d].state, proc[d].task, proc[d].refs, TRUE)
  /\ Apart

\* What it left is marked as ended (collect_faulted).
Collecting(a, d, j) ==
  /\ pc[a] = "collect" /\ Moves(a, "reap", j)
  /\ d = job[a].desc /\ j.desc = d /\ j.serial = job[a].serial /\ j.back = job[a].back
  /\ Becomes(d, "exited", Nil, proc[d].refs, FALSE)
  /\ Apart

\* Its slot and its task's own hold are given back.
Reaping(a, d, j) ==
  /\ pc[a] = "reap" /\ Moves(a, job[a].back, j)
  /\ d = job[a].desc /\ j.desc = d /\ j.serial = job[a].serial
  /\ Becomes(d, proc[d].state, proc[d].task, Less(proc[d].refs), proc[d].collecting)
  /\ \A t \in Slots :
       IF thread[t] = "dead" /\ body[t] = d THEN thread'[t] = "free" /\ body'[t] = Nil
       ELSE thread'[t] = thread[t] /\ body'[t] = body[t]
  /\ UNCHANGED <<lost, next_serial>>

\* A process ends by itself (finish).
Finishing(t, d) ==
  /\ t \in Slots /\ pc[t] = "exit" /\ Moves(t, "bury", job[t]) /\ d = body[t]
  /\ Becomes(d, "exited", proc[d].task, proc[d].refs, proc[d].collecting)
  /\ Apart

\* Its task gives its own hold and its slot back.
Burying(t, d) ==
  /\ t \in Slots /\ pc[t] = "bury" /\ Moves(t, "none", job[t]) /\ d = body[t]
  /\ Becomes(d, proc[d].state, proc[d].task, Less(proc[d].refs), proc[d].collecting)
  /\ thread'[t] = "free" /\ body'[t] = Nil
  /\ \A u \in Slots \ {t} : thread'[u] = thread[u] /\ body'[u] = body[u]
  /\ UNCHANGED <<lost, next_serial>>

Remains(t) == [at |-> pc[t], job |-> job[t], of |-> proc[body[t]].serial]
\* A thread is stopped, or found off its stack, with whatever it has in hand.
Dying(a, t) ==
  /\ t \in Slots /\ thread[t] = "live" /\ pc[t] # "bury" /\ (a = t \/ pc[a] = "kill")
  /\ thread'[t] = "dead" /\ (\A u \in Slots \ {t} : thread'[u] = thread[u]) /\ body' = body
  /\ pc'[t] = "none" /\ job'[t] = NoJob
  /\ a # t => pc'[a] = "funeral" /\ job'[a] = job[a]
  /\ \A b \in Actors \ {a, t} : pc'[b] = pc[b] /\ job'[b] = job[b]
  /\ lost' = IF pc[t] = "idle" \/ pc[t] = "exit" THEN lost ELSE lost \cup {Remains(t)}
  /\ Untouched /\ UNCHANGED next_serial

\* The types that tell steps apart.
ProcKinds ==
  /\ \A t \in Slots : body[t] \in Descs \cup {Nil} /\ thread[t] \in {"free", "live", "dead"}
  /\ next_serial \in Nat \ {0}
  /\ \A d \in Descs : proc[d] # Nil =>
       /\ proc[d].serial \in 1..MaxSerial /\ proc[d].refs \in Nat /\ proc[d].mod \in Mods
       /\ proc[d].task \in Slots \cup {Nil} /\ proc[d].state \in {"active", "exited"}
       /\ proc[d].collecting \in BOOLEAN
  /\ \A a \in Actors : job[a].serial \in Nat /\ job[a].desc \in Descs \cup {Nil}
                       /\ job[a] \in JobRecord /\ pc[a] \in Points
  /\ \A l \in lost : l.of \in 1..MaxSerial /\ l.job.serial \in Nat /\ l.job \in JobRecord

\* The types, as the steps need them.
LEMMA KindsHold ==
  ASSUME ProcInv
  PROVE  ProcKinds
<1>1. ProcTypes BY DEF ProcInv
<1>2. /\ \A t \in Slots : body[t] \in Descs \cup {Nil} /\ thread[t] \in {"free", "live", "dead"}
      /\ next_serial \in Nat \ {0}
  BY <1>1, ProcFacts DEF ProcTypes
<1>3. ASSUME NEW d \in Descs, proc[d] # Nil
      PROVE  /\ proc[d].serial \in 1..MaxSerial /\ proc[d].refs \in Nat /\ proc[d].mod \in Mods
             /\ proc[d].task \in Slots \cup {Nil} /\ proc[d].state \in {"active", "exited"}
             /\ proc[d].collecting \in BOOLEAN
  <2>1. proc[d] \in ProcRecord BY <1>1, <1>3 DEF ProcTypes, ProcTable
  <2> QED BY <2>1 DEF ProcRecord
<1>4. ASSUME NEW a \in Actors
      PROVE  job[a].serial \in Nat /\ job[a].desc \in Descs \cup {Nil} /\ job[a] \in JobRecord
             /\ pc[a] \in Points
  <2>1. job[a] \in JobRecord /\ pc[a] \in Points BY <1>1 DEF ProcTypes
  <2> QED BY <2>1, ProcFacts DEF JobRecord
<1>5. ASSUME NEW l \in lost
      PROVE  l.of \in 1..MaxSerial /\ l.job.serial \in Nat /\ l.job \in JobRecord
  <2>1. l \in LostRecord BY <1>1 DEF ProcTypes
  <2>2. l.of \in 1..MaxSerial /\ l.job \in JobRecord BY <2>1 DEF LostRecord
  <2> QED BY <2>2, ProcFacts DEF JobRecord
<1> QED BY <1>2, <1>3, <1>4, <1>5 DEF ProcKinds

\* There are finitely many holders.
LEMMA HoldersFinite ==
  ASSUME ProcInv
  PROVE  /\ \A d : IsFiniteSet(Holders(d)) /\ Cardinality(Holders(d)) \in Nat
         /\ \A s : IsFiniteSet(LostHolds(s)) /\ Cardinality(LostHolds(s)) \in Nat
<1>1. ASSUME NEW d PROVE IsFiniteSet(Holders(d)) /\ Cardinality(Holders(d)) \in Nat
  <2>1. Holders(d) \subseteq Actors BY DEF Holders
  <2>2. IsFiniteSet(Holders(d)) BY <2>1, FS_Subset, ProcFacts
  <2> QED BY <2>2, FS_CardinalityType
<1>2. ASSUME NEW s PROVE IsFiniteSet(LostHolds(s)) /\ Cardinality(LostHolds(s)) \in Nat
  <2>1. LostHolds(s) \subseteq lost /\ IsFiniteSet(lost) BY DEF LostHolds, ProcInv, ProcTypes
  <2>2. IsFiniteSet(LostHolds(s)) BY <2>1, FS_Subset
  <2> QED BY <2>2, FS_CardinalityType
<1> QED BY <1>1, <1>2

\* Whoever has exited and is not held is nobody's.
LEMMA Unheld ==
  ASSUME ProcInv, NEW d \in Descs, proc[d] # Nil, proc[d].state = "exited", proc[d].refs = 0
  PROVE  /\ \A a \in Actors : pc[a] \in HoldingPoints => job[a].desc # d
         /\ \A l \in lost : l.at \in HoldingPoints => l.job.serial # proc[d].serial
         /\ \A t \in Slots : body[t] # d
<1>1. PICK h \in Nat : h = Cardinality(Holders(d)) BY HoldersFinite
<1>2. PICK n \in Nat : n = Cardinality(LostHolds(proc[d].serial)) BY HoldersFinite
<1>3. 0 = h + n + (IF Own(d) THEN 1 ELSE 0) BY <1>1, <1>2 DEF ProcInv, HoldsCounted, Counted
<1>4. h = 0 /\ n = 0 /\ ~Own(d) BY <1>1, <1>2, <1>3
<1>5. Holders(d) = {} /\ LostHolds(proc[d].serial) = {}
  BY <1>1, <1>2, <1>4, HoldersFinite, FS_EmptySet
<1>6. ASSUME NEW t \in Slots, body[t] = d PROVE FALSE
  <2>1. thread[t] # "free" /\ thread[t] \in {"free", "live", "dead"}
    BY <1>6, ProcFacts, KindsHold DEF ProcInv, Places, ThreadsSound, ProcKinds
  <2> QED BY <1>4, <1>6, <2>1 DEF ProcInv, Places, ThreadsSound, Own
<1> QED BY <1>5, <1>6 DEF Holders, LostHolds

\* Whoever dies at a funeral leaves it in its remains.
LEMMA DyingLeaves ==
  ASSUME ProcInv, NEW a \in Actors, NEW t, Dying(a, t)
  PROVE  /\ \A l \in lost : l \in lost'
         /\ \A b \in Actors : pc[b] \in {"reap", "collect"} =>
              \/ pc'[b] = pc[b] /\ job'[b] = job[b]
              \/ \E l \in lost' : l.at = pc[b] /\ l.job.serial = proc[job[b].desc].serial
<1>1. \A l \in lost : l \in lost' BY DEF Dying
<1>2. ASSUME NEW b \in Actors, pc[b] \in {"reap", "collect"}
      PROVE  \/ pc'[b] = pc[b] /\ job'[b] = job[b]
             \/ \E l \in lost' : l.at = pc[b] /\ l.job.serial = proc[job[b].desc].serial
  <2>1. CASE b = t
    <3>1. Remains(t) \in lost' BY <1>2, <2>1 DEF Dying
    <3>2. Remains(t).at = pc[b] /\ Remains(t).job = job[b] BY <2>1 DEF Remains
    <3>3. job[b].serial = proc[job[b].desc].serial
      BY <1>2 DEF ProcInv, Places, HoldsSound, Held, HoldingPoints
    <3> QED BY <3>1, <3>2, <3>3
  <2>2. CASE b # t BY <1>2, <2>2 DEF Dying
  <2> QED BY <2>1, <2>2
<1> QED BY <1>1, <1>2

(***************************************************************************)
(* Every effect keeps who may hold what.                                   *)
(***************************************************************************)
LEMMA QuietPlaces ==
  ASSUME ProcInv, NEW a \in Actors, NEW y, NEW j, Quiet(a, y, j)
  PROVE  Places'
<1>0. ProcKinds BY KindsHold
<1> USE <1>0, ProcFacts
    DEF ProcKinds, ProcInv, Places, Quiet, Moves, QuietPoints, Untouched, Alike, Apart, kernel
<1>1. ThreadsSound' BY DEF ThreadsSound, TasksSound
<1>2. TasksSound'
  BY DEF TasksSound, ThreadsSound, HoldsSound, Held, Born, HoldingPoints, MakersSound
<1>3. HoldsSound' BY DEF HoldsSound, Held, Born, Buried, HoldingPoints
<1>4. BuriersApart' BY DEF BuriersApart, Undertaking
<1>5. MakersSound' BY DEF MakersSound, Born
<1>6. ForksSound' BY DEF ForksSound
<1>7. ModsSound' BY DEF ModsSound, Forking, Furnished, ModPoints
<1>8. LostSound' BY DEF LostSound, LostFits, Held, Born, Buried, HoldingPoints, Undertaking
<1>9. SerialsApart' BY DEF SerialsApart
<1> QED BY <1>1, <1>2, <1>3, <1>4, <1>5, <1>6, <1>7, <1>8, <1>9 DEF Places

LEMMA PruningPlaces ==
  ASSUME ProcInv, NEW a \in Actors, NEW y, NEW j, NEW gone, Pruning(a, y, j, gone)
  PROVE  Places'
<1>0. ProcKinds BY KindsHold
<1>10. \A d \in gone :
       /\ \A b \in Actors : pc[b] \in HoldingPoints => job[b].desc # d
       /\ \A l \in lost : l.at \in HoldingPoints => l.job.serial # proc[d].serial
       /\ \A t \in Slots : body[t] # d
  BY Unheld DEF Pruning
<1> USE <1>0, <1>10, ProcFacts
    DEF ProcKinds, ProcInv, Places, Pruning, Moves, Alike, kernel
<1>1. ThreadsSound' BY DEF ThreadsSound, TasksSound
<1>2. TasksSound'
  BY DEF TasksSound, ThreadsSound, HoldsSound, Held, Born, HoldingPoints, MakersSound
<1>3. HoldsSound' BY DEF HoldsSound, Held, Born, Buried, HoldingPoints
<1>4. BuriersApart' BY DEF BuriersApart, Undertaking
<1>5. MakersSound' BY DEF MakersSound, Born
<1>6. ForksSound' BY DEF ForksSound, SerialsApart, LostSound, LostFits
<1>7. ModsSound' BY DEF ModsSound, Forking, Furnished, ModPoints
<1>8. LostSound' BY DEF LostSound, LostFits, Held, Born, Buried, HoldingPoints, Undertaking
<1>9. SerialsApart' BY DEF SerialsApart
<1> QED BY <1>1, <1>2, <1>3, <1>4, <1>5, <1>6, <1>7, <1>8, <1>9 DEF Places

LEMMA InsertingPlaces ==
  ASSUME ProcInv, NEW a \in Actors, NEW d, NEW j, Inserting(a, d, j)
  PROVE  Places'
<1>0. ProcKinds BY KindsHold
<1> USE <1>0, ProcFacts
    DEF ProcKinds, ProcInv, Places, Inserting, Moves, Alike, Apart, kernel
<1>1. ThreadsSound' BY DEF ThreadsSound, TasksSound
<1>2. TasksSound'
  BY DEF TasksSound, ThreadsSound, HoldsSound, Held, Born, HoldingPoints, MakersSound
<1>3. HoldsSound' BY DEF HoldsSound, Held, Born, Buried, HoldingPoints
<1>4. BuriersApart' BY DEF BuriersApart, Undertaking
<1>5. MakersSound' BY DEF MakersSound, Born
<1>6. ForksSound' BY DEF ForksSound
<1>7. ModsSound' BY DEF ModsSound, Forking, Furnished, ModPoints
<1>8. LostSound'
  BY DEF LostSound, LostFits, Held, Born, Buried, HoldingPoints, Undertaking, ForksSound
<1>9. SerialsApart' BY DEF SerialsApart, ForksSound
<1> QED BY <1>1, <1>2, <1>3, <1>4, <1>5, <1>6, <1>7, <1>8, <1>9 DEF Places

LEMMA StartingPlaces ==
  ASSUME ProcInv, NEW a \in Actors, NEW t, NEW d, Starting(a, t, d)
  PROVE  Places'
<1>0. ProcKinds BY KindsHold
<1> USE <1>0, ProcFacts
    DEF ProcKinds, ProcInv, Places, Starting, Becomes, Alike
<1>1. ThreadsSound' BY DEF ThreadsSound, TasksSound, MakersSound, Born
<1>2. TasksSound'
  BY DEF TasksSound, ThreadsSound, HoldsSound, Held, Born, HoldingPoints, MakersSound
<1>3. HoldsSound'
  BY DEF HoldsSound, Held, Born, Buried, HoldingPoints, MakersSound, ThreadsSound
<1>4. BuriersApart' BY DEF BuriersApart, Undertaking
<1>5. MakersSound' BY DEF MakersSound, Born
<1>6. ForksSound' BY DEF ForksSound
<1>7. ModsSound' BY DEF ModsSound, Forking, Furnished, ModPoints
<1>8. LostSound'
  BY
  DEF LostSound, LostFits, Held, Born, Buried, HoldingPoints, Undertaking, MakersSound,
      ThreadsSound
<1>9. SerialsApart' BY DEF SerialsApart
<1> QED BY <1>1, <1>2, <1>3, <1>4, <1>5, <1>6, <1>7, <1>8, <1>9 DEF Places

LEMMA FailingPlaces ==
  ASSUME ProcInv, NEW a \in Actors, NEW d, Failing(a, d)
  PROVE  Places'
<1>0. ProcKinds BY KindsHold
<1> USE <1>0, ProcFacts
    DEF ProcKinds, ProcInv, Places, Failing, Moves, Becomes, Alike, Apart, kernel
<1>1. ThreadsSound' BY DEF ThreadsSound, TasksSound, MakersSound, Born
<1>2. TasksSound'
  BY DEF TasksSound, ThreadsSound, HoldsSound, Held, Born, HoldingPoints, MakersSound
<1>3. HoldsSound' BY DEF HoldsSound, Held, Born, Buried, HoldingPoints
<1>4. BuriersApart' BY DEF BuriersApart, Undertaking
<1>5. MakersSound' BY DEF MakersSound, Born
<1>6. ForksSound' BY DEF ForksSound
<1>7. ModsSound' BY DEF ModsSound, Forking, Furnished, ModPoints
<1>8. LostSound' BY DEF LostSound, LostFits, Held, Born, Buried, HoldingPoints, Undertaking
<1>9. SerialsApart' BY DEF SerialsApart
<1> QED BY <1>1, <1>2, <1>3, <1>4, <1>5, <1>6, <1>7, <1>8, <1>9 DEF Places

LEMMA HoldingPlaces ==
  ASSUME ProcInv, NEW a \in Actors, NEW d, NEW y, NEW j, Holding(a, d, y, j)
  PROVE  Places'
<1>0. ProcKinds BY KindsHold
<1> USE <1>0, ProcFacts
    DEF ProcKinds, ProcInv, Places, Holding, Moves, Becomes, Alike, Apart, kernel
<1>1. ThreadsSound' BY DEF ThreadsSound, TasksSound
<1>2. TasksSound'
  BY DEF TasksSound, ThreadsSound, HoldsSound, Held, Born, HoldingPoints, MakersSound
<1>3. HoldsSound' BY DEF HoldsSound, Held, Born, Buried, HoldingPoints
<1>4. BuriersApart' BY DEF BuriersApart, Undertaking
<1>5. MakersSound' BY DEF MakersSound, Born
<1>6. ForksSound' BY DEF ForksSound
<1>7. ModsSound' BY DEF ModsSound, Forking, Furnished, ModPoints
<1>8. LostSound' BY DEF LostSound, LostFits, Held, Born, Buried, HoldingPoints, Undertaking
<1>9. SerialsApart' BY DEF SerialsApart
<1> QED BY <1>1, <1>2, <1>3, <1>4, <1>5, <1>6, <1>7, <1>8, <1>9 DEF Places

LEMMA DroppingPlaces ==
  ASSUME ProcInv, NEW a \in Actors, NEW d, NEW y, NEW j, Dropping(a, d, y, j)
  PROVE  Places'
<1>0. ProcKinds BY KindsHold
<1> USE <1>0, ProcFacts
    DEF ProcKinds, ProcInv, Places, Dropping, Moves, Becomes, Alike, Apart, kernel
<1>1. ThreadsSound' BY DEF ThreadsSound, TasksSound
<1>2. TasksSound' BY DEF TasksSound
<1>3. HoldsSound' BY DEF HoldsSound, Held, Born, Buried, HoldingPoints
<1>4. BuriersApart' BY DEF BuriersApart, Undertaking
<1>5. MakersSound' BY DEF MakersSound, Born
<1>6. ForksSound' BY DEF ForksSound
<1>7. ModsSound' BY DEF ModsSound, Forking, Furnished, ModPoints
<1>8. LostSound' BY DEF LostSound, LostFits, Held, Born, Buried, HoldingPoints, Undertaking
<1>9. SerialsApart' BY DEF SerialsApart
<1> QED BY <1>1, <1>2, <1>3, <1>4, <1>5, <1>6, <1>7, <1>8, <1>9 DEF Places

LEMMA PassingPlaces ==
  ASSUME ProcInv, NEW a \in Actors, NEW y, Passing(a, y)
  PROVE  Places'
<1>0. ProcKinds BY KindsHold
<1> USE <1>0, ProcFacts
    DEF ProcKinds, ProcInv, Places, Passing, Moves, Untouched, Alike, Apart, kernel
<1>1. ThreadsSound' BY DEF ThreadsSound, TasksSound
<1>2. TasksSound' BY DEF TasksSound
<1>3. HoldsSound' BY DEF HoldsSound, Held, Born, Buried, HoldingPoints
<1>4. BuriersApart' BY DEF BuriersApart, Undertaking
<1>5. MakersSound' BY DEF MakersSound, Born
<1>6. ForksSound' BY DEF ForksSound
<1>7. ModsSound' BY DEF ModsSound, Forking, Furnished, ModPoints
<1>8. LostSound' BY DEF LostSound, LostFits, Held, Born, Buried, HoldingPoints, Undertaking
<1>9. SerialsApart' BY DEF SerialsApart
<1> QED BY <1>1, <1>2, <1>3, <1>4, <1>5, <1>6, <1>7, <1>8, <1>9 DEF Places

LEMMA ClaimingPlaces ==
  ASSUME ProcInv, NEW a \in Actors, NEW d, NEW j, Claiming(a, d, j)
  PROVE  Places'
<1>0. ProcKinds BY KindsHold
<1>14. /\ ThreadsSound /\ TasksSound /\ HoldsSound /\ BuriersApart /\ MakersSound
       /\ ForksSound /\ ModsSound /\ LostSound /\ SerialsApart
  BY DEF ProcInv, Places
<1>10. /\ d \in Descs /\ proc[d] # Nil /\ proc'[d] # Nil /\ d = job[a].desc
       /\ proc[d].state = "active" /\ ~proc[d].collecting /\ proc'[d].collecting
       /\ proc[d].task \in Slots /\ thread[proc[d].task] = "dead" /\ body[proc[d].task] = d
       /\ proc'[d].state = proc[d].state /\ proc'[d].task = proc[d].task
       /\ proc'[d].serial = proc[d].serial /\ job[a].serial = proc[d].serial
  <2>1. /\ d \in Descs /\ proc[d] # Nil /\ proc'[d] # Nil /\ d = job[a].desc /\ Faulted(d)
        /\ proc'[d].state = proc[d].state /\ proc'[d].task = proc[d].task
        /\ proc'[d].serial = proc[d].serial /\ proc'[d].collecting
        /\ pc[a] \in HoldingPoints
    BY DEF Claiming, Becomes, HoldingPoints
  <2>2. job[a].serial = proc[d].serial BY <1>14, <2>1 DEF HoldsSound, Held
  <2>3. /\ proc[d].state = "active" /\ ~proc[d].collecting /\ proc[d].task \in Slots
        /\ thread[proc[d].task] # "live"
    BY <1>0, <2>1 DEF Faulted, ProcKinds
  <2>4. body[proc[d].task] = d BY <1>14, <2>1, <2>3, ProcFacts DEF TasksSound
  <2>5. thread[proc[d].task] = "dead"
    BY <1>0, <1>14, <2>1, <2>3, <2>4, ProcFacts DEF ThreadsSound, ProcKinds
  <2> QED BY <2>1, <2>2, <2>3, <2>4, <2>5
<1>11. \A e \in Descs \ {d} :
          /\ proc'[e] = Nil <=> proc[e] = Nil
          /\ proc[e] # Nil => /\ proc'[e].state = proc[e].state /\ proc'[e].task = proc[e].task
                              /\ proc'[e].collecting = proc[e].collecting
                              /\ proc'[e].serial = proc[e].serial
  BY DEF Claiming, Becomes, Alike
<1>12. /\ pc[a] \in {"wait", "funeral"} /\ pc'[a] = "collect" /\ job'[a] = j /\ j.desc = d
       /\ j.serial = job[a].serial /\ j.back \in {"wait", "watch"}
       /\ \A b \in Actors \ {a} : pc'[b] = pc[b] /\ job'[b] = job[b]
       /\ thread' = thread /\ body' = body /\ lost' = lost /\ next_serial' = next_serial
  BY <1>10 DEF Claiming, Moves, Apart, kernel
<1>13. \A e \in Descs : /\ proc'[e] = Nil <=> proc[e] = Nil
                        /\ proc[e] # Nil =>
                             /\ proc'[e].state = proc[e].state /\ proc'[e].task = proc[e].task
                             /\ proc'[e].serial = proc[e].serial
                             /\ proc[e].collecting => proc'[e].collecting
  BY <1>10, <1>11
<1>15. \A e \in Descs, n \in Nat : Held(e, n) => Held(e, n)' BY <1>13 DEF Held, Born
<1>16. \A e \in Descs : proc[e] # Nil /\ Buried(e) => Buried(e)' BY <1>12, <1>13 DEF Buried
<1>17. \A b \in Actors : pc[b] \in Undertaking => job[b].desc # d
  BY <1>10, <1>14 DEF HoldsSound, Buried, Undertaking
<1>1. ThreadsSound'
  <2>1. \A t \in Slots : body[t] \in Descs \cup {Nil} /\ t \in Actors
    BY <1>0, ProcFacts DEF ProcKinds
  <2>2. \A b \in Actors : /\ pc'[b] = "reap" <=> pc[b] = "reap"
                          /\ pc'[b] = "bury" <=> pc[b] = "bury"
                          /\ pc'[b] = "none" <=> pc[b] = "none"
                          /\ pc[b] = "reap" => job'[b] = job[b]
    BY <1>12
  <2> QED BY <1>12, <1>13, <1>14, <2>1, <2>2 DEF ThreadsSound
<1>2. TasksSound'
  <2> SUFFICES ASSUME NEW e \in Descs, proc'[e] # Nil
      PROVE  (/\ proc[e].state = "active" /\ proc[e].task = Nil => \A t \in Slots : body[t] # e
              /\ proc[e].state = "active" /\ proc[e].task # Nil => body[proc[e].task] = e
              /\ proc[e].collecting =>
                   /\ proc[e].state = "active" /\ proc[e].task # Nil
                   /\ thread[proc[e].task] = "dead"
                   /\ \/ \E b \in Actors : pc[b] = "collect" /\ job[b].desc = e
                      \/ \E l \in lost : l.at = "collect" /\ l.job.serial = proc[e].serial)'
    BY DEF TasksSound
  <2>1. CASE e = d BY <1>10, <1>12, <2>1, ProcFacts
  <2>2. CASE e # d
    <3>1. \A b \in Actors : pc[b] = "collect" => pc'[b] = "collect" /\ job'[b] = job[b]
      BY <1>12
    <3> QED BY <1>11, <1>12, <1>14, <2>2, <3>1 DEF TasksSound
  <2> QED BY <2>1, <2>2
<1>3. HoldsSound'
  <2> SUFFICES ASSUME NEW b \in Actors
      PROVE  (/\ pc[b] \in HoldingPoints => Held(job[b].desc, job[b].serial)
              /\ pc[b] = "collect" => proc[job[b].desc].collecting
              /\ pc[b] = "reap" => Buried(job[b].desc))'
    BY DEF HoldsSound
  <2>1. CASE b = a
    <3>1. Held(job[a].desc, job[a].serial)' BY <1>10, <1>12, ProcFacts DEF Held, Born
    <3> QED BY <1>10, <1>12, <2>1, <3>1
  <2>2. CASE b # a
    <3>1. pc'[b] = pc[b] /\ job'[b] = job[b] /\ job[b].serial \in Nat
      BY <1>0, <1>12, <2>2 DEF ProcKinds
    <3>2. /\ pc[b] \in HoldingPoints => Held(job[b].desc, job[b].serial)
          /\ pc[b] = "collect" => proc[job[b].desc].collecting
          /\ pc[b] = "reap" => Buried(job[b].desc)
      BY <1>14 DEF HoldsSound
    <3>3. pc[b] \in HoldingPoints => job[b].desc \in Descs /\ proc[job[b].desc] # Nil
      BY <3>2 DEF Held
    <3> QED BY <1>13, <1>15, <1>16, <3>1, <3>2, <3>3 DEF HoldingPoints
  <2> QED BY <2>1, <2>2
<1>4. BuriersApart' BY <1>12, <1>14, <1>17 DEF BuriersApart, Undertaking
<1>5. MakersSound'
  <2>1. \A b \in Actors : /\ pc'[b] = "create" <=> pc[b] = "create"
                          /\ pc[b] = "create" => job'[b] = job[b]
    BY <1>12
  <2> QED BY <1>13, <1>14, <2>1 DEF MakersSound, Born
<1>6. ForksSound' BY <1>12, <1>13, <1>14 DEF ForksSound
<1>7. ModsSound' BY <1>12, <1>14 DEF ModsSound, Forking
<1>8. LostSound'
  <2> SUFFICES ASSUME NEW l \in lost
      PROVE  LostFits(l)'
    BY <1>12 DEF LostSound
  <2>1. LostFits(l) /\ l.job.serial \in Nat BY <1>0, <1>14 DEF LostSound, ProcKinds
  <2>2. (l.at \in HoldingPoints => \E e \in Descs :
          /\ Held(e, l.job.serial)
          /\ l.at = "collect" => proc[e].collecting
          /\ l.at = "reap" => Buried(e))'
    <3> SUFFICES ASSUME l.at \in HoldingPoints
        PROVE  \E e \in Descs : (/\ Held(e, l.job.serial)
                                 /\ l.at = "collect" => proc[e].collecting
                                 /\ l.at = "reap" => Buried(e))'
      OBVIOUS
    <3>1. PICK e \in Descs : /\ Held(e, l.job.serial)
                             /\ l.at = "collect" => proc[e].collecting
                             /\ l.at = "reap" => Buried(e)
      BY <2>1 DEF LostFits
    <3> QED BY <1>13, <1>15, <1>16, <2>1, <3>1 DEF Held
  <2>3. (l.at \in Undertaking =>
          \A b \in Actors : pc[b] \in Undertaking => job[b].serial # l.job.serial)'
    <3>1. l.at \in Undertaking => l.job.serial # proc[d].serial
      BY <1>10, <1>14, <2>1
      DEF LostFits, Held, Buried, HoldingPoints, Undertaking, SerialsApart
    <3> QED BY <1>10, <1>12, <2>1, <3>1 DEF LostFits, Undertaking
  <2>4. (\A e \in Descs : proc[e] # Nil /\ proc[e].serial = l.of =>
          Born(e) /\ (proc[e].state = "active" => thread[proc[e].task] = "dead"))'
    BY <1>12, <1>13, <2>1 DEF LostFits, Born
  <2> QED BY <1>12, <2>1, <2>2, <2>3, <2>4 DEF LostFits
<1>9. SerialsApart' BY <1>12, <1>13, <1>14 DEF SerialsApart
<1> QED BY <1>1, <1>2, <1>3, <1>4, <1>5, <1>6, <1>7, <1>8, <1>9 DEF Places

LEMMA CollectingPlaces ==
  ASSUME ProcInv, NEW a \in Actors, NEW d, NEW j, Collecting(a, d, j)
  PROVE  Places'
<1>0. ProcKinds BY KindsHold
<1>10. /\ d \in Descs /\ proc[d] # Nil /\ proc'[d] # Nil /\ d = job[a].desc
       /\ proc[d].state = "active" /\ proc'[d].state = "exited"
       /\ proc[d].task \in Slots /\ thread[proc[d].task] = "dead" /\ body[proc[d].task] = d
       /\ proc'[d].serial = proc[d].serial /\ ~proc'[d].collecting
       /\ job[a].serial = proc[d].serial
       /\ \A b \in Actors : pc[b] \in Undertaking /\ job[b].desc = d => b = a
  BY <1>0 DEF ProcInv, Places, ProcKinds, Collecting, Becomes, HoldsSound, Held, HoldingPoints,
              TasksSound, BuriersApart, Undertaking
<1>11. \A e \in Descs \ {d} :
          /\ proc'[e] = Nil <=> proc[e] = Nil
          /\ proc[e] # Nil => /\ proc'[e].state = proc[e].state /\ proc'[e].task = proc[e].task
                              /\ proc'[e].collecting = proc[e].collecting
                              /\ proc'[e].serial = proc[e].serial
  BY DEF Collecting, Becomes, Alike
<1>12. /\ pc[a] = "collect" /\ pc'[a] = "reap" /\ job'[a] = j /\ j.desc = d
       /\ j.serial = job[a].serial /\ j.back = job[a].back /\ j.mod \in Mods
       /\ \A b \in Actors \ {a} : pc'[b] = pc[b] /\ job'[b] = job[b]
       /\ thread' = thread /\ body' = body /\ lost' = lost /\ next_serial' = next_serial
  BY <1>10 DEF Collecting, Moves, Apart, kernel, Furnished, ModPoints
<1>13. \A t \in Slots : body[t] = d => t = proc[d].task
  BY <1>0, <1>10, ProcFacts DEF ProcInv, Places, ThreadsSound
<1>14. /\ ThreadsSound /\ TasksSound /\ HoldsSound /\ BuriersApart /\ MakersSound
       /\ ForksSound /\ ModsSound /\ LostSound /\ SerialsApart
  BY DEF ProcInv, Places
<1>1. ThreadsSound'
  <2> SUFFICES ASSUME NEW t \in Slots
      PROVE  (/\ thread[t] = "live" <=> pc[t] # "none"
              /\ thread[t] = "free" <=> body[t] = Nil
              /\ body[t] # Nil => proc[body[t]] # Nil
              /\ thread[t] = "live" => (pc[t] = "bury" <=> proc[body[t]].state = "exited")
              /\ thread[t] = "dead" /\ proc[body[t]].state = "exited" =>
                   \/ \E b \in Actors : pc[b] = "reap" /\ job[b].desc = body[t]
                   \/ \E l \in lost : l.at = "reap" /\ l.job.serial = proc[body[t]].serial
              /\ \A u \in Slots : body[t] = body[u] /\ body[t] # Nil => t = u)'
    BY DEF ThreadsSound
  <2>1. body[t] \in Descs \cup {Nil} /\ t \in Actors BY <1>0, ProcFacts DEF ProcKinds
  <2>2. CASE body[t] = d
    BY <1>10, <1>12, <1>13, <1>14, <2>1, <2>2, ProcFacts DEF ThreadsSound
  <2>3. CASE body[t] # d
    BY <1>10, <1>11, <1>12, <1>14, <2>1, <2>3, ProcFacts DEF ThreadsSound
  <2> QED BY <2>2, <2>3
<1>2. TasksSound'
  <2> SUFFICES ASSUME NEW e \in Descs, proc'[e] # Nil
      PROVE  (/\ proc[e].state = "active" /\ proc[e].task = Nil => \A t \in Slots : body[t] # e
              /\ proc[e].state = "active" /\ proc[e].task # Nil => body[proc[e].task] = e
              /\ proc[e].collecting =>
                   /\ proc[e].state = "active" /\ proc[e].task # Nil
                   /\ thread[proc[e].task] = "dead"
                   /\ \/ \E b \in Actors : pc[b] = "collect" /\ job[b].desc = e
                      \/ \E l \in lost : l.at = "collect" /\ l.job.serial = proc[e].serial)'
    BY DEF TasksSound
  <2>1. CASE e = d BY <1>10, <2>1
  <2>2. CASE e # d
    <3>1. \A b \in Actors : job[b].desc = e => b # a BY <1>10, <2>2
    <3> QED BY <1>11, <1>12, <1>14, <2>2, <3>1 DEF TasksSound
  <2> QED BY <2>1, <2>2
<1>15. \A e \in Descs, n \in Nat : Held(e, n) => Held(e, n)'
  BY <1>10, <1>11 DEF Held, Born
<1>16. \A e \in Descs : proc[e] # Nil /\ Buried(e) => Buried(e)'
  BY <1>10, <1>11, <1>12 DEF Buried
<1>3. HoldsSound'
  <2> SUFFICES ASSUME NEW b \in Actors
      PROVE  (/\ pc[b] \in HoldingPoints => Held(job[b].desc, job[b].serial)
              /\ pc[b] = "collect" => proc[job[b].desc].collecting
              /\ pc[b] = "reap" => Buried(job[b].desc))'
    BY DEF HoldsSound
  <2>1. CASE b = a
    <3>1. Held(job[a].desc, job[a].serial)' BY <1>10, <1>12 DEF Held, Born
    <3>2. Buried(job[a].desc)' BY <1>10, <1>12, <1>13 DEF Buried
    <3> QED BY <1>10, <1>12, <2>1, <3>1, <3>2
  <2>2. CASE b # a
    <3>1. pc'[b] = pc[b] /\ job'[b] = job[b] /\ job[b].serial \in Nat
      BY <1>0, <1>12, <2>2 DEF ProcKinds
    <3>2. /\ pc[b] \in HoldingPoints => Held(job[b].desc, job[b].serial)
          /\ pc[b] = "collect" => proc[job[b].desc].collecting
          /\ pc[b] = "reap" => Buried(job[b].desc)
      BY <1>14 DEF HoldsSound
    <3>3. pc[b] \in HoldingPoints => job[b].desc \in Descs /\ proc[job[b].desc] # Nil
      BY <3>2 DEF Held
    <3>4. pc[b] \in Undertaking => job[b].desc # d BY <1>10, <2>2
    <3> QED BY <1>11, <1>15, <1>16, <3>1, <3>2, <3>3, <3>4 DEF HoldingPoints, Undertaking
  <2> QED BY <2>1, <2>2
<1>4. BuriersApart' BY <1>10, <1>12, <1>14 DEF BuriersApart, Undertaking
<1>5. MakersSound'
  <2>1. \A b \in Actors : pc[b] = "create" => job[b].desc # d
    BY <1>10, <1>14, ProcFacts DEF MakersSound, Born
  <2> QED BY <1>11, <1>12, <1>14, <2>1 DEF MakersSound, Born
<1>6. ForksSound' BY <1>10, <1>11, <1>12, <1>14 DEF ForksSound
<1>7. ModsSound' BY <1>12, <1>14 DEF ModsSound, Forking
<1>8. LostSound'
  <2> SUFFICES ASSUME NEW l \in lost
      PROVE  LostFits(l)'
    BY <1>12 DEF LostSound
  <2>1. LostFits(l) /\ l.job.serial \in Nat BY <1>0, <1>14 DEF LostSound, ProcKinds
  <2>2. (l.at \in HoldingPoints => \E e \in Descs :
          /\ Held(e, l.job.serial)
          /\ l.at = "collect" => proc[e].collecting
          /\ l.at = "reap" => Buried(e))'
    <3> SUFFICES ASSUME l.at \in HoldingPoints
        PROVE  \E e \in Descs : (/\ Held(e, l.job.serial)
                                 /\ l.at = "collect" => proc[e].collecting
                                 /\ l.at = "reap" => Buried(e))'
      OBVIOUS
    <3>1. PICK e \in Descs : /\ Held(e, l.job.serial)
                             /\ l.at = "collect" => proc[e].collecting
                             /\ l.at = "reap" => Buried(e)
      BY <2>1 DEF LostFits
    <3>2. l.at = "collect" => e # d
      BY <1>10, <1>12, <2>1, <3>1 DEF LostFits, Undertaking, Held
    <3> QED BY <1>11, <1>15, <1>16, <2>1, <3>1, <3>2 DEF Held
  <2>3. (l.at \in Undertaking =>
          \A b \in Actors : pc[b] \in Undertaking => job[b].serial # l.job.serial)'
    BY <1>10, <1>12, <2>1 DEF LostFits, Undertaking
  <2>4. (\A e \in Descs : proc[e] # Nil /\ proc[e].serial = l.of =>
          Born(e) /\ (proc[e].state = "active" => thread[proc[e].task] = "dead"))'
    BY <1>10, <1>11, <1>12, <2>1 DEF LostFits, Born
  <2> QED BY <1>12, <2>1, <2>2, <2>3, <2>4 DEF LostFits
<1>9. SerialsApart' BY <1>10, <1>11, <1>12, <1>14 DEF SerialsApart
<1> QED BY <1>1, <1>2, <1>3, <1>4, <1>5, <1>6, <1>7, <1>8, <1>9 DEF Places

LEMMA ReapingPlaces ==
  ASSUME ProcInv, NEW a \in Actors, NEW d, NEW j, Reaping(a, d, j)
  PROVE  Places'
<1>0. ProcKinds BY KindsHold
<1>10. /\ d \in Descs /\ proc[d] # Nil /\ proc[d].state = "exited" /\ d = job[a].desc
       /\ \A t \in Slots : body[t] = d => thread[t] = "dead"
       /\ \A b \in Actors : pc[b] \in Undertaking /\ job[b].desc = d => b = a
       /\ job[a].serial = proc[d].serial /\ job[a].back \in {"wait", "watch"}
  BY DEF ProcInv, Places, Reaping, Becomes, HoldsSound, Held, Buried, HoldingPoints,
         BuriersApart, Undertaking
<1>11. \A e \in Descs : /\ proc'[e] = Nil <=> proc[e] = Nil
                        /\ proc[e] # Nil =>
                             /\ proc'[e].state = proc[e].state /\ proc'[e].task = proc[e].task
                             /\ proc'[e].collecting = proc[e].collecting
                             /\ proc'[e].serial = proc[e].serial
  BY DEF Reaping, Becomes, Alike
<1>12. /\ pc[a] = "reap" /\ pc'[a] = job[a].back /\ job'[a] = j /\ j.desc = d
       /\ j.serial = job[a].serial /\ lost' = lost /\ next_serial' = next_serial
       /\ \A b \in Actors \ {a} : pc'[b] = pc[b] /\ job'[b] = job[b]
       /\ \A t \in Slots :
            /\ body[t] = d => thread'[t] = "free" /\ body'[t] = Nil
            /\ body[t] # d => thread'[t] = thread[t] /\ body'[t] = body[t]
  BY <1>10 DEF Reaping, Moves
<1>14. /\ ThreadsSound /\ TasksSound /\ HoldsSound /\ BuriersApart /\ MakersSound
       /\ ForksSound /\ ModsSound /\ LostSound /\ SerialsApart
  BY DEF ProcInv, Places
<1>1. ThreadsSound'
  <2> SUFFICES ASSUME NEW t \in Slots
      PROVE  (/\ thread[t] = "live" <=> pc[t] # "none"
              /\ thread[t] = "free" <=> body[t] = Nil
              /\ body[t] # Nil => proc[body[t]] # Nil
              /\ thread[t] = "live" => (pc[t] = "bury" <=> proc[body[t]].state = "exited")
              /\ thread[t] = "dead" /\ proc[body[t]].state = "exited" =>
                   \/ \E b \in Actors : pc[b] = "reap" /\ job[b].desc = body[t]
                   \/ \E l \in lost : l.at = "reap" /\ l.job.serial = proc[body[t]].serial
              /\ \A u \in Slots : body[t] = body[u] /\ body[t] # Nil => t = u)'
    BY DEF ThreadsSound
  <2>1. body[t] \in Descs \cup {Nil} /\ t \in Actors BY <1>0, ProcFacts DEF ProcKinds
  <2>2. CASE body[t] = d
    <3>1. t # a /\ pc[t] = "none" BY <1>10, <1>12, <1>14, <2>2 DEF ThreadsSound
    <3> QED BY <1>12, <2>1, <2>2, <3>1, ProcFacts
  <2>3. CASE body[t] # d
    <3>1. thread'[t] = thread[t] /\ body'[t] = body[t] BY <1>12, <2>3
    <3>2. /\ pc'[t] # "none" <=> pc[t] # "none"
          /\ pc'[t] = "bury" <=> pc[t] = "bury"
      BY <1>10, <1>12, <2>1
    <3>3. \A b \in Actors : pc[b] = "reap" /\ job[b].desc = body[t] =>
                            pc'[b] = "reap" /\ job'[b].desc = body[t]
      BY <1>10, <1>12, <2>3
    <3>4. \A u \in Slots : body'[t] = body'[u] /\ body'[t] # Nil => t = u
      BY <1>12, <1>14, <3>1 DEF ThreadsSound
    <3> QED BY <1>11, <1>12, <1>14, <2>1, <3>1, <3>2, <3>3, <3>4, ProcFacts DEF ThreadsSound
  <2> QED BY <2>2, <2>3
<1>2. TasksSound'
  <2> SUFFICES ASSUME NEW e \in Descs, proc'[e] # Nil
      PROVE  (/\ proc[e].state = "active" /\ proc[e].task = Nil => \A t \in Slots : body[t] # e
              /\ proc[e].state = "active" /\ proc[e].task # Nil => body[proc[e].task] = e
              /\ proc[e].collecting =>
                   /\ proc[e].state = "active" /\ proc[e].task # Nil
                   /\ thread[proc[e].task] = "dead"
                   /\ \/ \E b \in Actors : pc[b] = "collect" /\ job[b].desc = e
                      \/ \E l \in lost : l.at = "collect" /\ l.job.serial = proc[e].serial)'
    BY DEF TasksSound
  <2>1. /\ proc[e].task \in Slots \cup {Nil}
        /\ proc'[e].state = proc[e].state /\ proc'[e].task = proc[e].task
        /\ proc'[e].collecting = proc[e].collecting /\ proc'[e].serial = proc[e].serial
    BY <1>0, <1>11 DEF ProcKinds
  <2>2. CASE e = d
    <3>1. proc'[e].state = "exited" /\ ~proc'[e].collecting
      BY <1>10, <1>14, <2>1, <2>2 DEF TasksSound
    <3> QED BY <3>1
  <2>3. CASE e # d
    <3>1. \A t \in Slots : body[t] # e => body'[t] # e BY <1>12, <2>3, ProcFacts
    <3>2. \A t \in Slots : body[t] = e => body'[t] = e /\ thread'[t] = thread[t]
      BY <1>12, <2>3
    <3>3. \A b \in Actors : pc[b] = "collect" => pc'[b] = "collect" /\ job'[b] = job[b]
      BY <1>12
    <3> QED BY <1>11, <1>12, <1>14, <2>1, <2>3, <3>1, <3>2, <3>3 DEF TasksSound
  <2> QED BY <2>2, <2>3
<1>15. \A e \in Descs, n \in Nat : Held(e, n) => Held(e, n)' BY <1>11 DEF Held, Born
<1>16. \A e \in Descs : proc[e] # Nil /\ Buried(e) => Buried(e)'
  <2> SUFFICES ASSUME NEW e \in Descs, proc[e] # Nil, Buried(e)
      PROVE  Buried(e)'
    OBVIOUS
  <2>1. \A t \in Slots : body'[t] = e => body[t] = e /\ thread'[t] = thread[t]
    BY <1>12, ProcFacts
  <2> QED BY <1>11, <2>1 DEF Buried
<1>3. HoldsSound'
  <2> SUFFICES ASSUME NEW b \in Actors
      PROVE  (/\ pc[b] \in HoldingPoints => Held(job[b].desc, job[b].serial)
              /\ pc[b] = "collect" => proc[job[b].desc].collecting
              /\ pc[b] = "reap" => Buried(job[b].desc))'
    BY DEF HoldsSound
  <2>1. CASE b = a
    <3>1. Held(job[a].desc, job[a].serial)' BY <1>10, <1>11, <1>12 DEF Held, Born
    <3> QED BY <1>10, <1>12, <2>1, <3>1
  <2>2. CASE b # a
    <3>1. pc'[b] = pc[b] /\ job'[b] = job[b] /\ job[b].serial \in Nat
      BY <1>0, <1>12, <2>2 DEF ProcKinds
    <3>2. /\ pc[b] \in HoldingPoints => Held(job[b].desc, job[b].serial)
          /\ pc[b] = "collect" => proc[job[b].desc].collecting
          /\ pc[b] = "reap" => Buried(job[b].desc)
      BY <1>14 DEF HoldsSound
    <3>3. pc[b] \in HoldingPoints => job[b].desc \in Descs /\ proc[job[b].desc] # Nil
      BY <3>2 DEF Held
    <3> QED BY <1>11, <1>15, <1>16, <3>1, <3>2, <3>3 DEF HoldingPoints
  <2> QED BY <2>1, <2>2
<1>4. BuriersApart' BY <1>10, <1>12, <1>14 DEF BuriersApart, Undertaking
<1>5. MakersSound' BY <1>10, <1>11, <1>12, <1>14 DEF MakersSound, Born
<1>6. ForksSound' BY <1>10, <1>11, <1>12, <1>14 DEF ForksSound
<1>7. ModsSound' BY <1>10, <1>12, <1>14 DEF ModsSound, Forking
<1>8. LostSound'
  <2> SUFFICES ASSUME NEW l \in lost
      PROVE  LostFits(l)'
    BY <1>12 DEF LostSound
  <2>1. LostFits(l) /\ l.job.serial \in Nat BY <1>0, <1>14 DEF LostSound, ProcKinds
  <2>2. (l.at \in HoldingPoints => \E e \in Descs :
          /\ Held(e, l.job.serial)
          /\ l.at = "collect" => proc[e].collecting
          /\ l.at = "reap" => Buried(e))'
    <3> SUFFICES ASSUME l.at \in HoldingPoints
        PROVE  \E e \in Descs : (/\ Held(e, l.job.serial)
                                 /\ l.at = "collect" => proc[e].collecting
                                 /\ l.at = "reap" => Buried(e))'
      OBVIOUS
    <3>1. PICK e \in Descs : /\ Held(e, l.job.serial)
                             /\ l.at = "collect" => proc[e].collecting
                             /\ l.at = "reap" => Buried(e)
      BY <2>1 DEF LostFits
    <3> QED BY <1>11, <1>15, <1>16, <2>1, <3>1 DEF Held
  <2>3. (l.at \in Undertaking =>
          \A b \in Actors : pc[b] \in Undertaking => job[b].serial # l.job.serial)'
    BY <1>10, <1>12, <2>1 DEF LostFits, Undertaking
  <2>4. (\A e \in Descs : proc[e] # Nil /\ proc[e].serial = l.of =>
          Born(e) /\ (proc[e].state = "active" => thread[proc[e].task] = "dead"))'
    <3> SUFFICES ASSUME NEW e \in Descs, proc'[e] # Nil, proc'[e].serial = l.of
        PROVE  (Born(e) /\ (proc[e].state = "active" => thread[proc[e].task] = "dead"))'
      OBVIOUS
    <3>1. /\ Born(e) /\ Born(e)'
          /\ proc[e].state = "active" => thread[proc[e].task] = "dead"
      BY <1>11, <2>1 DEF LostFits, Born
    <3>2. CASE proc[e].state = "active"
      <4>1. proc[e].task \in Slots /\ body[proc[e].task] = e /\ e # d
        BY <1>0, <1>10, <1>11, <1>14, <3>1, <3>2 DEF Born, TasksSound, ProcKinds
      <4>2. thread'[proc[e].task] = thread[proc[e].task] BY <1>12, <4>1
      <4>3. proc'[e].task = proc[e].task BY <1>11
      <4> QED BY <3>1, <3>2, <4>2, <4>3
    <3> QED BY <1>11, <3>1, <3>2
  <2> QED BY <1>12, <2>1, <2>2, <2>3, <2>4 DEF LostFits
<1>9. SerialsApart' BY <1>11, <1>12, <1>14 DEF SerialsApart
<1> QED BY <1>1, <1>2, <1>3, <1>4, <1>5, <1>6, <1>7, <1>8, <1>9 DEF Places

LEMMA FinishingPlaces ==
  ASSUME ProcInv, NEW a \in Actors, NEW d, Finishing(a, d)
  PROVE  Places'
<1>0. ProcKinds BY KindsHold
<1> USE <1>0, ProcFacts
    DEF ProcKinds, ProcInv, Places, Finishing, Moves, Becomes, Alike, Apart, kernel
<1>1. ThreadsSound' BY DEF ThreadsSound, TasksSound
<1>2. TasksSound'
  BY DEF TasksSound, ThreadsSound, HoldsSound, Held, Born, HoldingPoints, MakersSound
<1>3. HoldsSound' BY DEF HoldsSound, Held, Born, Buried, HoldingPoints
<1>4. BuriersApart' BY DEF BuriersApart, Undertaking
<1>5. MakersSound' BY DEF MakersSound, Born, TasksSound
<1>6. ForksSound' BY DEF ForksSound
<1>7. ModsSound' BY DEF ModsSound, Forking, Furnished, ModPoints
<1>8. LostSound' BY DEF LostSound, LostFits, Held, Born, Buried, HoldingPoints, Undertaking
<1>9. SerialsApart' BY DEF SerialsApart
<1> QED BY <1>1, <1>2, <1>3, <1>4, <1>5, <1>6, <1>7, <1>8, <1>9 DEF Places

LEMMA BuryingPlaces ==
  ASSUME ProcInv, NEW a \in Actors, NEW d, Burying(a, d)
  PROVE  Places'
<1>0. ProcKinds BY KindsHold
<1> USE <1>0, ProcFacts
    DEF ProcKinds, ProcInv, Places, Burying, Moves, Becomes, Alike
<1>1. ThreadsSound' BY DEF ThreadsSound, TasksSound
<1>2. TasksSound'
  BY DEF TasksSound, ThreadsSound, HoldsSound, Held, Born, HoldingPoints, MakersSound
<1>3. HoldsSound' BY DEF HoldsSound, Held, Born, Buried, HoldingPoints
<1>4. BuriersApart' BY DEF BuriersApart, Undertaking
<1>5. MakersSound' BY DEF MakersSound, Born
<1>6. ForksSound' BY DEF ForksSound
<1>7. ModsSound' BY DEF ModsSound, Forking, Furnished, ModPoints
<1>8. LostSound'
  BY
  DEF LostSound, LostFits, Held, Born, Buried, HoldingPoints, Undertaking, ThreadsSound,
      TasksSound
<1>9. SerialsApart' BY DEF SerialsApart
<1> QED BY <1>1, <1>2, <1>3, <1>4, <1>5, <1>6, <1>7, <1>8, <1>9 DEF Places

LEMMA DyingPlaces ==
  ASSUME ProcInv, NEW a \in Actors, NEW t, Dying(a, t)
  PROVE  Places'
<1>0. ProcKinds BY KindsHold
<1>10. /\ \A l \in lost : l \in lost'
       /\ \A b \in Actors : pc[b] \in {"reap", "collect"} =>
            \/ pc'[b] = pc[b] /\ job'[b] = job[b]
            \/ \E l \in lost' : l.at = pc[b] /\ l.job.serial = proc[job[b].desc].serial
  BY DyingLeaves
<1> USE <1>0, <1>10, ProcFacts
    DEF ProcKinds, ProcInv, Places, Dying, Untouched, Alike
<1>1. ThreadsSound' BY DEF ThreadsSound
<1>2. TasksSound' BY DEF TasksSound, ThreadsSound, Born
<1>3. HoldsSound' BY DEF HoldsSound, Held, Born, Buried, HoldingPoints
<1>4. BuriersApart' BY DEF BuriersApart, Undertaking
<1>5. MakersSound' BY DEF MakersSound, Born
<1>6. ForksSound' BY DEF ForksSound, Remains, ThreadsSound
<1>7. ModsSound' BY DEF ModsSound, Forking, Furnished, ModPoints
<1>8. LostSound'
  <2>1. ASSUME NEW l \in lost PROVE LostFits(l)'
    BY <1>0, ProcFacts DEF ProcKinds, ProcInv, Places, LostSound, LostFits, ThreadsSound,
       Held, Born, Buried, HoldingPoints, Undertaking, Dying, Untouched, Alike
  <2>2. PICK r : r = Remains(t) OBVIOUS
  <2>3. r.at = pc[t] /\ r.job = job[t] /\ r.of = proc[body[t]].serial BY <2>2 DEF Remains
  <2>4. LostFits(r)'
    BY <1>0, <2>3, ProcFacts DEF ProcKinds, ProcInv, Places, LostFits, ThreadsSound, TasksSound,
       SerialsApart, HoldsSound, BuriersApart,
       Held, Born, Buried, HoldingPoints, Undertaking, Dying, Untouched, Alike
  <2> QED BY <2>1, <2>2, <2>4 DEF LostSound, Dying
<1>9. SerialsApart' BY DEF SerialsApart
<1> QED BY <1>1, <1>2, <1>3, <1>4, <1>5, <1>6, <1>7, <1>8, <1>9 DEF Places

(***************************************************************************)
(* The count of a process's holders.                                       *)
(***************************************************************************)
Holds(a, d) == pc[a] \in HoldingPoints /\ job[a].desc = d
Part(a, d) == (IF Holds(a, d) THEN 1 ELSE 0) + (IF Own(d) THEN 1 ELSE 0)

LEMMA HoldersMove ==
  ASSUME ProcInv, NEW a \in Actors, NEW y, NEW j, Moves(a, y, j), NEW d
  PROVE  /\ (Holds(a, d) <=> Holds(a, d)') => Cardinality(Holders(d)') = Cardinality(Holders(d))
         /\ ~Holds(a, d) /\ Holds(a, d)' =>
              Cardinality(Holders(d)') = Cardinality(Holders(d)) + 1
         /\ Holds(a, d) /\ ~Holds(a, d)' =>
              Cardinality(Holders(d)') = Cardinality(Holders(d)) - 1 /\ Cardinality(Holders(d)) > 0
<1>1. /\ a \in Holders(d) <=> Holds(a, d)
      /\ a \in Holders(d)' <=> Holds(a, d)'
      /\ \A b \in Actors \ {a} : b \in Holders(d)' <=> b \in Holders(d)
      /\ Holders(d) \subseteq Actors /\ Holders(d)' \subseteq Actors
  BY DEF Holders, Holds, Moves
<1>2. PICK H : H = Holders(d) OBVIOUS
<1>3. PICK N : N = Holders(d)' OBVIOUS
<1>4. IsFiniteSet(H) BY <1>2, HoldersFinite
<1>5. CASE Holds(a, d) <=> Holds(a, d)'
  <2>1. N = H BY <1>1, <1>2, <1>3, <1>5
  <2> QED BY <1>2, <1>3, <1>5, <2>1
<1>6. CASE ~Holds(a, d) /\ Holds(a, d)'
  <2>1. N = H \cup {a} /\ a \notin H BY <1>1, <1>2, <1>3, <1>6
  <2>2. Cardinality(H \cup {a}) = Cardinality(H) + 1 BY <1>4, <2>1, CountOne
  <2> QED BY <1>2, <1>3, <1>6, <2>1, <2>2
<1>7. CASE Holds(a, d) /\ ~Holds(a, d)'
  <2>1. N = H \ {a} /\ a \in H BY <1>1, <1>2, <1>3, <1>7
  <2>2. Cardinality(H \ {a}) = Cardinality(H) - 1 /\ Cardinality(H) > 0 BY <1>4, <2>1, CountOne
  <2> QED BY <1>2, <1>3, <1>7, <2>1, <2>2
<1> QED BY <1>5, <1>6, <1>7

\* What one actor adds to the count is what the count changes by.
LEMMA Shift ==
  ASSUME ProcInv, NEW a \in Actors, NEW y, NEW j, Moves(a, y, j), lost' = lost,
         NEW d \in Descs, proc[d] # Nil, proc'[d].serial = proc[d].serial
  PROVE  /\ proc[d].refs \in Nat /\ Part(a, d) \in Nat /\ proc[d].refs >= Part(a, d)
         /\ proc'[d].refs = proc[d].refs - Part(a, d) + Part(a, d)' => Counted(d)'
<1>1. PICK h \in Nat : h = Cardinality(Holders(d)) BY HoldersFinite
<1>2. PICK n \in Nat : n = Cardinality(LostHolds(proc[d].serial)) BY HoldersFinite
<1>3. proc[d].refs = h + n + (IF Own(d) THEN 1 ELSE 0)
  BY <1>1, <1>2 DEF ProcInv, HoldsCounted, Counted
<1>4. LostHolds(proc[d].serial)' = LostHolds(proc[d].serial) BY DEF LostHolds
<1>5. PICK g : g = Cardinality(Holders(d)') OBVIOUS
<1>6. /\ (Holds(a, d) <=> Holds(a, d)') => g = h
      /\ ~Holds(a, d) /\ Holds(a, d)' => g = h + 1
      /\ Holds(a, d) /\ ~Holds(a, d)' => g = h - 1 /\ h > 0
  BY <1>1, <1>5, HoldersMove
<1>7. Holds(a, d) => h > 0
  <2>1. Holds(a, d) => Holders(d) # {} BY DEF Holds, Holders
  <2>2. h = 0 => Holders(d) = {} BY <1>1, HoldersFinite, FS_EmptySet
  <2> QED BY <2>1, <2>2
<1>8. Counted(d)' <=> proc'[d].refs = g + n + (IF Own(d)' THEN 1 ELSE 0)
  BY <1>2, <1>4, <1>5 DEF Counted
<1> HIDE DEF Holds, Own
<1> QED BY <1>3, <1>6, <1>7, <1>8 DEF Part

\* A process that its fork has not started is held by nobody.
LEMMA Unborn ==
  ASSUME ProcInv, NEW d \in Descs, proc[d] # Nil, ~Born(d)
  PROVE  proc[d].refs = 1
<1>1. Holders(d) = {}
  BY DEF Holders, ProcInv, Places, HoldsSound, Held
<1>2. LostHolds(proc[d].serial) = {}
  BY DEF LostHolds, ProcInv, Places, LostSound, LostFits, Held, SerialsApart
<1>3. Own(d) BY KindsHold DEF ProcKinds, Born, Own
<1> QED BY <1>1, <1>2, <1>3, FS_EmptySet DEF ProcInv, HoldsCounted, Counted

LEMMA QuietCounts ==
  ASSUME ProcInv, NEW a \in Actors, NEW y, NEW j, Quiet(a, y, j)
  PROVE  HoldsCounted'
<1> SUFFICES ASSUME NEW e \in Descs, proc'[e] # Nil PROVE Counted(e)' BY DEF HoldsCounted
<1>1. Moves(a, y, j) /\ lost' = lost BY DEF Quiet, Apart
<1>2. proc[e] # Nil /\ Alike(proc'[e], proc[e]) BY DEF Quiet, Untouched, Alike
<1>3. proc'[e].serial = proc[e].serial /\ proc'[e].refs = proc[e].refs BY <1>2 DEF Alike
<1>4. Holds(a, e)' <=> Holds(a, e)
  BY DEF Quiet, Moves, Holds, HoldingPoints, QuietPoints
<1>5. Own(e)' <=> Own(e)
  BY <1>2, ProcFacts DEF Own, Quiet, Moves, QuietPoints, Untouched, Alike, Apart, kernel
<1>6. Part(a, e)' = Part(a, e) BY <1>4, <1>5 DEF Part
<1> QED BY <1>1, <1>2, <1>3, <1>6, Shift

LEMMA PruningCounts ==
  ASSUME ProcInv, NEW a \in Actors, NEW y, NEW j, NEW gone, Pruning(a, y, j, gone)
  PROVE  HoldsCounted'
<1> SUFFICES ASSUME NEW e \in Descs, proc'[e] # Nil PROVE Counted(e)' BY DEF HoldsCounted
<1>1. Moves(a, y, j) /\ lost' = lost BY DEF Pruning, Apart
<1>2. proc[e] # Nil /\ Alike(proc'[e], proc[e]) BY DEF Pruning, Alike
<1>3. proc'[e].serial = proc[e].serial /\ proc'[e].refs = proc[e].refs BY <1>2 DEF Alike
<1>4. Holds(a, e)' <=> Holds(a, e)
  BY DEF Pruning, Moves, Holds, HoldingPoints, QuietPoints
<1>5. Own(e)' <=> Own(e)
  BY <1>2, ProcFacts DEF Own, Pruning, Moves, Alike, kernel, QuietPoints
<1>6. Part(a, e)' = Part(a, e) BY <1>4, <1>5 DEF Part
<1> QED BY <1>1, <1>2, <1>3, <1>6, Shift

LEMMA PassingCounts ==
  ASSUME ProcInv, NEW a \in Actors, NEW y, Passing(a, y)
  PROVE  HoldsCounted'
<1> SUFFICES ASSUME NEW e \in Descs, proc'[e] # Nil PROVE Counted(e)' BY DEF HoldsCounted
<1>1. Moves(a, y, job[a]) /\ lost' = lost BY DEF Passing, Apart
<1>2. proc[e] # Nil /\ Alike(proc'[e], proc[e]) BY DEF Passing, Untouched, Alike
<1>3. proc'[e].serial = proc[e].serial /\ proc'[e].refs = proc[e].refs BY <1>2 DEF Alike
<1>4. Holds(a, e)' <=> Holds(a, e)
  BY DEF Passing, Moves, Holds, HoldingPoints, QuietPoints
<1>5. Own(e)' <=> Own(e)
  BY <1>2, ProcFacts DEF Own, Passing, Moves, Untouched, Alike, Apart, kernel, QuietPoints
<1>6. Part(a, e)' = Part(a, e) BY <1>4, <1>5 DEF Part
<1> QED BY <1>1, <1>2, <1>3, <1>6, Shift

LEMMA FailingCounts ==
  ASSUME ProcInv, NEW a \in Actors, NEW d, Failing(a, d)
  PROVE  HoldsCounted'
<1>0. ProcKinds BY KindsHold
<1> SUFFICES ASSUME NEW e \in Descs, proc'[e] # Nil PROVE Counted(e)' BY DEF HoldsCounted
<1>1. Moves(a, "undo", job[a]) /\ lost' = lost BY DEF Failing, Apart
<1>2. CASE e # d
  <2>1. proc[e] # Nil /\ Alike(proc'[e], proc[e]) BY <1>2 DEF Failing, Becomes, Alike
  <2>2. proc'[e].serial = proc[e].serial /\ proc'[e].refs = proc[e].refs BY <2>1 DEF Alike
  <2>3. Holds(a, e)' <=> Holds(a, e)
    BY <1>2 DEF Failing, Moves, Holds, HoldingPoints, ProcInv, Places, BuriersApart, Undertaking
  <2>4. Own(e)' <=> Own(e)
    BY <1>0, <1>2, <2>1, ProcFacts
    DEF Own, Failing, Moves, Becomes, Alike, Apart, kernel, ProcKinds, ProcInv, Places,
        ThreadsSound, BuriersApart, Undertaking
  <2>5. Part(a, e)' = Part(a, e) BY <2>3, <2>4 DEF Part
  <2> QED BY <1>1, <2>1, <2>2, <2>5, Shift
<1>3. CASE e = d
  <2>1. proc[d] # Nil /\ proc'[d].serial = proc[d].serial /\ d \in Descs BY DEF Failing, Becomes
  <2>2. ~Holds(a, d) /\ ~Holds(a, d)'
    BY DEF Failing, Moves, Holds, HoldingPoints, ProcInv, Places, BuriersApart, Undertaking
  <2>3. Own(d) /\ ~Own(d)'
    BY <1>0, <2>1, ProcFacts
    DEF Own, Failing, Moves, Becomes, Alike, Apart, kernel, ProcKinds, HoldingPoints, ProcInv,
        Places, ThreadsSound, TasksSound, HoldsSound, Held, Born, Buried, BuriersApart,
        Undertaking, MakersSound, LostSound, LostFits, SerialsApart
  <2>4. /\ proc[d].refs \in Nat /\ Part(a, d) \in Nat /\ proc[d].refs >= Part(a, d)
        /\ proc'[d].refs = proc[d].refs - Part(a, d) + Part(a, d)' => Counted(d)'
    BY <1>1, <2>1, Shift
  <2> HIDE DEF Counted, Own, Holds
  <2> QED
    BY <1>3, <2>2, <2>3, <2>4, Unborn
    DEF Part, Failing, Becomes, Less, ProcInv, Places, MakersSound
<1> QED BY <1>2, <1>3

LEMMA HoldingCounts ==
  ASSUME ProcInv, NEW a \in Actors, NEW d, NEW y, NEW j, Holding(a, d, y, j)
  PROVE  HoldsCounted'
<1>0. ProcKinds BY KindsHold
<1> SUFFICES ASSUME NEW e \in Descs, proc'[e] # Nil PROVE Counted(e)' BY DEF HoldsCounted
<1>1. Moves(a, y, j) /\ lost' = lost BY DEF Holding, Apart
<1>2. CASE e # d
  <2>1. proc[e] # Nil /\ Alike(proc'[e], proc[e]) BY <1>2 DEF Holding, Becomes, Alike
  <2>2. proc'[e].serial = proc[e].serial /\ proc'[e].refs = proc[e].refs BY <2>1 DEF Alike
  <2>3. Holds(a, e)' <=> Holds(a, e)
    BY <1>2 DEF Holding, Moves, Holds, HoldingPoints, ProcInv, Places, BuriersApart, Undertaking
  <2>4. Own(e)' <=> Own(e)
    BY <1>0, <1>2, <2>1, ProcFacts
    DEF Own, Holding, Moves, Becomes, Alike, Apart, kernel, ProcKinds, ProcInv, Places,
        ThreadsSound, BuriersApart, Undertaking
  <2>5. Part(a, e)' = Part(a, e) BY <2>3, <2>4 DEF Part
  <2> QED BY <1>1, <2>1, <2>2, <2>5, Shift
<1>3. CASE e = d
  <2>1. proc[d] # Nil /\ proc'[d].serial = proc[d].serial /\ d \in Descs BY DEF Holding, Becomes
  <2>2. ~Holds(a, d) /\ Holds(a, d)'
    BY DEF Holding, Moves, Holds, HoldingPoints, ProcInv, Places, BuriersApart, Undertaking
  <2>3. Own(d)' <=> Own(d)
    BY <1>0, <2>1, ProcFacts
    DEF Own, Holding, Moves, Becomes, Alike, Apart, kernel, ProcKinds, HoldingPoints, ProcInv,
        Places, ThreadsSound, TasksSound, HoldsSound, Held, Born, Buried, BuriersApart,
        Undertaking, MakersSound, LostSound, LostFits, SerialsApart
  <2>4. /\ proc[d].refs \in Nat /\ Part(a, d) \in Nat /\ proc[d].refs >= Part(a, d)
        /\ proc'[d].refs = proc[d].refs - Part(a, d) + Part(a, d)' => Counted(d)'
    BY <1>1, <2>1, Shift
  <2> HIDE DEF Counted, Own, Holds
  <2> QED BY <1>3, <2>2, <2>3, <2>4 DEF Part, Holding, Becomes, Less
<1> QED BY <1>2, <1>3

LEMMA DroppingCounts ==
  ASSUME ProcInv, NEW a \in Actors, NEW d, NEW y, NEW j, Dropping(a, d, y, j)
  PROVE  HoldsCounted'
<1>0. ProcKinds BY KindsHold
<1> SUFFICES ASSUME NEW e \in Descs, proc'[e] # Nil PROVE Counted(e)' BY DEF HoldsCounted
<1>1. Moves(a, y, j) /\ lost' = lost BY DEF Dropping, Apart
<1>2. CASE e # d
  <2>1. proc[e] # Nil /\ Alike(proc'[e], proc[e]) BY <1>2 DEF Dropping, Becomes, Alike
  <2>2. proc'[e].serial = proc[e].serial /\ proc'[e].refs = proc[e].refs BY <2>1 DEF Alike
  <2>3. Holds(a, e)' <=> Holds(a, e)
    BY <1>2
    DEF Dropping, Moves, Holds, HoldingPoints, ProcInv, Places, BuriersApart, Undertaking
  <2>4. Own(e)' <=> Own(e)
    BY <1>0, <1>2, <2>1, ProcFacts
    DEF Own, Dropping, Moves, Becomes, Alike, Apart, kernel, ProcKinds, ProcInv, Places,
        ThreadsSound, BuriersApart, Undertaking
  <2>5. Part(a, e)' = Part(a, e) BY <2>3, <2>4 DEF Part
  <2> QED BY <1>1, <2>1, <2>2, <2>5, Shift
<1>3. CASE e = d
  <2>1. proc[d] # Nil /\ proc'[d].serial = proc[d].serial /\ d \in Descs
    BY DEF Dropping, Becomes
  <2>2. Holds(a, d) /\ ~Holds(a, d)'
    BY DEF Dropping, Moves, Holds, HoldingPoints, ProcInv, Places, BuriersApart, Undertaking
  <2>3. Own(d)' <=> Own(d)
    BY <1>0, <2>1, ProcFacts
    DEF Own, Dropping, Moves, Becomes, Apart, kernel, ProcKinds, ProcInv, Places,
        ThreadsSound
  <2>4. /\ proc[d].refs \in Nat /\ Part(a, d) \in Nat /\ proc[d].refs >= Part(a, d)
        /\ proc'[d].refs = proc[d].refs - Part(a, d) + Part(a, d)' => Counted(d)'
    BY <1>1, <2>1, Shift
  <2> HIDE DEF Counted, Own, Holds
  <2> QED BY <1>3, <2>2, <2>3, <2>4 DEF Part, Dropping, Becomes, Less
<1> QED BY <1>2, <1>3

LEMMA ClaimingCounts ==
  ASSUME ProcInv, NEW a \in Actors, NEW d, NEW j, Claiming(a, d, j)
  PROVE  HoldsCounted'
<1>0. ProcKinds BY KindsHold
<1> SUFFICES ASSUME NEW e \in Descs, proc'[e] # Nil PROVE Counted(e)' BY DEF HoldsCounted
<1>1. Moves(a, "collect", j) /\ lost' = lost BY DEF Claiming, Apart
<1>2. CASE e # d
  <2>1. proc[e] # Nil /\ Alike(proc'[e], proc[e]) BY <1>2 DEF Claiming, Becomes, Alike
  <2>2. proc'[e].serial = proc[e].serial /\ proc'[e].refs = proc[e].refs BY <2>1 DEF Alike
  <2>3. Holds(a, e)' <=> Holds(a, e)
    BY <1>2
    DEF Claiming, Moves, Holds, HoldingPoints, ProcInv, Places, BuriersApart, Undertaking
  <2>4. Own(e)' <=> Own(e)
    BY <1>0, <1>2, <2>1, ProcFacts
    DEF Own, Claiming, Faulted, Moves, Becomes, Alike, Apart, kernel, ProcKinds, ProcInv,
        Places, ThreadsSound, BuriersApart, Undertaking
  <2>5. Part(a, e)' = Part(a, e) BY <2>3, <2>4 DEF Part
  <2> QED BY <1>1, <2>1, <2>2, <2>5, Shift
<1>3. CASE e = d
  <2>1. proc[d] # Nil /\ proc'[d].serial = proc[d].serial /\ d \in Descs
    BY DEF Claiming, Becomes
  <2>2. Holds(a, d) /\ Holds(a, d)'
    BY DEF Claiming, Moves, Holds, HoldingPoints, ProcInv, Places, BuriersApart, Undertaking
  <2>3. Own(d)' <=> Own(d)
    BY <1>0, <2>1, ProcFacts
    DEF Own, Claiming, Faulted, Moves, Becomes, Alike, Apart, kernel, ProcKinds,
        HoldingPoints, ProcInv, Places, ThreadsSound, TasksSound, HoldsSound, Held, Born,
        Buried, BuriersApart, Undertaking, MakersSound, LostSound, LostFits, SerialsApart
  <2>4. /\ proc[d].refs \in Nat /\ Part(a, d) \in Nat /\ proc[d].refs >= Part(a, d)
        /\ proc'[d].refs = proc[d].refs - Part(a, d) + Part(a, d)' => Counted(d)'
    BY <1>1, <2>1, Shift
  <2> HIDE DEF Counted, Own, Holds
  <2> QED BY <1>3, <2>2, <2>3, <2>4 DEF Part, Claiming, Becomes, Less
<1> QED BY <1>2, <1>3

LEMMA CollectingCounts ==
  ASSUME ProcInv, NEW a \in Actors, NEW d, NEW j, Collecting(a, d, j)
  PROVE  HoldsCounted'
<1>0. ProcKinds BY KindsHold
<1> SUFFICES ASSUME NEW e \in Descs, proc'[e] # Nil PROVE Counted(e)' BY DEF HoldsCounted
<1>1. Moves(a, "reap", j) /\ lost' = lost BY DEF Collecting, Apart
<1>2. CASE e # d
  <2>1. proc[e] # Nil /\ Alike(proc'[e], proc[e]) BY <1>2 DEF Collecting, Becomes, Alike
  <2>2. proc'[e].serial = proc[e].serial /\ proc'[e].refs = proc[e].refs BY <2>1 DEF Alike
  <2>3. Holds(a, e)' <=> Holds(a, e)
    BY <1>2
    DEF Collecting, Moves, Holds, HoldingPoints, ProcInv, Places, BuriersApart, Undertaking
  <2>4. Own(e)' <=> Own(e)
    BY <1>0, <1>2, <2>1, ProcFacts
    DEF Own, Collecting, Moves, Becomes, Alike, Apart, kernel, ProcKinds, ProcInv, Places,
        ThreadsSound, BuriersApart, Undertaking
  <2>5. Part(a, e)' = Part(a, e) BY <2>3, <2>4 DEF Part
  <2> QED BY <1>1, <2>1, <2>2, <2>5, Shift
<1>3. CASE e = d
  <2>1. proc[d] # Nil /\ proc'[d].serial = proc[d].serial /\ d \in Descs
    BY DEF Collecting, Becomes
  <2>2. Holds(a, d) /\ Holds(a, d)'
    BY DEF Collecting, Moves, Holds, HoldingPoints, ProcInv, Places, BuriersApart, Undertaking
  <2>3. Own(d) /\ Own(d)'
    BY <1>0, <2>1, ProcFacts
    DEF Own, Collecting, Moves, HoldingPoints, ProcInv, Places, TasksSound, HoldsSound, Held
  <2>4. /\ proc[d].refs \in Nat /\ Part(a, d) \in Nat /\ proc[d].refs >= Part(a, d)
        /\ proc'[d].refs = proc[d].refs - Part(a, d) + Part(a, d)' => Counted(d)'
    BY <1>1, <2>1, Shift
  <2> HIDE DEF Counted, Own, Holds
  <2> QED BY <1>3, <2>2, <2>3, <2>4 DEF Part, Collecting, Becomes, Less
<1> QED BY <1>2, <1>3

LEMMA ReapingCounts ==
  ASSUME ProcInv, NEW a \in Actors, NEW d, NEW j, Reaping(a, d, j)
  PROVE  HoldsCounted'
<1>0. ProcKinds BY KindsHold
<1> SUFFICES ASSUME NEW e \in Descs, proc'[e] # Nil PROVE Counted(e)' BY DEF HoldsCounted
<1>1. Moves(a, job[a].back, j) /\ lost' = lost BY DEF Reaping, Apart
<1>2. CASE e # d
  <2>1. proc[e] # Nil /\ Alike(proc'[e], proc[e]) BY <1>2 DEF Reaping, Becomes, Alike
  <2>2. proc'[e].serial = proc[e].serial /\ proc'[e].refs = proc[e].refs BY <2>1 DEF Alike
  <2>3. Holds(a, e)' <=> Holds(a, e)
    BY <1>2 DEF Reaping, Moves, Holds, HoldingPoints, ProcInv, Places, BuriersApart, Undertaking
  <2>4. Own(e)' <=> Own(e)
    BY <1>0, <1>2, <2>1, ProcFacts
    DEF Own, Reaping, Moves, Becomes, Alike, ProcKinds, ProcInv, Places, ThreadsSound,
        BuriersApart, Undertaking
  <2>5. Part(a, e)' = Part(a, e) BY <2>3, <2>4 DEF Part
  <2> QED BY <1>1, <2>1, <2>2, <2>5, Shift
<1>3. CASE e = d
  <2>1. proc[d] # Nil /\ proc'[d].serial = proc[d].serial /\ d \in Descs BY DEF Reaping, Becomes
  <2>2. Holds(a, d) /\ Holds(a, d)'
    BY DEF Reaping, Moves, Holds, HoldingPoints, ProcInv, Places, BuriersApart, Undertaking
  <2>3. Own(d) /\ ~Own(d)'
    <3>1. pc[a] = "reap" /\ job[a].desc = d /\ job[a].back \in {"wait", "watch"}
      BY DEF Reaping, ProcInv, Places, BuriersApart, Undertaking
    <3>2. Buried(d) /\ job[a].serial = proc[d].serial
      BY <3>1 DEF ProcInv, Places, HoldsSound, Held, HoldingPoints
    <3>3. proc'[d].state = "exited" BY <3>2 DEF Buried, Reaping, Becomes
    <3>4. ASSUME NEW u \in Slots, pc'[u] = "bury", body'[u] = d PROVE FALSE
      <4>1. u # a /\ pc[u] = "bury" /\ body[u] = d
        BY <2>1, <3>1, <3>4, ProcFacts DEF Reaping, Moves
      <4> QED BY <3>2, <4>1 DEF Buried, ProcInv, Places, ThreadsSound
    <3>5. ASSUME NEW b \in Actors, pc'[b] = "reap", job'[b].desc = d PROVE FALSE
      <4>1. b # a /\ pc[b] = "reap" /\ job[b].desc = d BY <3>1, <3>5 DEF Reaping, Moves
      <4> QED BY <3>1, <4>1 DEF ProcInv, Places, BuriersApart, Undertaking
    <3>6. ASSUME NEW l \in lost, l.at = "reap", l.job.serial = proc[d].serial PROVE FALSE
      BY <3>1, <3>2, <3>6 DEF ProcInv, Places, LostSound, LostFits, Undertaking
    <3> QED BY <2>1, <1>1, <3>1, <3>3, <3>4, <3>5, <3>6 DEF Own
  <2>4. /\ proc[d].refs \in Nat /\ Part(a, d) \in Nat /\ proc[d].refs >= Part(a, d)
        /\ proc'[d].refs = proc[d].refs - Part(a, d) + Part(a, d)' => Counted(d)'
    BY <1>1, <2>1, Shift
  <2> HIDE DEF Counted, Own, Holds
  <2> QED BY <1>3, <2>2, <2>3, <2>4 DEF Part, Reaping, Becomes, Less
<1> QED BY <1>2, <1>3

LEMMA FinishingCounts ==
  ASSUME ProcInv, NEW a \in Actors, NEW d, Finishing(a, d)
  PROVE  HoldsCounted'
<1>0. ProcKinds BY KindsHold
<1> SUFFICES ASSUME NEW e \in Descs, proc'[e] # Nil PROVE Counted(e)' BY DEF HoldsCounted
<1>1. Moves(a, "bury", job[a]) /\ lost' = lost BY DEF Finishing, Apart
<1>2. CASE e # d
  <2>1. proc[e] # Nil /\ Alike(proc'[e], proc[e]) BY <1>2 DEF Finishing, Becomes, Alike
  <2>2. proc'[e].serial = proc[e].serial /\ proc'[e].refs = proc[e].refs BY <2>1 DEF Alike
  <2>3. Holds(a, e)' <=> Holds(a, e)
    BY <1>2
    DEF Finishing, Moves, Holds, HoldingPoints, ProcInv, Places, BuriersApart, Undertaking
  <2>4. Own(e)' <=> Own(e)
    BY <1>0, <1>2, <2>1, ProcFacts
    DEF Own, Finishing, Moves, Becomes, Alike, Apart, kernel, ProcKinds, ProcInv, Places,
        ThreadsSound, BuriersApart, Undertaking
  <2>5. Part(a, e)' = Part(a, e) BY <2>3, <2>4 DEF Part
  <2> QED BY <1>1, <2>1, <2>2, <2>5, Shift
<1>3. CASE e = d
  <2>1. proc[d] # Nil /\ proc'[d].serial = proc[d].serial /\ d \in Descs
    BY DEF Finishing, Becomes
  <2>2. ~Holds(a, d) /\ ~Holds(a, d)'
    BY DEF Finishing, Moves, Holds, HoldingPoints, ProcInv, Places, BuriersApart, Undertaking
  <2>3. Own(d) /\ Own(d)'
    BY <1>0, <2>1, ProcFacts
    DEF Own, Finishing, Moves, Becomes, Alike, Apart, kernel, ProcKinds, HoldingPoints,
        ProcInv, Places, ThreadsSound, TasksSound, HoldsSound, Held, Born, Buried,
        BuriersApart, Undertaking, MakersSound, LostSound, LostFits, SerialsApart
  <2>4. /\ proc[d].refs \in Nat /\ Part(a, d) \in Nat /\ proc[d].refs >= Part(a, d)
        /\ proc'[d].refs = proc[d].refs - Part(a, d) + Part(a, d)' => Counted(d)'
    BY <1>1, <2>1, Shift
  <2> HIDE DEF Counted, Own, Holds
  <2> QED BY <1>3, <2>2, <2>3, <2>4 DEF Part, Finishing, Becomes, Less
<1> QED BY <1>2, <1>3

LEMMA BuryingCounts ==
  ASSUME ProcInv, NEW a \in Actors, NEW d, Burying(a, d)
  PROVE  HoldsCounted'
<1>0. ProcKinds BY KindsHold
<1> SUFFICES ASSUME NEW e \in Descs, proc'[e] # Nil PROVE Counted(e)' BY DEF HoldsCounted
<1>1. Moves(a, "none", job[a]) /\ lost' = lost BY DEF Burying, Apart
<1>2. CASE e # d
  <2>1. proc[e] # Nil /\ Alike(proc'[e], proc[e]) BY <1>2 DEF Burying, Becomes, Alike
  <2>2. proc'[e].serial = proc[e].serial /\ proc'[e].refs = proc[e].refs BY <2>1 DEF Alike
  <2>3. Holds(a, e)' <=> Holds(a, e)
    BY <1>2 DEF Burying, Moves, Holds, HoldingPoints, ProcInv, Places, BuriersApart, Undertaking
  <2>4. Own(e)' <=> Own(e)
    BY <1>0, <1>2, <2>1, ProcFacts
    DEF Own, Burying, Moves, Becomes, Alike, ProcKinds, ProcInv, Places, ThreadsSound,
        BuriersApart, Undertaking
  <2>5. Part(a, e)' = Part(a, e) BY <2>3, <2>4 DEF Part
  <2> QED BY <1>1, <2>1, <2>2, <2>5, Shift
<1>3. CASE e = d
  <2>1. proc[d] # Nil /\ proc'[d].serial = proc[d].serial /\ d \in Descs BY DEF Burying, Becomes
  <2>2. ~Holds(a, d) /\ ~Holds(a, d)'
    BY DEF Burying, Moves, Holds, HoldingPoints, ProcInv, Places, BuriersApart, Undertaking
  <2>3. Own(d) /\ ~Own(d)'
    BY <1>0, <2>1, ProcFacts
    DEF Own, Burying, Moves, Becomes, Alike, ProcKinds, HoldingPoints, ProcInv, Places,
        ThreadsSound, TasksSound, HoldsSound, Held, Born, Buried, BuriersApart, Undertaking,
        MakersSound, LostSound, LostFits, SerialsApart
  <2>4. /\ proc[d].refs \in Nat /\ Part(a, d) \in Nat /\ proc[d].refs >= Part(a, d)
        /\ proc'[d].refs = proc[d].refs - Part(a, d) + Part(a, d)' => Counted(d)'
    BY <1>1, <2>1, Shift
  <2> HIDE DEF Counted, Own, Holds
  <2> QED BY <1>3, <2>2, <2>3, <2>4 DEF Part, Burying, Becomes, Less
<1> QED BY <1>2, <1>3

LEMMA InsertingCounts ==
  ASSUME ProcInv, NEW a \in Actors, NEW d, NEW j, Inserting(a, d, j)
  PROVE  HoldsCounted'
<1>0. ProcKinds BY KindsHold
<1> SUFFICES ASSUME NEW e \in Descs, proc'[e] # Nil PROVE Counted(e)' BY DEF HoldsCounted
<1>1. Moves(a, "create", j) /\ lost' = lost BY DEF Inserting, Apart
<1>2. CASE e # d
  <2>1. proc[e] # Nil /\ Alike(proc'[e], proc[e]) BY <1>2 DEF Inserting, Alike
  <2>2. proc'[e].serial = proc[e].serial /\ proc'[e].refs = proc[e].refs BY <2>1 DEF Alike
  <2>3. Holds(a, e)' <=> Holds(a, e) BY DEF Inserting, Moves, Holds, HoldingPoints
  <2>4. Own(e)' <=> Own(e)
    BY <2>1, ProcFacts DEF Own, Inserting, Moves, Alike, Apart, kernel
  <2>5. Part(a, e)' = Part(a, e) BY <2>3, <2>4 DEF Part
  <2> QED BY <1>1, <2>1, <2>2, <2>5, Shift
<1>3. CASE e = d
  <2>1. proc'[d].refs = 1 /\ proc'[d].state = "active" /\ proc'[d].serial = job[a].serial
    BY DEF Inserting
  <2>2. Own(d)' BY <2>1 DEF Own
  <2>3. Holders(d)' = {}
    BY DEF Inserting, Moves, Holders, HoldingPoints, ProcInv, Places, HoldsSound, Held
  <2>4. LostHolds(proc[d].serial)' = {}
    BY <1>1, <2>1
    DEF Inserting, LostHolds, ProcInv, Places, LostSound, LostFits, Held, ForksSound
  <2>5. Cardinality(Holders(d)') = 0 /\ Cardinality(LostHolds(proc[d].serial)') = 0
    BY <2>3, <2>4, FS_EmptySet
  <2> HIDE DEF Own
  <2> QED BY <1>3, <2>1, <2>2, <2>5 DEF Counted
<1> QED BY <1>2, <1>3

LEMMA StartingCounts ==
  ASSUME ProcInv, NEW a \in Actors, NEW t, NEW d, Starting(a, t, d)
  PROVE  HoldsCounted'
<1>0. ProcKinds BY KindsHold
<1> SUFFICES ASSUME NEW e \in Descs, proc'[e] # Nil PROVE Counted(e)' BY DEF HoldsCounted
<1>1. /\ proc[e] # Nil /\ proc'[e].serial = proc[e].serial /\ proc'[e].refs = proc[e].refs
      /\ proc'[e].state = proc[e].state
  BY DEF Starting, Becomes, Alike
<1>2. t \in Actors /\ (t \in Slots => pc[t] = "none")
  BY ProcFacts DEF Starting, ProcInv, Places, ThreadsSound
<1>3. Holders(e)' = Holders(e) BY <1>2 DEF Starting, Holders, HoldingPoints
<1>4. LostHolds(proc[e].serial)' = LostHolds(proc[e].serial) BY <1>1 DEF Starting, LostHolds
<1>5. Own(e)' <=> Own(e)
  BY <1>1, <1>2, ProcFacts
  DEF Own, Starting, ProcInv, Places, MakersSound, Born, TasksSound
<1>6. Counted(e) BY <1>1 DEF ProcInv, HoldsCounted
<1> HIDE DEF Own, Holders, LostHolds
<1> QED BY <1>1, <1>3, <1>4, <1>5, <1>6 DEF Counted

LEMMA DyingCounts ==
  ASSUME ProcInv, NEW a \in Actors, NEW t, Dying(a, t)
  PROVE  HoldsCounted'
<1>0. ProcKinds BY KindsHold
<1> SUFFICES ASSUME NEW e \in Descs, proc'[e] # Nil PROVE Counted(e)' BY DEF HoldsCounted
<1>1. /\ proc[e] # Nil /\ proc'[e].serial = proc[e].serial /\ proc'[e].refs = proc[e].refs
      /\ proc'[e].state = proc[e].state
  BY DEF Dying, Untouched, Alike
<1>2. t \in Actors /\ t \in Slots /\ body' = body BY ProcFacts DEF Dying
<1>3. PICK r : r = Remains(t) OBVIOUS
<1>4. r.at = pc[t] /\ r.job = job[t] /\ r.of = proc[body[t]].serial BY <1>3 DEF Remains
<1>5. lost' = IF pc[t] = "idle" \/ pc[t] = "exit" THEN lost ELSE lost \cup {r}
  BY <1>3 DEF Dying
<1>6. r \notin lost
  <2>1. body[t] \in Descs /\ proc[body[t]] # Nil /\ proc[body[t]].state = "active"
    BY <1>0, <1>2 DEF Dying, ProcKinds, ProcInv, Places, ThreadsSound
  <2>2. proc[body[t]].task = t
    BY <1>0, <1>2, <2>1, ProcFacts DEF ProcKinds, ProcInv, Places, ThreadsSound, TasksSound
  <2> QED BY <1>4, <2>1, <2>2 DEF Dying, ProcInv, Places, LostSound, LostFits
<1>7. pc[t] \in HoldingPoints =>
        job[t].desc \in Descs /\ proc[job[t].desc] # Nil
        /\ proc[job[t].desc].serial = job[t].serial
  BY <1>2 DEF ProcInv, Places, HoldsSound, Held
<1>8. Holds(t, e) <=> pc[t] \in HoldingPoints /\ job[t].serial = proc[e].serial
  BY <1>1, <1>7 DEF Holds, ProcInv, Places, SerialsApart
<1>9. Holders(e)' = Holders(e) \ {t} /\ (t \in Holders(e) <=> Holds(t, e))
  BY <1>2 DEF Dying, Holders, Holds, HoldingPoints
<1>10. LostHolds(proc[e].serial)' =
         IF Holds(t, e) THEN LostHolds(proc[e].serial) \cup {r} ELSE LostHolds(proc[e].serial)
  BY <1>1, <1>4, <1>5, <1>8 DEF LostHolds, HoldingPoints
<1>11. Own(e)' <=> Own(e)
  <2>1. pc[t] = "reap" => lost' = lost \cup {r} BY <1>5
  <2>2. (\E l \in lost' : l.at = "reap" /\ l.job.serial = proc[e].serial)
        <=> \/ \E l \in lost : l.at = "reap" /\ l.job.serial = proc[e].serial
            \/ pc[t] = "reap" /\ job[t].desc = e
    BY <1>4, <1>5, <1>8 DEF Holds, HoldingPoints
  <2>3. (\E b \in Actors : pc'[b] = "reap" /\ job'[b].desc = e)
        <=> \E b \in Actors \ {t} : pc[b] = "reap" /\ job[b].desc = e
    BY DEF Dying
  <2>4. \A u \in Slots : pc'[u] = "bury" <=> pc[u] = "bury" BY ProcFacts DEF Dying
  <2> QED BY <1>1, <1>2, <2>2, <2>3, <2>4 DEF Own
<1>12. Counted(e) BY <1>1 DEF ProcInv, HoldsCounted
<1>13. PICK H : H = Holders(e) OBVIOUS
<1>14. PICK L : L = LostHolds(proc[e].serial) OBVIOUS
<1>15. IsFiniteSet(H) /\ IsFiniteSet(L) BY <1>13, <1>14, HoldersFinite
<1>16. r \notin L BY <1>6, <1>14 DEF LostHolds
<1>17. CASE Holds(t, e)
  <2>1. /\ Cardinality(H \ {t}) = Cardinality(H) - 1 /\ Cardinality(L \cup {r}) = Cardinality(L) + 1
        /\ Cardinality(H) \in Nat /\ Cardinality(L) \in Nat
    BY <1>9, <1>13, <1>15, <1>16, <1>17, CountOne
  <2>2. Cardinality(Holders(e)') = Cardinality(H) - 1 BY <1>9, <1>13, <2>1
  <2>3. Cardinality(LostHolds(proc[e].serial)') = Cardinality(L) + 1
    BY <1>10, <1>14, <1>17, <2>1
  <2> HIDE DEF Own, Holders, LostHolds
  <2> QED BY <1>1, <1>11, <1>12, <1>13, <1>14, <2>1, <2>2, <2>3 DEF Counted
<1>18. CASE ~Holds(t, e)
  <2>1. Holders(e)' = Holders(e) BY <1>9, <1>18
  <2>2. LostHolds(proc[e].serial)' = LostHolds(proc[e].serial) BY <1>10, <1>18
  <2> HIDE DEF Own, Holders, LostHolds
  <2> QED BY <1>1, <1>11, <1>12, <2>1, <2>2 DEF Counted
<1> QED BY <1>17, <1>18

(***************************************************************************)
(* The table's fields, the lists, and what is in hand.                     *)
(***************************************************************************)
Sets(P, Q, d, state, task, refs, collecting, mod) ==
  /\ Q \in ProcTable /\ Q[d] # Nil /\ Q[d].serial = P[d].serial
  /\ Q[d].state = state /\ Q[d].task = task /\ Q[d].refs = refs
  /\ Q[d].collecting = collecting /\ Q[d].mod = mod
  /\ \A e \in Descs \ {d} : Q[e] = P[e]

LEMMA SetOne ==
  ASSUME NEW P \in ProcTable, NEW d \in Descs, NEW q \in ProcRecord, q.serial = P[d].serial
  PROVE  Sets(P, [P EXCEPT ![d] = q], d, q.state, q.task, q.refs, q.collecting, q.mod)
BY ProcFacts DEF Sets, ProcTable

LEMMA RefsSet ==
  ASSUME NEW P \in ProcTable, NEW d \in Descs, P[d] # Nil, NEW n \in Nat
  PROVE  Sets(P, [P EXCEPT ![d].refs = n], d,
              P[d].state, P[d].task, n, P[d].collecting, P[d].mod)
<1>1. PICK r \in ProcRecord : r = P[d] BY DEF ProcTable
<1>2. PICK q \in ProcRecord : q = [r EXCEPT !.refs = n] BY <1>1 DEF ProcRecord
<1>3. /\ q.serial = r.serial /\ q.state = r.state /\ q.task = r.task /\ q.refs = n
      /\ q.collecting = r.collecting /\ q.mod = r.mod
  BY <1>1, <1>2 DEF ProcRecord
<1>4. [P EXCEPT ![d].refs = n] = [P EXCEPT ![d] = q] BY <1>1, <1>2
<1> QED BY <1>1, <1>3, <1>4, SetOne

LEMMA TaskSet ==
  ASSUME NEW P \in ProcTable, NEW d \in Descs, P[d] # Nil, NEW t \in Slots \cup {Nil}
  PROVE  Sets(P, [P EXCEPT ![d].task = t], d,
              P[d].state, t, P[d].refs, P[d].collecting, P[d].mod)
<1>1. PICK r \in ProcRecord : r = P[d] BY DEF ProcTable
<1>2. PICK q \in ProcRecord : q = [r EXCEPT !.task = t] BY <1>1 DEF ProcRecord
<1>3. /\ q.serial = r.serial /\ q.state = r.state /\ q.task = t /\ q.refs = r.refs
      /\ q.collecting = r.collecting /\ q.mod = r.mod
  BY <1>1, <1>2 DEF ProcRecord
<1>4. [P EXCEPT ![d].task = t] = [P EXCEPT ![d] = q] BY <1>1, <1>2
<1> QED BY <1>1, <1>3, <1>4, SetOne

LEMMA CollectingSet ==
  ASSUME NEW P \in ProcTable, NEW d \in Descs, P[d] # Nil, NEW c \in BOOLEAN
  PROVE  Sets(P, [P EXCEPT ![d].collecting = c], d,
              P[d].state, P[d].task, P[d].refs, c, P[d].mod)
<1>1. PICK r \in ProcRecord : r = P[d] BY DEF ProcTable
<1>2. PICK q \in ProcRecord : q = [r EXCEPT !.collecting = c] BY <1>1 DEF ProcRecord
<1>3. /\ q.serial = r.serial /\ q.state = r.state /\ q.task = r.task /\ q.refs = r.refs
      /\ q.collecting = c /\ q.mod = r.mod
  BY <1>1, <1>2 DEF ProcRecord
<1>4. [P EXCEPT ![d].collecting = c] = [P EXCEPT ![d] = q] BY <1>1, <1>2
<1> QED BY <1>1, <1>3, <1>4, SetOne

LEMMA WaitedSet ==
  ASSUME NEW P \in ProcTable, NEW d \in Descs, P[d] # Nil, NEW w \in BOOLEAN
  PROVE  Sets(P, [P EXCEPT ![d].waited = w], d,
              P[d].state, P[d].task, P[d].refs, P[d].collecting, P[d].mod)
<1>1. PICK r \in ProcRecord : r = P[d] BY DEF ProcTable
<1>2. PICK q \in ProcRecord : q = [r EXCEPT !.waited = w] BY <1>1 DEF ProcRecord
<1>3. /\ q.serial = r.serial /\ q.state = r.state /\ q.task = r.task /\ q.refs = r.refs
      /\ q.collecting = r.collecting /\ q.mod = r.mod
  BY <1>1, <1>2 DEF ProcRecord
<1>4. [P EXCEPT ![d].waited = w] = [P EXCEPT ![d] = q] BY <1>1, <1>2
<1> QED BY <1>1, <1>3, <1>4, SetOne

LEMMA ModSet ==
  ASSUME NEW P \in ProcTable, NEW d \in Descs, P[d] # Nil, NEW m \in Mods
  PROVE  Sets(P, [P EXCEPT ![d].mod = m], d,
              P[d].state, P[d].task, P[d].refs, P[d].collecting, m)
<1>1. PICK r \in ProcRecord : r = P[d] BY DEF ProcTable
<1>2. PICK q \in ProcRecord : q = [r EXCEPT !.mod = m] BY <1>1 DEF ProcRecord
<1>3. /\ q.serial = r.serial /\ q.state = r.state /\ q.task = r.task /\ q.refs = r.refs
      /\ q.collecting = r.collecting /\ q.mod = m
  BY <1>1, <1>2 DEF ProcRecord
<1>4. [P EXCEPT ![d].mod = m] = [P EXCEPT ![d] = q] BY <1>1, <1>2
<1> QED BY <1>1, <1>3, <1>4, SetOne

\* The two lists.
SameStates(d) == \A e \in Descs \ {d} :
  /\ proc'[e] = Nil <=> proc[e] = Nil
  /\ proc[e] # Nil => proc'[e].state = proc[e].state

LEMMA AlikeStates ==
  ASSUME NEW d, \A e \in Descs \ {d} : Alike(proc'[e], proc[e])
  PROVE  SameStates(d)
BY DEF SameStates, Alike

LEMMA ListsSame ==
  ASSUME ListsSound, UNCHANGED <<list, ended>>, SameStates(Nil)
  PROVE  ListsSound'
<1>1. Nil \notin Descs BY ProcFacts
<1>2. Listed' = Listed /\ Living' = Living BY <1>1 DEF Listed, Living, SameStates
<1> QED BY <1>2 DEF ListsSound

LEMMA ListsKeep ==
  ASSUME ListsSound, UNCHANGED <<list, ended>>, NEW d \in Descs, SameStates(d),
         proc[d] # Nil, proc'[d] # Nil, proc'[d].state = proc[d].state
  PROVE  ListsSound'
<1>1. Listed' = Listed /\ Living' = Living BY DEF Listed, Living, SameStates
<1> QED BY <1>1 DEF ListsSound

LEMMA ListsEnd ==
  ASSUME ListsSound, list' = list, NEW d \in Descs, SameStates(d), ended' = Append(ended, d),
         proc[d] # Nil, proc[d].state = "active", proc'[d] # Nil, proc'[d].state = "exited"
  PROVE  ListsSound'
<1>1. Listed' = Listed /\ Living' = Living \ {d} /\ d \in Living
  BY DEF Listed, Living, SameStates
<1>2. PICK s \in Seq(Descs) : s = ended BY DEF ListsSound
<1>3. PICK n \in Nat : n = Len(s) /\ DOMAIN s = 1..n BY <1>2
<1>4. PICK z : z = Append(s, d) OBVIOUS
<1>5. /\ z \in Seq(Descs) /\ DOMAIN z = 1..n + 1 /\ z[n + 1] = d
      /\ \A i \in 1..n : z[i] = s[i]
  BY <1>2, <1>3, <1>4
<1>6. ToSet(z) = ToSet(s) \cup {d}
  <2>1. ASSUME NEW x \in ToSet(z) PROVE x \in ToSet(s) \cup {d}
    <3>1. PICK i \in 1..n + 1 : x = z[i] BY <1>5 DEF ToSet
    <3>2. i \in 1..n \/ i = n + 1 OBVIOUS
    <3> QED BY <1>3, <1>5, <3>1, <3>2 DEF ToSet
  <2>2. ASSUME NEW x \in ToSet(s) \cup {d} PROVE x \in ToSet(z)
    <3>1. CASE x \in ToSet(s)
      <4>1. PICK i \in 1..n : x = s[i] BY <1>3, <3>1 DEF ToSet
      <4>2. i \in 1..n + 1 OBVIOUS
      <4> QED BY <1>5, <4>1, <4>2 DEF ToSet
    <3>2. CASE x = d
      <4>1. n + 1 \in 1..n + 1 OBVIOUS
      <4> QED BY <1>5, <3>2, <4>1 DEF ToSet
    <3> QED BY <3>1, <3>2
  <2> QED BY <2>1, <2>2
<1>7. d \notin ToSet(s) BY <1>1, <1>2 DEF ListsSound
<1>8. Once(z)
  <2>1. ASSUME NEW i \in 1..n PROVE z[i] # d BY <1>3, <1>5, <1>7, <2>1 DEF ToSet
  <2> SUFFICES ASSUME NEW i \in 1..n + 1, NEW j \in 1..n + 1, z[i] = z[j] PROVE i = j
    BY <1>5 DEF Once
  <2>2. (i \in 1..n \/ i = n + 1) /\ (j \in 1..n \/ j = n + 1) OBVIOUS
  <2>3. \A k, l \in 1..n : s[k] = s[l] => k = l BY <1>2, <1>3 DEF Once, ListsSound
  <2> QED BY <1>5, <2>1, <2>2, <2>3
<1> QED BY <1>1, <1>2, <1>4, <1>5, <1>6, <1>8 DEF ListsSound, Living

LEMMA ListsInsert ==
  ASSUME ListsSound, ended' = ended, NEW d \in Descs, SameStates(d), list' = <<d>> \o list,
         proc[d] = Nil, proc'[d] # Nil, proc'[d].state = "active"
  PROVE  ListsSound'
<1>1. Listed' = Listed \cup {d} /\ Living' = Living \cup {d} /\ d \notin Listed
  BY DEF Listed, Living, SameStates
<1>2. PICK s \in Seq(Descs) : s = list BY DEF ListsSound
<1>3. PICK n \in Nat : n = Len(s) /\ DOMAIN s = 1..n BY <1>2
<1>4. PICK z : z = <<d>> \o s OBVIOUS
<1>5. /\ z \in Seq(Descs) /\ DOMAIN z = 1..n + 1 /\ z[1] = d
      /\ \A i \in 1..n : z[i + 1] = s[i]
  BY <1>2, <1>3, <1>4
<1>6. \A i \in 1..n + 1 : i = 1 \/ (i - 1 \in 1..n /\ z[i] = s[i - 1])
  <2> SUFFICES ASSUME NEW i \in 1..n + 1, i # 1 PROVE i - 1 \in 1..n /\ z[i] = s[i - 1]
    OBVIOUS
  <2>1. i - 1 \in 1..n /\ (i - 1) + 1 = i OBVIOUS
  <2> QED BY <1>5, <2>1
<1>7. ToSet(z) = ToSet(s) \cup {d}
  <2>1. ASSUME NEW x \in ToSet(z) PROVE x \in ToSet(s) \cup {d}
    <3>1. PICK i \in 1..n + 1 : x = z[i] BY <1>5 DEF ToSet
    <3> QED BY <1>3, <1>5, <1>6, <3>1 DEF ToSet
  <2>2. ASSUME NEW x \in ToSet(s) \cup {d} PROVE x \in ToSet(z)
    <3>1. CASE x \in ToSet(s)
      <4>1. PICK i \in 1..n : x = s[i] BY <1>3, <3>1 DEF ToSet
      <4>2. i + 1 \in 1..n + 1 OBVIOUS
      <4> QED BY <1>5, <4>1, <4>2 DEF ToSet
    <3>2. CASE x = d
      <4>1. 1 \in 1..n + 1 OBVIOUS
      <4> QED BY <1>5, <3>2, <4>1 DEF ToSet
    <3> QED BY <3>1, <3>2
  <2> QED BY <2>1, <2>2
<1>8. d \notin ToSet(s) BY <1>1, <1>2 DEF ListsSound
<1>9. Once(z)
  <2>1. ASSUME NEW i \in 1..n PROVE s[i] # d BY <1>3, <1>8, <2>1 DEF ToSet
  <2> SUFFICES ASSUME NEW i \in 1..n + 1, NEW j \in 1..n + 1, z[i] = z[j] PROVE i = j
    BY <1>5 DEF Once
  <2>2. Once(s) BY <1>2 DEF ListsSound
  <2>3. CASE i = 1 BY <1>5, <1>6, <2>1, <2>3
  <2>4. CASE j = 1 BY <1>5, <1>6, <2>1, <2>4
  <2>5. CASE i # 1 /\ j # 1
    <3>1. i - 1 \in 1..n /\ j - 1 \in 1..n /\ s[i - 1] = s[j - 1] BY <1>6, <2>5
    <3>2. i - 1 = j - 1 BY <1>3, <2>2, <3>1 DEF Once
    <3> QED BY <3>2
  <2> QED BY <2>3, <2>4, <2>5
<1> QED BY <1>1, <1>2, <1>4, <1>5, <1>7, <1>9 DEF ListsSound, Living, Listed

LEMMA ListsPrune ==
  ASSUME ListsSound, NEW gone, gone \subseteq Descs, \A d \in gone : proc'[d] = Nil,
         list' = Keep(list, gone), ended' = Keep(ended, gone),
         \A e \in Descs \ gone : Alike(proc'[e], proc[e])
  PROVE  ListsSound'
<1>1. Listed' = Listed \cap (Descs \ gone) /\ Living' = Living \cap (Descs \ gone)
  BY DEF Listed, Living, Alike
<1>2. /\ list' \in Seq(Descs) /\ Once(list)' /\ ToSet(list)' = ToSet(list) \cap (Descs \ gone)
      /\ ended' \in Seq(Descs) /\ Once(ended)' /\ ToSet(ended)' = ToSet(ended) \cap (Descs \ gone)
  <2>1. list \in Seq(Descs) /\ ended \in Seq(Descs) /\ Once(list) /\ Once(ended)
    BY DEF ListsSound
  <2> QED BY <2>1, OnlyIs DEF Keep
<1>3. ToSet(list) = Listed /\ ToSet(ended) = Listed \ Living BY DEF ListsSound
<1> QED BY <1>1, <1>2, <1>3 DEF ListsSound

(***************************************************************************)
(* What the operations look up.                                            *)
(***************************************************************************)
LEMMA CutIs ==
  ASSUME NEW T, NEW s \in Seq(T), NEW n \in Nat, n <= Len(s)
  PROVE  LET z == SubSeq(s, 1, n)
         IN  /\ z \in [1..n -> T] /\ DOMAIN z = 1..n
             /\ \A i \in 1..n : i \in DOMAIN s /\ z[i] = s[i]
<1>1. PICK k \in Nat : k = Len(s) /\ DOMAIN s = 1..k /\ n <= k OBVIOUS
<1>2. \A i \in 1..n : i \in DOMAIN s /\ s[i] \in T BY <1>1
<1>3. PICK z : z = SubSeq(s, 1, n) OBVIOUS
<1>4. /\ z \in Seq(T) /\ Len(z) = IF 1 <= n THEN n - 1 + 1 ELSE 0
      /\ \A i \in 1..n - 1 + 1 : z[i] = s[1 + i - 1]
  BY <1>2, <1>3, SubSeqProperties
<1>5. Len(z) = n /\ 1..n - 1 + 1 = 1..n BY <1>4
<1>6. \A i \in 1..n : z[i] = s[i]
  <2> SUFFICES ASSUME NEW i \in 1..n PROVE z[i] = s[i] OBVIOUS
  <2>1. 1 + i - 1 = i OBVIOUS
  <2> QED BY <1>4, <1>5, <2>1
<1>7. DOMAIN z = 1..n /\ z \in [1..n -> T] BY <1>4, <1>5
<1> QED BY <1>2, <1>3, <1>6, <1>7

LEMMA CurrentIs ==
  ASSUME ProcInv, NEW a
  PROVE  Current(a) = Nil \/ (Current(a) \in Descs /\ proc[Current(a)] \in ProcRecord)
<1>1. PICK s \in Seq(Descs) : s = list BY DEF ProcInv, ListsSound
<1>2. PICK of : of = {i \in DOMAIN list : proc[list[i]].task = a} OBVIOUS
<1>3. CASE of = {} BY <1>2, <1>3 DEF Current
<1>4. CASE of # {}
  <2>1. of \subseteq 1..Len(s) /\ of \subseteq Nat BY <1>1, <1>2
  <2>2. IsFiniteSet(of)
    <3>1. IsFiniteSet(1..Len(s)) BY <1>1, FS_Interval
    <3> QED BY <2>1, <3>1, FS_Subset
  <2>3. Min(of) \in of BY <1>4, <2>1, <2>2, LeastExists
  <2>4. Current(a) = s[Min(of)] BY <1>1, <1>2, <1>4 DEF Current
  <2>5. PICK i \in 1..Len(s) : i = Min(of) BY <2>1, <2>3
  <2>6. s[i] \in ToSet(list) /\ s[i] \in Descs BY <1>1, <2>5 DEF ToSet
  <2>7. proc[s[i]] # Nil BY <2>6 DEF ProcInv, ListsSound, Listed
  <2> QED BY <2>4, <2>5, <2>6, <2>7 DEF ProcInv, ProcTypes, ProcTable
<1> QED BY <1>3, <1>4

LEMMA ParentIs ==
  ASSUME ProcInv, NEW a
  PROVE  Parent(a) \in 0..MaxPid
<1>1. CASE Current(a) = Nil BY <1>1, ProcFacts DEF Parent
<1>2. CASE Current(a) # Nil
  <2>1. proc[Current(a)] \in ProcRecord BY <1>2, CurrentIs
  <2>2. proc[Current(a)].pid \in 1..MaxPid BY <2>1 DEF ProcRecord
  <2> QED BY <1>2, <2>2, ProcFacts DEF Parent
<1> QED BY <1>1, <1>2

LEMMA AncestorsAre ==
  ASSUME ProcInv, NEW a
  PROVE  Ancestors(a) \in Charges
<1>1. PICK p : p = Current(a) OBVIOUS
<1>2. CASE p = Nil \/ proc[p].state = "exited"
  BY <1>1, <1>2, NoCharges DEF Ancestors
<1>3. CASE ~(p = Nil \/ proc[p].state = "exited")
  <2>1. PICK r \in ProcRecord : r = proc[p] BY <1>1, <1>3, CurrentIs
  <2>2. r.serial \in 1..MaxSerial /\ r.anc \in Charges BY <2>1 DEF ProcRecord
  <2>3. r.anc \in Seq(1..MaxSerial) BY <2>2, ProcFacts DEF Charges, BoundedSeq, SeqOf
  <2>10. PICK q \in Seq(1..MaxSerial) : q = r.anc BY <2>3
  <2>4. PICK all \in Seq(1..MaxSerial) : all = <<r.serial>> \o q
    <3>1. <<r.serial>> \in Seq(1..MaxSerial) BY <2>2
    <3>2. PICK S : S = 1..MaxSerial OBVIOUS
    <3>3. <<r.serial>> \in Seq(S) /\ q \in Seq(S) BY <3>1, <3>2
    <3>4. <<r.serial>> \o q \in Seq(S) BY <3>3
    <3> QED BY <3>2, <3>4
  <2>11. PICK k \in Nat : k = Len(all) /\ DOMAIN all = 1..k BY <2>4
  <2>12. Min({k, MaxAncestors}) = IF k <= MaxAncestors THEN k ELSE MaxAncestors
    BY LeastOfTwo, ProcFacts
  <2>5. PICK n \in Nat : n = Min({Len(all), MaxAncestors}) /\ n <= k /\ n <= MaxAncestors
    BY <2>11, <2>12, ProcFacts
  <2>6. Ancestors(a) = SubSeq(all, 1, n) BY <1>1, <1>3, <2>1, <2>4, <2>5, <2>10 DEF Ancestors
  <2>7. SubSeq(all, 1, n) \in [1..n -> 1..MaxSerial] BY <2>5, <2>11, CutIs
  <2>8. n \in 0..MaxAncestors BY <2>5, ProcFacts
  <2> QED BY <2>6, <2>7, <2>8 DEF Charges, BoundedSeq, SeqOf
<1> QED BY <1>2, <1>3

LEMMA OldestIn ==
  ASSUME NEW T, NEW s \in Seq(T), NEW n \in Nat
  PROVE  Oldest(s, n) \subseteq ToSet(s)
<1>4. PICK l \in Nat : l = Len(s) /\ DOMAIN s = 1..l OBVIOUS
<1>5. Min({n, l}) = IF n <= l THEN n ELSE l BY LeastOfTwo
<1>1. PICK k \in Nat : k = Min({n, Len(s)}) /\ k <= l BY <1>4, <1>5
<1>2. PICK z : z = SubSeq(s, 1, k) OBVIOUS
<1>6. k <= Len(s) BY <1>1, <1>4
<1>3. DOMAIN z = 1..k /\ \A i \in 1..k : z[i] = s[i] /\ i \in DOMAIN s
  BY <1>2, <1>6, CutIs
<1> QED BY <1>1, <1>2, <1>3 DEF Oldest, Range, ToSet

\* Who is forgotten has exited, and nobody holds it.
LEMMA VictimsAre ==
  ASSUME ProcInv, NEW d \in Victims
  PROVE  d \in Descs /\ proc[d] # Nil /\ proc[d].state = "exited" /\ proc[d].refs = 0
<1>1. /\ ended \in Seq(Descs) /\ ToSet(ended) = Listed \ Living /\ History \in Nat
      /\ HistoryMax \in Nat
  BY ProcAssumption DEF ProcInv, ListsSound
<1>2. PICK any \in Seq(Descs) :
        /\ any = Only(ended, {e \in Listed : Forgettable(e)})
        /\ ToSet(any) \subseteq (Listed \ Living) \cap {e \in Listed : Forgettable(e)}
  <2>1. PICK S : S = {e \in Listed : Forgettable(e)} OBVIOUS
  <2>2. Only(ended, S) \in Seq(Descs) /\ ToSet(Only(ended, S)) = ToSet(ended) \cap S
    BY <1>1, OnlyIs
  <2> QED BY <1>1, <2>1, <2>2
<1>3. Len(ended) \in Nat BY <1>1
<1>4. Beyond(Len(ended), HistoryMax) \in Nat BY <1>1, <1>3 DEF Beyond
<1>5. PICK first : first = Oldest(any, Beyond(Len(ended), HistoryMax)) OBVIOUS
<1>6. first \subseteq ToSet(any) BY <1>2, <1>4, <1>5, OldestIn
<1>7. PICK left : left = Len(ended) - Cardinality(first) OBVIOUS
<1>8. left \in Int
  <2>1. first \subseteq Descs BY <1>2, <1>6 DEF Listed
  <2>2. IsFiniteSet(first) BY <2>1, FS_Subset, ProcFacts
  <2>3. Cardinality(first) \in Nat BY <2>2, FS_CardinalityType
  <2> QED BY <1>3, <1>7, <2>3
<1>9. Beyond(left, History) \in Nat BY <1>1, <1>8 DEF Beyond
<1>15. PICK asked : asked = {e \in Listed \ first : proc[e].waited \/ ~ParentMayWait(e)} OBVIOUS
<1>10. PICK done \in Seq(Descs) : done = Only(any, asked) /\ ToSet(done) \subseteq ToSet(any)
  <2>1. any \in Seq(Descs) BY <1>2
  <2>2. PICK done : done = Only(any, asked) OBVIOUS
  <2>3. done \in Seq(Descs) /\ ToSet(done) = ToSet(any) \cap asked BY <2>1, <2>2, OnlyIs
  <2> QED BY <2>2, <2>3
<1>11. Oldest(done, Beyond(left, History)) \subseteq ToSet(any)
  BY <1>9, <1>10, OldestIn
<1>12. Victims = first \cup (IF left > HistoryMax THEN {} ELSE Oldest(done, Beyond(left, History)))
  BY <1>2, <1>5, <1>7, <1>10, <1>15 DEF Victims
<1>13. d \in ToSet(any) BY <1>6, <1>11, <1>12
<1>14. d \in Listed \ Living /\ Forgettable(d) BY <1>2, <1>13
<1> QED BY <1>14, KindsHold DEF Listed, Living, Forgettable, ProcKinds

LEMMA NextPidIs ==
  ASSUME ProcInv, NEW gone, Unused(gone) # {}
  PROVE  NextPid(gone) \in 1..MaxPid /\ After(NextPid(gone)) \in 1..MaxPid
<1>1. next_pid \in 1..MaxPid /\ MaxPid \in Nat /\ MaxPid >= 1
  BY ProcFacts DEF ProcInv, ProcTypes
<1>2. PICK U : U = Unused(gone) OBVIOUS
<1>3. U \subseteq 1..MaxPid /\ U # {} BY <1>2 DEF Unused
<1>4. \A i \in U : Distance(i) \in Nat
  <2> SUFFICES ASSUME NEW i \in 1..MaxPid PROVE Distance(i) \in Nat BY <1>3
  <2>1. i + MaxPid - next_pid \in Nat BY <1>1
  <2> QED BY <1>1, <2>1 DEF Distance
<1>5. PICK D : D = {Distance(i) : i \in U} OBVIOUS
<1>6. D \subseteq Nat /\ D # {} BY <1>3, <1>4, <1>5
<1>7. IsFiniteSet(D)
  <2>1. IsFiniteSet(1..MaxPid) BY <1>1, FS_Interval
  <2>2. IsFiniteSet(U) BY <1>3, <2>1, FS_Subset
  <2>3. PICK f : f = [i \in U |-> Distance(i)] OBVIOUS
  <2>4. f \in Surjection(U, D) BY <1>5, <2>3 DEF Surjection
  <2> QED BY <2>2, <2>4, FS_Surjection
<1>8. Min(D) \in D /\ \A y \in D : Min(D) <= y BY <1>6, <1>7, LeastExists
<1>9. \E i \in U : \A j \in U : Distance(i) <= Distance(j) BY <1>5, <1>8
<1>10. NextPid(gone) \in U BY <1>2, <1>9 DEF NextPid
<1>11. PICK p \in 1..MaxPid : p = NextPid(gone) BY <1>3, <1>10
<1>12. After(p) \in 1..MaxPid BY <1>1 DEF After
<1> QED BY <1>11, <1>12

LEMMA LinksAre ==
  ASSUME NEW L \in [Mods -> Nat], NEW m
  PROVE  LinkedIn(L, m) \in [Mods -> Nat] /\ UnlinkedIn(L, m) \in [Mods -> Nat]
<1>1. CASE m \in Mods BY <1>1 DEF LinkedIn, UnlinkedIn
<1>2. CASE m \notin Mods
  <2>1. LinkedIn(L, m) = L /\ UnlinkedIn(L, m) = L BY <1>2 DEF LinkedIn, UnlinkedIn
  <2> QED BY <2>1
<1> QED BY <1>1, <1>2

(***************************************************************************)
(* Every step is one of these.                                             *)
(***************************************************************************)
Effect == \E a \in Actors :
  \/ \E y, j : Quiet(a, y, j)
  \/ \E y, j, gone : Pruning(a, y, j, gone)
  \/ \E d, j : Inserting(a, d, j) \/ Claiming(a, d, j) \/ Collecting(a, d, j)
               \/ Reaping(a, d, j)
  \/ \E t, d : Starting(a, t, d)
  \/ \E d : Failing(a, d) \/ Finishing(a, d) \/ Burying(a, d)
  \/ \E d, y, j : Holding(a, d, y, j) \/ Dropping(a, d, y, j)
  \/ \E y : Passing(a, y)
  \/ \E t : Dying(a, t)

\* Every effect keeps who may hold what, and the counts.
LEMMA EffectKeeps ==
  ASSUME ProcInv, Effect
  PROVE  Places' /\ HoldsCounted'
<1> PICK a \in Actors :
      \/ \E y, j : Quiet(a, y, j)
      \/ \E y, j, gone : Pruning(a, y, j, gone)
      \/ \E d, j : Inserting(a, d, j) \/ Claiming(a, d, j) \/ Collecting(a, d, j)
                   \/ Reaping(a, d, j)
      \/ \E t, d : Starting(a, t, d)
      \/ \E d : Failing(a, d) \/ Finishing(a, d) \/ Burying(a, d)
      \/ \E d, y, j : Holding(a, d, y, j) \/ Dropping(a, d, y, j)
      \/ \E y : Passing(a, y)
      \/ \E t : Dying(a, t)
  BY DEF Effect
<1>1. ASSUME NEW y, NEW j, Quiet(a, y, j) PROVE Places' /\ HoldsCounted'
  BY <1>1, QuietPlaces, QuietCounts
<1>2. ASSUME NEW y, NEW j, NEW gone, Pruning(a, y, j, gone) PROVE Places' /\ HoldsCounted'
  BY <1>2, PruningPlaces, PruningCounts
<1>3. ASSUME NEW d, NEW j, Inserting(a, d, j) PROVE Places' /\ HoldsCounted'
  BY <1>3, InsertingPlaces, InsertingCounts
<1>4. ASSUME NEW d, NEW j, Claiming(a, d, j) PROVE Places' /\ HoldsCounted'
  BY <1>4, ClaimingPlaces, ClaimingCounts
<1>5. ASSUME NEW d, NEW j, Collecting(a, d, j) PROVE Places' /\ HoldsCounted'
  BY <1>5, CollectingPlaces, CollectingCounts
<1>6. ASSUME NEW d, NEW j, Reaping(a, d, j) PROVE Places' /\ HoldsCounted'
  BY <1>6, ReapingPlaces, ReapingCounts
<1>7. ASSUME NEW t, NEW d, Starting(a, t, d) PROVE Places' /\ HoldsCounted'
  BY <1>7, StartingPlaces, StartingCounts
<1>8. ASSUME NEW d, Failing(a, d) PROVE Places' /\ HoldsCounted'
  BY <1>8, FailingPlaces, FailingCounts
<1>9. ASSUME NEW d, Finishing(a, d) PROVE Places' /\ HoldsCounted'
  BY <1>9, FinishingPlaces, FinishingCounts
<1>10. ASSUME NEW d, Burying(a, d) PROVE Places' /\ HoldsCounted'
  BY <1>10, BuryingPlaces, BuryingCounts
<1>11. ASSUME NEW d, NEW y, NEW j, Holding(a, d, y, j) PROVE Places' /\ HoldsCounted'
  BY <1>11, HoldingPlaces, HoldingCounts
<1>12. ASSUME NEW d, NEW y, NEW j, Dropping(a, d, y, j) PROVE Places' /\ HoldsCounted'
  BY <1>12, DroppingPlaces, DroppingCounts
<1>13. ASSUME NEW y, Passing(a, y) PROVE Places' /\ HoldsCounted'
  BY <1>13, PassingPlaces, PassingCounts
<1>14. ASSUME NEW t, Dying(a, t) PROVE Places' /\ HoldsCounted'
  BY <1>14, DyingPlaces, DyingCounts
<1> QED
  BY <1>1, <1>2, <1>3, <1>4, <1>5, <1>6, <1>7, <1>8, <1>9, <1>10, <1>11, <1>12, <1>13, <1>14

Fits == ProcTypes' /\ ListsSound' /\ Effect

LEMMA NoJobIs ==
  /\ NoJob \in JobRecord /\ NoJob.mod = Nil /\ NoJob.desc = Nil
BY NoCharges, ProcFacts DEF NoJob, JobRecord

\* Whoever goes on, with something new in hand or what it had.
LEMMA Going ==
  ASSUME ProcTypes, NEW a \in Actors, NEW y \in Points, NEW j \in JobRecord, Furnished(y, j),
         pc' = [pc EXCEPT ![a] = y], job' = [job EXCEPT ![a] = j]
  PROVE  Moves(a, y, j) /\ pc' \in [Actors -> Points] /\ job' \in [Actors -> JobRecord]
BY DEF ProcTypes, Moves

LEMMA Staying ==
  ASSUME ProcTypes, NEW a \in Actors, NEW y \in Points, Furnished(y, job[a]),
         pc' = [pc EXCEPT ![a] = y], UNCHANGED job
  PROVE  Moves(a, y, job[a]) /\ pc' \in [Actors -> Points] /\ job' \in [Actors -> JobRecord]
BY DEF ProcTypes, Moves

LEMMA ModInHand ==
  ASSUME NEW o \in JobRecord, NEW m \in Mods \cup {Nil}
  PROVE  LET q == [o EXCEPT !.mod = m]
         IN  q \in JobRecord /\ q.mod = m /\ q.desc = o.desc /\ q.serial = o.serial
             /\ q.back = o.back
BY DEF JobRecord

LEMMA DescInHand ==
  ASSUME NEW o \in JobRecord, NEW d \in Descs \cup {Nil}
  PROVE  LET q == [o EXCEPT !.desc = d]
         IN  q \in JobRecord /\ q.mod = o.mod /\ q.desc = d /\ q.serial = o.serial
BY DEF JobRecord

LEMMA BackInHand ==
  ASSUME NEW o \in JobRecord, NEW b \in {"idle", "wait", "watch"}
  PROVE  LET q == [o EXCEPT !.back = b]
         IN  q \in JobRecord /\ q.mod = o.mod /\ q.desc = o.desc /\ q.serial = o.serial
             /\ q.back = b
BY DEF JobRecord

\* Types of whatever a step of the table leaves alone.
Resting == UNCHANGED <<issued, kernel, lost>>

LEMMA RestTypes ==
  ASSUME ProcTypes, Resting, proc' \in ProcTable, links' \in [Mods -> Nat],
         pc' \in [Actors -> Points], job' \in [Actors -> JobRecord]
  PROVE  ProcTypes'
BY DEF ProcTypes, Resting, issued, kernel

LEMMA UntouchedFits ==
  ASSUME ProcInv, UNCHANGED <<list, ended>>, Untouched
  PROVE  ListsSound'
<1>1. SameStates(Nil) BY DEF SameStates, Untouched, Alike
<1> QED BY <1>1, ListsSame DEF ProcInv

\* A step that changes nothing the invariant is about.
LEMMA QuietFits ==
  ASSUME ProcInv, NEW a \in Actors, NEW y \in QuietPoints, NEW j \in JobRecord, Furnished(y, j),
         pc[a] \in QuietPoints,
         y \in {"claim", "insert"} => pc[a] \in {"claim", "insert"} /\ j.serial = job[a].serial,
         pc' = [pc EXCEPT ![a] = y], job' = [job EXCEPT ![a] = j],
         proc' \in ProcTable, Untouched, Resting, UNCHANGED <<list, ended>>,
         links' \in [Mods -> Nat]
  PROVE  Fits
<1>1. ProcTypes /\ y \in Points BY DEF ProcInv, QuietPoints, Points, Forking
<1>2. Moves(a, y, j) /\ pc' \in [Actors -> Points] /\ job' \in [Actors -> JobRecord]
  BY <1>1, Going
<1>3. Apart BY DEF Apart, Resting, issued
<1>4. Quiet(a, y, j) BY <1>2, <1>3 DEF Quiet
<1>5. ProcTypes' BY <1>1, <1>2, RestTypes
<1>6. ListsSound' BY UntouchedFits
<1> QED BY <1>4, <1>5, <1>6 DEF Fits, Effect

LEMMA SameHand ==
  ASSUME ProcInv, NEW a \in Actors
  PROVE  job = [job EXCEPT ![a] = job[a]] /\ job[a] \in JobRecord /\ Untouched \in BOOLEAN
         /\ (proc' = proc => Untouched /\ proc' \in ProcTable)
BY DEF ProcInv, ProcTypes, Untouched, Alike

LEMMA ForkGoesOn ==
  ASSUME ProcInv, NEW a \in Actors, ForkAdmitted(a) \/ ForkRefused(a)
  PROVE  Fits
<1>1. PICK y \in {"insert", "refuse"} : pc' = [pc EXCEPT ![a] = y]
        /\ pc[a] \in {"claim", "insert"}
  BY DEF ForkAdmitted, ForkRefused, Goes
<1>2. Furnished(y, job[a]) /\ y \in QuietPoints /\ pc[a] \in QuietPoints
  BY <1>1 DEF Furnished, Forking, ModPoints, ProcInv, Places, ModsSound, QuietPoints
<1>3. proc' = proc /\ Resting /\ UNCHANGED <<list, ended>> /\ links' \in [Mods -> Nat]
      /\ job' = job
  BY DEF ForkAdmitted, ForkRefused, Resting, table, issued, ProcInv, ProcTypes
<1> QED BY <1>1, <1>2, <1>3, SameHand, QuietFits

LEMMA RefuseFits ==
  ASSUME ProcInv, NEW a \in Actors, Refuse(a)
  PROVE  Fits
<1>1. pc' = [pc EXCEPT ![a] = "undo"] /\ pc[a] = "refuse" BY DEF Refuse, Goes
<1>2. /\ Furnished("undo", job[a]) /\ job[a].mod \in Mods
      /\ pc[a] \in QuietPoints /\ "undo" \in QuietPoints
  BY <1>1 DEF Furnished, Forking, ModPoints, ProcInv, Places, ModsSound, QuietPoints
<1>3. proc' \in ProcTable /\ Untouched
  BY <1>2, UnchargedIs, ProcFacts DEF Refuse, Untouched, ProcInv, ProcTypes
<1>4. Resting /\ UNCHANGED <<list, ended>> /\ links' \in [Mods -> Nat] /\ job' = job
  BY DEF Refuse, Resting, issued, ProcInv, ProcTypes
<1> QED BY <1>1, <1>2, <1>3, <1>4, SameHand, QuietFits

\* Undo, the end of wait_why, and a chain that is made.
LEMMA IdlesFit ==
  ASSUME ProcInv, NEW a \in Actors, Undo(a) \/ WaitWhy(a) \/ (a \in Slots /\ Chained(a))
  PROVE  Fits
<1>1. pc' = [pc EXCEPT ![a] = "idle"] /\ job' = [job EXCEPT ![a] = NoJob]
      /\ pc[a] \in {"undo", "why", "swap"}
  BY DEF Undo, WaitWhy, Chained, Idles, Goes
<1>2. Furnished("idle", NoJob) /\ "idle" \in QuietPoints /\ pc[a] \in QuietPoints
  BY <1>1 DEF Furnished, Forking, ModPoints, QuietPoints
<1>3. Resting /\ UNCHANGED <<list, ended>>
  BY DEF Undo, WaitWhy, Chained, Resting, table, issued
<1>4. links' \in [Mods -> Nat]
  BY LinksAre DEF Undo, WaitWhy, Chained, ProcInv, ProcTypes
<1>5. proc' \in ProcTable /\ Untouched
  <2>1. CASE proc' = proc BY <2>1, SameHand
  <2>2. CASE a \in Slots /\ Chained(a)
    <3>1. PICK d \in Descs : d = body[a] /\ proc[d] # Nil
      BY <2>2, ProcFacts, KindsHold
      DEF Chained, Idles, Goes, ProcKinds, ProcInv, Places, ThreadsSound
    <3>2. job[a].mod \in Mods
      BY <2>2 DEF Chained, Idles, Goes, ProcInv, Places, ModsSound
    <3>3. proc' = [proc EXCEPT ![d].mod = job[a].mod] BY <2>2, <3>1 DEF Chained
    <3>4. Sets(proc, proc', d, proc[d].state, proc[d].task, proc[d].refs, proc[d].collecting,
               job[a].mod)
      BY <3>1, <3>2, <3>3, ModSet DEF ProcInv, ProcTypes
    <3> QED BY <3>1, <3>4 DEF Sets, Untouched, Alike
  <2> QED BY <2>1, <2>2 DEF Undo, WaitWhy, table
<1> QED BY <1>1, <1>2, <1>3, <1>4, <1>5, NoJobIs, QuietFits

LEMMA ChainLinkedFits ==
  ASSUME ProcInv, NEW t \in Slots, NEW m \in Mods, ChainLinked(t, m)
  PROVE  Fits
<1>1. t \in Actors BY ProcFacts
<1>2. PICK j : j = [job[t] EXCEPT !.mod = m] OBVIOUS
<1>3. j \in JobRecord /\ j.mod = m BY <1>1, <1>2, SameHand, ModInHand
<1>4. pc' = [pc EXCEPT ![t] = "chain"] /\ job' = [job EXCEPT ![t] = j] /\ pc[t] = "idle"
  BY <1>2 DEF ChainLinked, Goes
<1>5. Furnished("chain", j) /\ "chain" \in QuietPoints /\ pc[t] \in QuietPoints
  BY <1>3, <1>4 DEF Furnished, Forking, QuietPoints
<1>6. Resting /\ UNCHANGED <<list, ended>> /\ proc' = proc
  BY DEF ChainLinked, Resting, table, issued
<1>7. links' \in [Mods -> Nat] BY LinksAre DEF ChainLinked, ProcInv, ProcTypes
<1> QED BY <1>1, <1>3, <1>4, <1>5, <1>6, <1>7, SameHand, QuietFits

LEMMA ChainSwappedFits ==
  ASSUME ProcInv, NEW t \in Slots, ChainSwapped(t)
  PROVE  Fits
<1>1. t \in Actors BY ProcFacts
<1>2. pc' = [pc EXCEPT ![t] = "swap"] /\ pc[t] = "chain" BY DEF ChainSwapped, Goes
<1>3. Furnished("swap", job[t]) /\ "swap" \in QuietPoints /\ pc[t] \in QuietPoints
  BY <1>1, <1>2 DEF Furnished, Forking, ModPoints, QuietPoints, ProcInv, Places, ModsSound
<1>4. Resting /\ UNCHANGED <<list, ended>> /\ proc' = proc /\ job' = job
  BY DEF ChainSwapped, Resting, table, issued
<1>5. links' \in [Mods -> Nat] BY LinksAre DEF ChainSwapped, ProcInv, ProcTypes
<1> QED BY <1>1, <1>2, <1>3, <1>4, <1>5, SameHand, QuietFits

LEMMA ChainRefusedFits ==
  ASSUME ProcInv, NEW t \in Slots, NEW swapped, ChainRefused(t, swapped)
  PROVE  Fits
<1>1. t \in Actors BY ProcFacts
<1>2. pc' = [pc EXCEPT ![t] = "exit"] /\ job' = [job EXCEPT ![t] = NoJob]
      /\ pc[t] \in {"chain", "swap"}
  BY DEF ChainRefused, Goes
<1>3. Furnished("exit", NoJob) /\ "exit" \in QuietPoints /\ pc[t] \in QuietPoints
  BY <1>2 DEF Furnished, Forking, ModPoints, QuietPoints
<1>4. Resting /\ UNCHANGED <<list, ended>> /\ proc' = proc
  BY DEF ChainRefused, Resting, table, issued
<1>5. links' \in [Mods -> Nat] BY LinksAre DEF ChainRefused, ProcInv, ProcTypes
<1> QED BY <1>1, <1>2, <1>3, <1>4, <1>5, NoJobIs, SameHand, QuietFits

LEMMA ExitFits ==
  ASSUME ProcInv, NEW t \in Slots, Exit(t)
  PROVE  Fits
<1>1. t \in Actors BY ProcFacts
<1>2. pc' = [pc EXCEPT ![t] = "exit"] /\ pc[t] = "idle" BY DEF Exit, Goes
<1>3. Furnished("exit", job[t]) /\ "exit" \in QuietPoints /\ pc[t] \in QuietPoints
  BY <1>2 DEF Furnished, Forking, ModPoints, QuietPoints
<1>4. Resting /\ UNCHANGED <<list, ended>> /\ proc' = proc /\ links' \in [Mods -> Nat]
      /\ job' = job
  BY DEF Exit, Resting, table, issued, ProcInv, ProcTypes
<1> QED BY <1>1, <1>2, <1>3, <1>4, SameHand, QuietFits

(***************************************************************************)
(* The fork.                                                               *)
(***************************************************************************)
LEMMA PrunedIs ==
  ASSUME ProcInv
  PROVE  /\ Pruned(Victims) \in ProcTable /\ Victims \subseteq Descs
         /\ \A d \in Victims : proc[d] # Nil /\ proc[d].state = "exited" /\ proc[d].refs = 0
                               /\ Pruned(Victims)[d] = Nil
         /\ \A d \in Descs \ Victims : Pruned(Victims)[d] = proc[d]
<1>1. PICK V : V = Victims OBVIOUS
<1>2. \A d \in V : d \in Descs /\ proc[d] # Nil /\ proc[d].state = "exited" /\ proc[d].refs = 0
  BY <1>1, VictimsAre
<1>3. \A d \in Descs : Pruned(V)[d] = IF d \in V THEN Nil ELSE proc[d] BY DEF Pruned
<1>4. Pruned(V) \in ProcTable BY DEF Pruned, ProcTable, ProcInv, ProcTypes
<1> QED BY <1>1, <1>2, <1>3, <1>4

LEMMA ForkChargedFits ==
  ASSUME ProcInv, NEW a \in Actors, NEW m \in Mods, ForkCharged(a, m)
  PROVE  Fits
<1>1. ProcTypes BY DEF ProcInv
<1>2. PICK gone : gone = Victims OBVIOUS
<1>3. PICK pid \in 1..MaxPid : pid = NextPid(gone) /\ next_pid' \in 1..MaxPid
  BY <1>2, NextPidIs DEF ForkCharged
<1>4. PICK anc \in Charges : anc = Ancestors(a) BY AncestorsAre
<1>5. PICK j : j = [NoJob EXCEPT !.pid = pid, !.serial = next_serial, !.anc = anc, !.mod = m]
  OBVIOUS
<1>6. j \in JobRecord /\ j.mod = m /\ j.pid = pid /\ j.serial = next_serial
  <2>1. next_serial \in 0..MaxSerial /\ pid \in 0..MaxPid
    BY <1>1, ProcFacts DEF ForkCharged, ProcTypes
  <2> QED BY <1>4, <1>5, <2>1, NoJobIs DEF JobRecord
<1>7. pc' = [pc EXCEPT ![a] = "claim"] /\ job' = [job EXCEPT ![a] = j] /\ pc[a] = "idle"
  BY <1>2, <1>3, <1>4, <1>5 DEF ForkCharged, Goes
<1>8. Furnished("claim", j) /\ "claim" \in Points
  BY <1>3, <1>6 DEF Furnished, Forking, Points
<1>9. Moves(a, "claim", j) /\ pc' \in [Actors -> Points] /\ job' \in [Actors -> JobRecord]
  BY <1>1, <1>6, <1>7, <1>8, Going
<1>10. PICK P : P = Pruned(gone) OBVIOUS
<1>11. /\ P \in ProcTable /\ gone \subseteq Descs
       /\ \A d \in gone : proc[d] # Nil /\ proc[d].state = "exited" /\ proc[d].refs = 0
                          /\ P[d] = Nil
       /\ \A d \in Descs \ gone : P[d] = proc[d]
  BY <1>2, <1>10, PrunedIs
<1>12. /\ proc' \in ProcTable
       /\ \A d \in Descs : Alike(proc'[d], P[d])
  BY <1>2, <1>4, <1>10, <1>11, ChargedIs, ProcFacts DEF ForkCharged
<1>13. /\ \A d \in gone : proc'[d] = Nil
       /\ \A d \in Descs \ gone : Alike(proc'[d], proc[d])
  BY <1>11, <1>12 DEF Alike
<1>14. /\ next_serial' = next_serial + 1 /\ next_serial <= MaxSerial
       /\ UNCHANGED <<kernel, lost>>
       /\ list' = Keep(list, gone) /\ ended' = Keep(ended, gone)
       /\ links' = LinkedIn(links, m)
  BY <1>2 DEF ForkCharged
<1>15. Pruning(a, "claim", j, gone)
  BY <1>6, <1>7, <1>9, <1>11, <1>13, <1>14 DEF Pruning
<1>16. ListsSound' BY <1>11, <1>13, <1>14, ListsPrune DEF ProcInv
<1>17. ProcTypes'
  <2>1. next_serial' \in 1..MaxSerial + 1 BY <1>1, <1>14, ProcFacts DEF ProcTypes
  <2>2. links' \in [Mods -> Nat] BY <1>1, <1>14, LinksAre DEF ProcTypes
  <2> QED BY <1>1, <1>3, <1>9, <1>12, <1>14, <2>1, <2>2 DEF ProcTypes, kernel
<1> QED BY <1>15, <1>16, <1>17 DEF Fits, Effect

LEMMA ForkOverBudgetFits ==
  ASSUME ProcInv, NEW a \in Actors, NEW m \in Mods, ForkOverBudget(a, m)
  PROVE  Fits
<1>1. ProcTypes BY DEF ProcInv
<1>2. PICK gone : gone = Victims OBVIOUS
<1>3. next_pid' \in 1..MaxPid
  <2>1. CASE Unused(gone) = {} BY <1>1, <1>2, <2>1 DEF ForkOverBudget, ProcTypes
  <2>2. CASE Unused(gone) # {} BY <1>2, <2>2, NextPidIs DEF ForkOverBudget
  <2> QED BY <2>1, <2>2
<1>4. /\ pc[a] = "idle" /\ pc' = pc /\ job' = job /\ next_serial' = next_serial
      /\ links' = links /\ UNCHANGED <<kernel, lost>> /\ proc' = Pruned(gone)
      /\ list' = Keep(list, gone) /\ ended' = Keep(ended, gone)
  BY <1>2 DEF ForkOverBudget
<1>5. Moves(a, "idle", job[a])
  BY <1>4 DEF Moves, Furnished, Forking, ModPoints
<1>6. /\ proc' \in ProcTable /\ gone \subseteq Descs
      /\ \A d \in gone : proc[d] # Nil /\ proc[d].state = "exited" /\ proc[d].refs = 0
                         /\ proc'[d] = Nil
      /\ \A d \in Descs \ gone : Alike(proc'[d], proc[d])
  BY <1>2, <1>4, PrunedIs, AlikeSame
<1>7. Pruning(a, "idle", job[a], gone) BY <1>4, <1>5, <1>6 DEF Pruning
<1>8. ListsSound' BY <1>4, <1>6, ListsPrune DEF ProcInv
<1>9. ProcTypes' BY <1>1, <1>3, <1>4, <1>6 DEF ProcTypes, kernel
<1> QED BY <1>7, <1>8, <1>9 DEF Fits, Effect

LEMMA ForkInsertedFits ==
  ASSUME ProcInv, NEW a \in Actors, NEW d \in Descs, ForkInserted(a, d)
  PROVE  Fits
<1>1. ProcTypes BY DEF ProcInv
<1>2. PICK b \in JobRecord : b = job[a] BY <1>1 DEF ProcTypes
<1>3. pc[a] = "insert" /\ proc[d] = Nil BY DEF ForkInserted, Goes
<1>4. /\ b.pid \in 1..MaxPid /\ b.serial \in 1..MaxSerial /\ b.anc \in Charges /\ b.mod \in Mods
  BY <1>2, <1>3 DEF JobRecord, ProcInv, Places, ModsSound, ForksSound, Forking
<1>5. PICK r : r = [pid |-> b.pid, serial |-> b.serial, parent |-> Parent(a), task |-> Nil,
                    mod |-> b.mod, state |-> "active", anc |-> b.anc, foot |-> Foot[b.mod],
                    held |-> Foot[b.mod], budget |-> Budget[b.mod], refs |-> 1,
                    collecting |-> FALSE, waited |-> FALSE]
  OBVIOUS
<1>6. r \in ProcRecord BY <1>4, <1>5, ParentIs, ProcFacts DEF ProcRecord
<1>7. proc' = [proc EXCEPT ![d] = r] BY <1>2, <1>5 DEF ForkInserted
<1>8. /\ proc' \in ProcTable /\ proc'[d] = r /\ \A e \in Descs \ {d} : proc'[e] = proc[e]
  BY <1>1, <1>6, <1>7 DEF ProcTypes, ProcTable
<1>19. PICK j : j = [b EXCEPT !.desc = d] OBVIOUS
<1>9. j \in JobRecord /\ j.mod = b.mod /\ j.desc = d /\ j.serial = b.serial
  BY <1>19, DescInHand
<1>10. pc' = [pc EXCEPT ![a] = "create"] /\ job' = [job EXCEPT ![a] = j]
  BY <1>1, <1>2, <1>19 DEF ForkInserted, Goes, ProcTypes
<1>11. Furnished("create", j) /\ "create" \in Points
  BY <1>4, <1>9 DEF Furnished, Forking, Points
<1>12. Moves(a, "create", j) /\ pc' \in [Actors -> Points] /\ job' \in [Actors -> JobRecord]
  BY <1>1, <1>9, <1>10, <1>11, Going
<1>13. /\ proc'[d] # Nil /\ proc'[d].serial = job[a].serial /\ proc'[d].state = "active"
       /\ proc'[d].task = Nil /\ proc'[d].refs = 1 /\ proc'[d].collecting = FALSE
  <2>1. /\ r.serial = b.serial /\ r.state = "active" /\ r.task = Nil /\ r.refs = 1
        /\ r.collecting = FALSE
    BY <1>5
  <2> QED BY <1>2, <1>6, <1>8, <2>1, ProcFacts
<1>14. \A e \in Descs \ {d} : Alike(proc'[e], proc[e]) BY <1>8, AlikeSame
<1>15. /\ Apart /\ Resting /\ ended' = ended /\ links' = links /\ list' = <<d>> \o list
  BY DEF ForkInserted, Apart, Resting, issued
<1>16. Inserting(a, d, j)
  BY <1>2, <1>3, <1>9, <1>12, <1>13, <1>14, <1>15 DEF Inserting
<1>17. ListsSound' BY <1>3, <1>13, <1>14, <1>15, AlikeStates, ListsInsert DEF ProcInv
<1>18. ProcTypes' BY <1>1, <1>8, <1>12, <1>15, RestTypes DEF ProcTypes
<1> QED BY <1>16, <1>17, <1>18 DEF Fits, Effect

LEMMA ForkStartedFits ==
  ASSUME ProcInv, NEW a \in Actors, NEW t \in Slots, ForkStarted(a, t)
  PROVE  Fits
<1>1. ProcTypes BY DEF ProcInv
<1>2. PICK d \in Descs : d = job[a].desc /\ proc[d] # Nil
  BY DEF ForkStarted, ProcInv, Places, MakersSound
<1>3. /\ pc[a] = "create" /\ thread[t] = "free"
      /\ thread' = [thread EXCEPT ![t] = "live"] /\ body' = [body EXCEPT ![t] = d]
      /\ pc' = [pc EXCEPT ![a] = "idle", ![t] = "idle"]
      /\ job' = [job EXCEPT ![a] = NoJob, ![t] = NoJob]
      /\ proc' = [proc EXCEPT ![d].task = t]
      /\ UNCHANGED <<list, ended, issued, links, lost>>
  BY <1>2 DEF ForkStarted
<1>4. Sets(proc, proc', d, proc[d].state, t, proc[d].refs, proc[d].collecting, proc[d].mod)
  BY <1>1, <1>2, <1>3, TaskSet DEF ProcTypes
<1>5. t \in Actors /\ "idle" \in Points BY ProcFacts DEF Points
<1>6. /\ pc' \in [Actors -> Points] /\ job' \in [Actors -> JobRecord]
      /\ pc'[a] = "idle" /\ pc'[t] = "idle"
      /\ \A b \in Actors \ {a, t} : pc'[b] = pc[b] /\ job'[b] = job[b]
  BY <1>1, <1>3, <1>5, NoJobIs DEF ProcTypes
<1>7. /\ thread' \in [Slots -> {"free", "live", "dead"}] /\ body' \in [Slots -> Descs \cup {Nil}]
      /\ thread'[t] = "live" /\ body'[t] = d
      /\ \A u \in Slots \ {t} : thread'[u] = thread[u] /\ body'[u] = body[u]
  BY <1>1, <1>3 DEF ProcTypes
<1>8. Becomes(d, proc[d].state, t, proc[d].refs, proc[d].collecting)
  BY <1>2, <1>4, AlikeSame DEF Sets, Becomes
<1>9. Starting(a, t, d) BY <1>2, <1>3, <1>6, <1>7, <1>8 DEF Starting, issued
<1>10. ListsSound' BY <1>2, <1>3, <1>8, AlikeStates, ListsKeep DEF ProcInv, Becomes
<1>11. ProcTypes' BY <1>1, <1>3, <1>4, <1>6, <1>7 DEF ProcTypes, Sets, issued
<1> QED BY <1>9, <1>10, <1>11 DEF Fits, Effect

LEMMA ForkNotStartedFits ==
  ASSUME ProcInv, NEW a \in Actors, ForkNotStarted(a)
  PROVE  Fits
<1>1. ProcTypes BY DEF ProcInv
<1>2. PICK d \in Descs : d = job[a].desc /\ proc[d] # Nil /\ proc[d].state = "active"
  BY KindsHold DEF ForkNotStarted, Goes, ProcInv, Places, MakersSound, ProcKinds, Born
<1>3. /\ pc[a] = "create" /\ pc' = [pc EXCEPT ![a] = "undo"] /\ job' = job
      /\ ended' = Append(ended, d) /\ list' = list /\ Apart /\ Resting /\ links' = links
  BY <1>2 DEF ForkNotStarted, Goes, Apart, Resting, issued
<1>4. PICK Q : Q = Ended(proc, d) OBVIOUS
<1>5. /\ Q \in ProcTable /\ Q[d] # Nil
      /\ Q[d].state = "exited" /\ Q[d].serial = proc[d].serial /\ Q[d].task = proc[d].task
      /\ Q[d].collecting = proc[d].collecting
      /\ \A e \in Descs \ {d} : Alike(Q[e], proc[e])
  BY <1>1, <1>2, <1>4, EndedIs DEF ProcTypes
<1>6. Sets(Q, proc', d, "exited", proc[d].task, 0, proc[d].collecting, Q[d].mod)
  <2>1. proc' = [Q EXCEPT ![d].refs = 0] BY <1>2, <1>4 DEF ForkNotStarted
  <2> QED BY <1>5, <2>1, RefsSet
<1>7. Becomes(d, "exited", proc[d].task, 0, proc[d].collecting)
  BY <1>2, <1>5, <1>6 DEF Sets, Becomes
<1>8. Furnished("undo", job[a]) /\ "undo" \in Points
  BY <1>3 DEF Furnished, Forking, Points, ProcInv, Places, ModsSound
<1>9. Moves(a, "undo", job[a]) /\ pc' \in [Actors -> Points] /\ job' \in [Actors -> JobRecord]
  BY <1>1, <1>3, <1>8, Staying
<1>10. Failing(a, d) BY <1>2, <1>3, <1>7, <1>9 DEF Failing
<1>11. ListsSound' BY <1>2, <1>3, <1>7, AlikeStates, ListsEnd DEF ProcInv, Becomes
<1>12. ProcTypes' BY <1>1, <1>3, <1>6, <1>9, RestTypes DEF ProcTypes, Sets
<1> QED BY <1>10, <1>11, <1>12 DEF Fits, Effect

(***************************************************************************)
(* The trampoline.                                                         *)
(***************************************************************************)
LEMMA FinishFits ==
  ASSUME ProcInv, NEW t \in Slots, Finish(t)
  PROVE  Fits
<1>1. ProcTypes /\ t \in Actors BY ProcFacts DEF ProcInv
<1>2. PICK d \in Descs : d = body[t] /\ proc[d] # Nil /\ proc[d].state = "active"
  BY <1>1, ProcFacts, KindsHold
  DEF Finish, Goes, ProcKinds, ProcInv, Places, ThreadsSound
<1>3. /\ pc[t] = "exit" /\ pc' = [pc EXCEPT ![t] = "bury"] /\ job' = job
      /\ ended' = Append(ended, d) /\ list' = list /\ Apart /\ Resting /\ links' = links
      /\ proc' = Ended(proc, d)
  BY <1>2 DEF Finish, Goes, Apart, Resting, issued
<1>4. /\ proc' \in ProcTable
      /\ Becomes(d, "exited", proc[d].task, proc[d].refs, proc[d].collecting)
  BY <1>1, <1>2, <1>3, EndedIs DEF ProcTypes, Becomes
<1>5. Furnished("bury", job[t]) /\ "bury" \in Points
  BY DEF Furnished, Forking, ModPoints, Points
<1>6. Moves(t, "bury", job[t]) /\ pc' \in [Actors -> Points] /\ job' \in [Actors -> JobRecord]
  BY <1>1, <1>3, <1>5, Staying
<1>7. Finishing(t, d) BY <1>2, <1>3, <1>4, <1>6 DEF Finishing
<1>8. ListsSound' BY <1>2, <1>3, <1>4, AlikeStates, ListsEnd DEF ProcInv, Becomes
<1>9. ProcTypes' BY <1>1, <1>3, <1>4, <1>6, RestTypes DEF ProcTypes
<1> QED BY <1>1, <1>7, <1>8, <1>9 DEF Fits, Effect

LEMMA LessIs ==
  ASSUME NEW P \in ProcTable, NEW d \in Descs, P[d] # Nil
  PROVE  Sets(P, [P EXCEPT ![d].refs = IF @ > 0 THEN @ - 1 ELSE 0], d,
              P[d].state, P[d].task, Less(P[d].refs), P[d].collecting, P[d].mod)
<1>1. P[d] \in ProcRecord BY DEF ProcTable
<1>2. PICK n \in Nat : n = Less(P[d].refs) BY <1>1 DEF Less, ProcRecord
<1>3. [P EXCEPT ![d].refs = IF @ > 0 THEN @ - 1 ELSE 0] = [P EXCEPT ![d].refs = n]
  BY <1>2 DEF Less
<1> QED BY <1>2, <1>3, RefsSet

LEMMA BuryFits ==
  ASSUME ProcInv, NEW t \in Slots, Bury(t)
  PROVE  Fits
<1>1. ProcTypes /\ t \in Actors BY ProcFacts DEF ProcInv
<1>2. PICK d \in Descs : d = body[t] /\ proc[d] # Nil
  BY <1>1, ProcFacts, KindsHold
  DEF Bury, Goes, ProcKinds, ProcInv, Places, ThreadsSound
<1>3. /\ pc[t] = "bury" /\ pc' = [pc EXCEPT ![t] = "none"] /\ job' = job
      /\ UNCHANGED <<list, ended, issued, lost>>
      /\ proc' = [proc EXCEPT ![d].refs = IF @ > 0 THEN @ - 1 ELSE 0]
      /\ thread' = [thread EXCEPT ![t] = "free"] /\ body' = [body EXCEPT ![t] = Nil]
  BY <1>2 DEF Bury, Goes
<1>4. Sets(proc, proc', d, proc[d].state, proc[d].task, Less(proc[d].refs),
           proc[d].collecting, proc[d].mod)
  BY <1>1, <1>2, <1>3, LessIs DEF ProcTypes
<1>5. Becomes(d, proc[d].state, proc[d].task, Less(proc[d].refs), proc[d].collecting)
  BY <1>2, <1>4, AlikeSame DEF Sets, Becomes
<1>6. Furnished("none", job[t]) /\ "none" \in Points
  BY DEF Furnished, Forking, ModPoints, Points
<1>7. Moves(t, "none", job[t]) /\ pc' \in [Actors -> Points] /\ job' \in [Actors -> JobRecord]
  BY <1>1, <1>3, <1>6, Staying
<1>8. /\ thread' \in [Slots -> {"free", "live", "dead"}] /\ body' \in [Slots -> Descs \cup {Nil}]
      /\ thread'[t] = "free" /\ body'[t] = Nil
      /\ \A u \in Slots \ {t} : thread'[u] = thread[u] /\ body'[u] = body[u]
  BY <1>1, <1>3 DEF ProcTypes
<1>9. Burying(t, d) BY <1>2, <1>3, <1>5, <1>7, <1>8 DEF Burying, issued
<1>10. ListsSound' BY <1>2, <1>3, <1>5, AlikeStates, ListsKeep DEF ProcInv, Becomes
<1>11. links' \in [Mods -> Nat] BY <1>1, LinksAre DEF Bury, ProcTypes
<1>12. ProcTypes' BY <1>1, <1>3, <1>4, <1>7, <1>8, <1>11 DEF ProcTypes, Sets, issued
<1> QED BY <1>1, <1>9, <1>10, <1>12 DEF Fits, Effect

\* A thread that stops leaves what it had in hand.
LEMMA DiedIs ==
  ASSUME ProcInv, NEW t \in Slots, Died(t), thread[t] = "live", pc[t] # "bury"
  PROVE  /\ thread' \in [Slots -> {"free", "live", "dead"}] /\ thread'[t] = "dead"
         /\ \A u \in Slots \ {t} : thread'[u] = thread[u]
         /\ lost' = IF pc[t] = "idle" \/ pc[t] = "exit" THEN lost ELSE lost \cup {Remains(t)}
         /\ lost' \in SUBSET LostRecord /\ IsFiniteSet(lost')
<1>1. ProcTypes /\ t \in Actors BY ProcFacts DEF ProcInv
<1>2. /\ thread' \in [Slots -> {"free", "live", "dead"}] /\ thread'[t] = "dead"
      /\ \A u \in Slots \ {t} : thread'[u] = thread[u]
  BY <1>1 DEF Died, ProcTypes
<1>3. lost' = IF pc[t] = "idle" \/ pc[t] = "exit" THEN lost ELSE lost \cup {Remains(t)}
  BY DEF Died, Remains
<1>4. Remains(t) \in LostRecord
  <2>1. body[t] \in Descs /\ proc[body[t]] # Nil
    BY <1>1, ProcFacts, KindsHold DEF ProcKinds, ProcInv, Places, ThreadsSound
  <2>2. proc[body[t]].serial \in 1..MaxSerial BY <2>1, KindsHold DEF ProcKinds
  <2> QED BY <1>1, <2>2 DEF Remains, LostRecord, ProcTypes
<1>5. IsFiniteSet(lost \cup {Remains(t)}) BY <1>1, FS_AddElement DEF ProcTypes
<1> QED BY <1>1, <1>2, <1>3, <1>4, <1>5 DEF ProcTypes

LEMMA FaultsFits ==
  ASSUME ProcInv, "bury" \notin FaultsAt, NEW t \in Slots, Faults(t)
  PROVE  Fits
<1>1. ProcTypes /\ t \in Actors BY ProcFacts DEF ProcInv
<1>2. /\ thread[t] = "live" /\ pc[t] # "bury" /\ Died(t)
      /\ pc' = [pc EXCEPT ![t] = "none"] /\ job' = [job EXCEPT ![t] = NoJob]
      /\ proc' = proc /\ UNCHANGED <<list, ended, next_pid, next_serial, links, body>>
  BY DEF Faults, table, issued
<1>3. /\ thread' \in [Slots -> {"free", "live", "dead"}] /\ thread'[t] = "dead"
      /\ \A u \in Slots \ {t} : thread'[u] = thread[u]
      /\ lost' = IF pc[t] = "idle" \/ pc[t] = "exit" THEN lost ELSE lost \cup {Remains(t)}
      /\ lost' \in SUBSET LostRecord /\ IsFiniteSet(lost')
  BY <1>2, DiedIs
<1>4. /\ pc' \in [Actors -> Points] /\ job' \in [Actors -> JobRecord]
      /\ pc'[t] = "none" /\ job'[t] = NoJob
      /\ \A b \in Actors \ {t} : pc'[b] = pc[b] /\ job'[b] = job[b]
  BY <1>1, <1>2, NoJobIs DEF ProcTypes, Points
<1>5. Untouched BY <1>2, AlikeSame DEF Untouched
<1>6. Dying(t, t) BY <1>2, <1>3, <1>4, <1>5 DEF Dying
<1>7. ListsSound' BY <1>2, <1>5, UntouchedFits
<1>8. ProcTypes' BY <1>1, <1>2, <1>3, <1>4 DEF ProcTypes
<1> QED BY <1>1, <1>6, <1>7, <1>8 DEF Fits, Effect

(***************************************************************************)
(* Those who ask, and those who bury.                                      *)
(***************************************************************************)
\* Whoever holds a descriptor holds one that is there.
LEMMA InHand ==
  ASSUME ProcInv, NEW a \in Actors, pc[a] \in HoldingPoints
  PROVE  /\ job[a].desc \in Descs /\ proc[job[a].desc] # Nil
         /\ proc[job[a].desc].serial = job[a].serial /\ proc[job[a].desc] \in ProcRecord
         /\ Born(job[a].desc)
BY DEF ProcInv, Places, HoldsSound, Held, ProcTypes, ProcTable

LEMMA HoldFits ==
  ASSUME ProcInv, MayAskUnborn = FALSE, NEW a \in Actors, NEW d \in Listed,
         NEW x \in {"wait", "kill"}, Hold(a, d, x)
  PROVE  Fits
<1>1. ProcTypes /\ d \in Descs /\ proc[d] # Nil BY DEF ProcInv, Listed
<1>2. PICK r \in ProcRecord : r = proc[d] BY <1>1 DEF ProcTypes, ProcTable
<1>3. PICK n \in Nat : n = proc[d].refs + 1 BY <1>2 DEF ProcRecord
<1>4. /\ pc[a] = "idle" /\ pc' = [pc EXCEPT ![a] = x] /\ Born(d)
      /\ proc' = [proc EXCEPT ![d].refs = n]
      /\ Apart /\ Resting /\ links' = links /\ UNCHANGED <<list, ended>>
  BY <1>3 DEF Hold, Goes, Born, Apart, Resting, issued
<1>5. PICK j : j = [NoJob EXCEPT !.desc = d, !.pid = r.pid, !.serial = r.serial] OBVIOUS
<1>6. j \in JobRecord /\ j.desc = d /\ j.serial = proc[d].serial
  <2>1. PICK o \in JobRecord : o = NoJob BY NoJobIs
  <2>2. r.pid \in 0..MaxPid /\ r.serial \in 0..MaxSerial /\ d \in Descs \cup {Nil}
    BY <1>1, <1>2, ProcFacts DEF ProcRecord
  <2>3. j = [o EXCEPT !.desc = d, !.pid = r.pid, !.serial = r.serial] BY <1>5, <2>1
  <2> QED BY <1>2, <2>2, <2>3 DEF JobRecord
<1>7. job' = [job EXCEPT ![a] = j] BY <1>2, <1>5 DEF Hold
<1>8. Furnished(x, j) /\ x \in Points BY DEF Furnished, Forking, ModPoints, Points
<1>9. Moves(a, x, j) /\ pc' \in [Actors -> Points] /\ job' \in [Actors -> JobRecord]
  BY <1>1, <1>4, <1>6, <1>7, <1>8, Going
<1>10. Sets(proc, proc', d, proc[d].state, proc[d].task, n, proc[d].collecting, proc[d].mod)
  BY <1>1, <1>4, RefsSet DEF ProcTypes
<1>11. Becomes(d, proc[d].state, proc[d].task, proc[d].refs + 1, proc[d].collecting)
  BY <1>1, <1>3, <1>10, AlikeSame DEF Sets, Becomes
<1>12. Holding(a, d, x, j) BY <1>4, <1>6, <1>9, <1>11 DEF Holding
<1>13. ListsSound' BY <1>1, <1>4, <1>11, AlikeStates, ListsKeep DEF ProcInv, Becomes
<1>14. ProcTypes' BY <1>1, <1>4, <1>9, <1>10, RestTypes DEF ProcTypes, Sets
<1> QED BY <1>12, <1>13, <1>14 DEF Fits, Effect

\* An answer, or none: the hold is let go.
LEMMA DropFits ==
  ASSUME ProcInv, NEW a \in Actors,
         WaitAnswered(a) \/ WaitTimedOut(a) \/ KillGivesUp(a) \/ Killed(a)
  PROVE  Fits
<1>1. ProcTypes BY DEF ProcInv
<1>2. /\ pc[a] \in {"wait", "kill", "watch"} /\ Apart /\ Resting /\ links' = links
      /\ UNCHANGED <<list, ended>>
  BY DEF WaitAnswered, WaitTimedOut, KillGivesUp, Killed, Goes, Idles, Apart, Resting, issued
<1>3. PICK d \in Descs : d = job[a].desc /\ proc[d] # Nil
  BY <1>2, InHand DEF HoldingPoints
<1>4. PICK P : P = Dropped(d) OBVIOUS
<1>5. Sets(proc, P, d, proc[d].state, proc[d].task, Less(proc[d].refs), proc[d].collecting,
           proc[d].mod)
  BY <1>1, <1>3, <1>4, LessIs DEF Dropped, ProcTypes
<1>6. Sets(proc, proc', d, proc[d].state, proc[d].task, Less(proc[d].refs),
           proc[d].collecting, proc[d].mod)
  <2>1. CASE proc' = P BY <1>5, <2>1
  <2>2. CASE proc' = [P EXCEPT ![d].waited = TRUE]
    <3>1. Sets(P, proc', d, P[d].state, P[d].task, P[d].refs, P[d].collecting, P[d].mod)
      <4>1. P \in ProcTable /\ P[d] # Nil BY <1>5 DEF Sets
      <4> QED BY <2>2, <4>1, WaitedSet
    <3> QED BY <1>5, <3>1 DEF Sets
  <2> QED BY <1>3, <1>4, <2>1, <2>2
      DEF WaitAnswered, WaitTimedOut, KillGivesUp, Killed
<1>7. Becomes(d, proc[d].state, proc[d].task, Less(proc[d].refs), proc[d].collecting)
  BY <1>3, <1>6, AlikeSame DEF Sets, Becomes
<1>8. ListsSound' BY <1>2, <1>3, <1>7, AlikeStates, ListsKeep DEF ProcInv, Becomes
<1>9. ASSUME NEW y, NEW j, y \in {"why", "idle"}, Moves(a, y, j),
             pc' \in [Actors -> Points], job' \in [Actors -> JobRecord]
      PROVE  Fits
  <2>1. Dropping(a, d, y, j) BY <1>2, <1>3, <1>7, <1>9 DEF Dropping
  <2>2. ProcTypes' BY <1>1, <1>2, <1>6, <1>9, RestTypes DEF ProcTypes, Sets
  <2> QED BY <1>8, <2>1, <2>2 DEF Fits, Effect
<1>10. CASE WaitAnswered(a)
  <2>1. pc' = [pc EXCEPT ![a] = "why"] /\ job' = job BY <1>10 DEF WaitAnswered, Goes
  <2>2. Furnished("why", job[a]) /\ "why" \in Points
    BY DEF Furnished, Forking, ModPoints, Points
  <2>3. Moves(a, "why", job[a]) /\ pc' \in [Actors -> Points] /\ job' \in [Actors -> JobRecord]
    BY <1>1, <2>1, <2>2, Staying
  <2> QED BY <1>9, <2>3
<1>11. CASE WaitTimedOut(a) \/ KillGivesUp(a) \/ Killed(a)
  <2>1. pc' = [pc EXCEPT ![a] = "idle"] /\ job' = [job EXCEPT ![a] = NoJob]
    BY <1>11 DEF WaitTimedOut, KillGivesUp, Killed, Idles, Goes
  <2>2. Furnished("idle", NoJob) /\ "idle" \in Points
    BY DEF Furnished, Forking, ModPoints, Points
  <2>3. Moves(a, "idle", NoJob) /\ pc' \in [Actors -> Points] /\ job' \in [Actors -> JobRecord]
    BY <1>1, <2>1, <2>2, NoJobIs, Going
  <2> QED BY <1>9, <2>3
<1> QED BY <1>10, <1>11

LEMMA ClaimFits ==
  ASSUME ProcInv, NEW a \in Actors, NEW d, d = job[a].desc, pc[a] \in {"wait", "funeral"},
         NEW back \in {"wait", "watch"}, Claimed(a, d, back),
         Resting, links' = links, UNCHANGED <<list, ended>>
  PROVE  Fits
<1>1. ProcTypes /\ d \in Descs /\ proc[d] # Nil
  BY InHand DEF ProcInv, HoldingPoints
<1>2. PICK o \in JobRecord : o = job[a] BY <1>1 DEF ProcTypes
<1>3. PICK j : j = [o EXCEPT !.back = back] OBVIOUS
<1>4. j \in JobRecord /\ j.desc = d /\ j.serial = job[a].serial /\ j.back = back
  <2>1. PICK b \in {"idle", "wait", "watch"} : b = back OBVIOUS
  <2>2. j = [o EXCEPT !.back = b] BY <1>3, <2>1
  <2>3. j \in JobRecord /\ j.desc = o.desc /\ j.serial = o.serial /\ j.back = b
    BY <2>2, BackInHand
  <2> QED BY <1>2, <2>1, <2>3
<1>5. /\ pc' = [pc EXCEPT ![a] = "collect"] /\ job' = [job EXCEPT ![a] = j] /\ Faulted(d)
      /\ proc' = [proc EXCEPT ![d].collecting = TRUE]
  BY <1>2, <1>3 DEF Claimed
<1>6. Furnished("collect", j) /\ "collect" \in Points
  BY DEF Furnished, Forking, ModPoints, Points
<1>7. Moves(a, "collect", j) /\ pc' \in [Actors -> Points] /\ job' \in [Actors -> JobRecord]
  BY <1>1, <1>4, <1>5, <1>6, Going
<1>8. Sets(proc, proc', d, proc[d].state, proc[d].task, proc[d].refs, TRUE, proc[d].mod)
  BY <1>1, <1>5, CollectingSet DEF ProcTypes
<1>9. Becomes(d, proc[d].state, proc[d].task, proc[d].refs, TRUE)
  BY <1>1, <1>8, AlikeSame DEF Sets, Becomes
<1>10. Apart BY DEF Apart, Resting, issued
<1>11. Claiming(a, d, j) BY <1>4, <1>5, <1>7, <1>9, <1>10 DEF Claiming
<1>12. ListsSound' BY <1>1, <1>9, AlikeStates, ListsKeep DEF ProcInv, Becomes
<1>13. ProcTypes' BY <1>1, <1>7, <1>8, RestTypes DEF ProcTypes, Sets
<1> QED BY <1>11, <1>12, <1>13 DEF Fits, Effect

LEMMA WaitCollectsFits ==
  ASSUME ProcInv, NEW a \in Actors, WaitCollects(a)
  PROVE  Fits
<1>1. PICK d : d = job[a].desc OBVIOUS
<1>2. /\ pc[a] = "wait" /\ Claimed(a, d, "wait")
      /\ Resting /\ links' = links /\ UNCHANGED <<list, ended>>
  BY <1>1 DEF WaitCollects, Resting
<1> QED BY <1>1, <1>2, ClaimFits

\* From the shot to the funeral, and from a funeral somebody else holds to the watch.
LEMMA PassFits ==
  ASSUME ProcInv, NEW a \in Actors, NEW y \in {"funeral", "watch"},
         pc[a] \in {"kill", "funeral"}, pc' = [pc EXCEPT ![a] = y],
         proc' = proc, job' = job, Resting, links' = links, UNCHANGED <<list, ended>>
  PROVE  Fits
<1>1. ProcTypes BY DEF ProcInv
<1>2. Furnished(y, job[a]) /\ y \in Points BY DEF Furnished, Forking, ModPoints, Points
<1>3. Moves(a, y, job[a]) /\ pc' \in [Actors -> Points] /\ job' \in [Actors -> JobRecord]
  BY <1>1, <1>2, Staying
<1>4. Untouched BY AlikeSame DEF Untouched
<1>5. Apart BY DEF Apart, Resting, issued
<1>6. Passing(a, y) BY <1>3, <1>4, <1>5 DEF Passing
<1>7. ListsSound' BY <1>4, UntouchedFits
<1>8. ProcTypes' BY <1>1, <1>3, RestTypes DEF ProcTypes
<1> QED BY <1>6, <1>7, <1>8 DEF Fits, Effect

LEMMA KillFuneralFits ==
  ASSUME ProcInv, NEW a \in Actors, KillFuneral(a)
  PROVE  Fits
<1>1. PICK d : d = job[a].desc OBVIOUS
<1>2. pc[a] = "funeral" /\ Resting /\ links' = links /\ UNCHANGED <<list, ended>>
  BY DEF KillFuneral, Resting
<1>3. CASE Claimed(a, d, "watch") BY <1>1, <1>2, <1>3, ClaimFits
<1>4. CASE Goes(a, "funeral", "watch") /\ UNCHANGED <<proc, job>>
  BY <1>2, <1>4, PassFits DEF Goes
<1> QED BY <1>1, <1>3, <1>4 DEF KillFuneral

\* The thread of a process that has not ended is in its code.
LEMMA ThreadOf ==
  ASSUME ProcInv, NEW d \in Descs, proc[d] # Nil, proc[d].state # "exited",
         NEW t, t = proc[d].task, t # Nil, thread[t] = "live"
  PROVE  t \in Slots /\ t \in Actors /\ body[t] = d /\ pc[t] # "bury"
<1>1. ThreadsSound /\ TasksSound BY DEF ProcInv, Places
<1>2. proc[d].state = "active" /\ t \in Slots BY KindsHold DEF ProcKinds
<1>3. body[t] = d BY <1>1, <1>2 DEF TasksSound
<1>4. pc[t] # "bury" BY <1>1, <1>2, <1>3 DEF ThreadsSound
<1> QED BY <1>2, <1>3, <1>4, ProcFacts

LEMMA KillDoneFits ==
  ASSUME ProcInv, NEW a \in Actors, KillDone(a)
  PROVE  Fits
<1>1. ProcTypes BY DEF ProcInv
<1>2. PICK d \in Descs : d = job[a].desc /\ proc[d] # Nil
  BY InHand DEF KillDone, HoldingPoints
<1>3. PICK t : t = proc[d].task OBVIOUS
<1>4. pc[a] = "kill" /\ proc' = proc /\ UNCHANGED <<list, ended, issued, links>>
  BY DEF KillDone, table
<1>5. CASE pc' = [pc EXCEPT ![a] = "funeral"] /\ UNCHANGED <<kernel, job, lost>>
  BY <1>4, <1>5, PassFits DEF Resting
<1>6. CASE /\ proc[d].state # "exited" /\ t # Nil /\ thread[t] = "live" /\ Died(t)
           /\ pc' = [pc EXCEPT ![a] = "funeral", ![t] = "none"]
           /\ job' = [job EXCEPT ![t] = NoJob] /\ body' = body
  <2>1. /\ t \in Slots /\ t \in Actors /\ body[t] = d /\ pc[t] # "bury"
    BY <1>2, <1>3, <1>6, ThreadOf
  <2>2. /\ thread' \in [Slots -> {"free", "live", "dead"}] /\ thread'[t] = "dead"
        /\ \A u \in Slots \ {t} : thread'[u] = thread[u]
        /\ lost' = IF pc[t] = "idle" \/ pc[t] = "exit" THEN lost ELSE lost \cup {Remains(t)}
        /\ lost' \in SUBSET LostRecord /\ IsFiniteSet(lost')
    BY <1>6, <2>1, DiedIs
  <2>3. /\ pc' \in [Actors -> Points] /\ job' \in [Actors -> JobRecord]
        /\ pc'[t] = "none" /\ job'[t] = NoJob
        /\ a # t => pc'[a] = "funeral" /\ job'[a] = job[a]
        /\ \A b \in Actors \ {a, t} : pc'[b] = pc[b] /\ job'[b] = job[b]
    BY <1>1, <1>6, <2>1, NoJobIs DEF ProcTypes, Points
  <2>4. Untouched BY <1>4, AlikeSame DEF Untouched
  <2>5. Dying(a, t) BY <1>4, <1>6, <2>1, <2>2, <2>3, <2>4 DEF Dying, issued
  <2>6. ListsSound' BY <1>4, <2>4, UntouchedFits
  <2>7. ProcTypes' BY <1>1, <1>4, <1>6, <2>2, <2>3 DEF ProcTypes, issued
  <2> QED BY <2>5, <2>6, <2>7 DEF Fits, Effect
<1> QED BY <1>2, <1>3, <1>5, <1>6 DEF KillDone

LEMMA CollectFits ==
  ASSUME ProcInv, NEW a \in Actors, Collect(a)
  PROVE  Fits
<1>1. ProcTypes BY DEF ProcInv
<1>2. PICK d \in Descs : d = job[a].desc /\ proc[d] # Nil /\ proc[d].state = "active"
  <2>1. pc[a] = "collect" BY DEF Collect, Goes
  <2>2. proc[job[a].desc].collecting BY <2>1 DEF ProcInv, Places, HoldsSound
  <2> QED BY <2>1, <2>2, InHand DEF HoldingPoints, ProcInv, Places, TasksSound
<1>3. /\ pc[a] = "collect" /\ pc' = [pc EXCEPT ![a] = "reap"]
      /\ ended' = Append(ended, d) /\ list' = list /\ Apart /\ Resting /\ links' = links
  BY <1>2 DEF Collect, Goes, Apart, Resting, issued
<1>4. PICK Q : Q = Ended(proc, d) OBVIOUS
<1>5. /\ Q \in ProcTable /\ Q[d] # Nil
      /\ Q[d].state = "exited" /\ Q[d].serial = proc[d].serial
      /\ Q[d].refs = proc[d].refs
      /\ \A e \in Descs \ {d} : Alike(Q[e], proc[e])
  BY <1>1, <1>2, <1>4, EndedIs DEF ProcTypes
<1>6. PICK R : R = [Q EXCEPT ![d].task = Nil] OBVIOUS
<1>7. Sets(Q, R, d, "exited", Nil, proc[d].refs, Q[d].collecting, Q[d].mod)
  BY <1>5, <1>6, TaskSet
<1>8. Sets(R, proc', d, "exited", Nil, proc[d].refs, FALSE, R[d].mod)
  <2>1. proc' = [R EXCEPT ![d].collecting = FALSE] BY <1>2, <1>4, <1>6 DEF Collect
  <2>2. R \in ProcTable /\ R[d] # Nil /\ R[d].state = "exited" /\ R[d].task = Nil
        /\ R[d].refs = proc[d].refs
    BY <1>7 DEF Sets
  <2> QED BY <2>1, <2>2, CollectingSet
<1>9. Becomes(d, "exited", Nil, proc[d].refs, FALSE)
  BY <1>2, <1>5, <1>7, <1>8 DEF Sets, Becomes
<1>10. PICK o \in JobRecord : o = job[a] BY <1>1 DEF ProcTypes
<1>11. PICK m \in Mods : m = proc[d].mod BY <1>2, KindsHold DEF ProcKinds
<1>12. PICK j : j = [o EXCEPT !.mod = m] OBVIOUS
<1>13. j \in JobRecord /\ j.mod = m /\ j.desc = d /\ j.serial = job[a].serial
       /\ j.back = job[a].back
  BY <1>2, <1>10, <1>12, ModInHand
<1>14. job' = [job EXCEPT ![a] = j] BY <1>2, <1>10, <1>11, <1>12 DEF Collect
<1>15. Furnished("reap", j) /\ "reap" \in Points BY <1>13 DEF Furnished, Forking, Points
<1>16. Moves(a, "reap", j) /\ pc' \in [Actors -> Points] /\ job' \in [Actors -> JobRecord]
  BY <1>1, <1>3, <1>13, <1>14, <1>15, Going
<1>17. Collecting(a, d, j) BY <1>2, <1>3, <1>9, <1>13, <1>16 DEF Collecting
<1>18. ListsSound' BY <1>2, <1>3, <1>9, AlikeStates, ListsEnd DEF ProcInv, Becomes
<1>19. ProcTypes' BY <1>1, <1>3, <1>8, <1>16, RestTypes DEF ProcTypes, Sets
<1> QED BY <1>17, <1>18, <1>19 DEF Fits, Effect

LEMMA ReapFits ==
  ASSUME ProcInv, NEW a \in Actors, Reap(a)
  PROVE  Fits
<1>1. ProcTypes BY DEF ProcInv
<1>2. PICK d \in Descs : d = job[a].desc /\ proc[d] # Nil
  BY InHand DEF Reap, Goes, HoldingPoints
<1>3. /\ pc[a] = "reap" /\ pc' = [pc EXCEPT ![a] = job[a].back]
      /\ UNCHANGED <<list, ended, issued, lost>>
      /\ thread' = [t \in Slots |-> IF thread[t] = "dead" /\ body[t] = d THEN "free" ELSE thread[t]]
      /\ body' = [t \in Slots |-> IF thread[t] = "dead" /\ body[t] = d THEN Nil ELSE body[t]]
      /\ proc' = [proc EXCEPT ![d].refs = IF @ > 0 THEN @ - 1 ELSE 0]
      /\ links' = UnlinkedIn(links, job[a].mod)
  BY <1>2 DEF Reap, Goes
<1>4. job[a].back \in {"wait", "watch"}
  BY <1>3 DEF ProcInv, Places, BuriersApart, Undertaking
<1>5. PICK o \in JobRecord : o = job[a] BY <1>1 DEF ProcTypes
<1>6. PICK j : j = [o EXCEPT !.mod = Nil] OBVIOUS
<1>7. j \in JobRecord /\ j.desc = d /\ j.serial = job[a].serial
  BY <1>2, <1>5, <1>6, ModInHand
<1>8. job' = [job EXCEPT ![a] = j] BY <1>5, <1>6 DEF Reap
<1>9. Furnished(job[a].back, j) /\ job[a].back \in Points
  BY <1>4 DEF Furnished, Forking, ModPoints, Points
<1>10. Moves(a, job[a].back, j) /\ pc' \in [Actors -> Points] /\ job' \in [Actors -> JobRecord]
  BY <1>1, <1>3, <1>7, <1>8, <1>9, Going
<1>11. Sets(proc, proc', d, proc[d].state, proc[d].task, Less(proc[d].refs),
            proc[d].collecting, proc[d].mod)
  BY <1>1, <1>2, <1>3, LessIs DEF ProcTypes
<1>12. Becomes(d, proc[d].state, proc[d].task, Less(proc[d].refs), proc[d].collecting)
  BY <1>2, <1>11, AlikeSame DEF Sets, Becomes
<1>13. /\ thread' \in [Slots -> {"free", "live", "dead"}] /\ body' \in [Slots -> Descs \cup {Nil}]
       /\ \A t \in Slots :
            IF thread[t] = "dead" /\ body[t] = d THEN thread'[t] = "free" /\ body'[t] = Nil
            ELSE thread'[t] = thread[t] /\ body'[t] = body[t]
  BY <1>1, <1>3 DEF ProcTypes
<1>14. Reaping(a, d, j)
  BY <1>2, <1>3, <1>7, <1>10, <1>12, <1>13 DEF Reaping, issued
<1>15. ListsSound' BY <1>2, <1>3, <1>12, AlikeStates, ListsKeep DEF ProcInv, Becomes
<1>16. links' \in [Mods -> Nat] BY <1>1, <1>3, LinksAre DEF ProcTypes
<1>17. ProcTypes' BY <1>1, <1>3, <1>10, <1>11, <1>13, <1>16 DEF ProcTypes, Sets, issued
<1> QED BY <1>14, <1>15, <1>17 DEF Fits, Effect

(***************************************************************************)
(* The count of holders: induction.                                        *)
(***************************************************************************)
LEMMA ProcInvInit ==
  ASSUME Init
  PROVE  ProcInv
<1>1. ProcTypes
  <2>1. proc \in ProcTable BY DEF Init, ProcTable
  <2>2. next_pid \in 1..MaxPid /\ next_serial \in 1..MaxSerial + 1 BY ProcFacts DEF Init
  <2>3. links \in [Mods -> Nat] /\ thread \in [Slots -> {"free", "live", "dead"}]
        /\ body \in [Slots -> Descs \cup {Nil}]
    BY DEF Init
  <2>4. pc \in [Actors -> Points] BY DEF Init, Points
  <2>5. job \in [Actors -> JobRecord] BY NoJobIs DEF Init
  <2>6. lost \in SUBSET LostRecord /\ IsFiniteSet(lost) BY FS_EmptySet DEF Init
  <2> QED BY <2>1, <2>2, <2>3, <2>4, <2>5, <2>6 DEF ProcTypes
<1>2. \A d \in Descs : proc[d] = Nil BY DEF Init
<1>3. ListsSound
  <2>1. Listed = {} /\ Living = {} BY <1>2 DEF Listed, Living
  <2>2. list = <<>> /\ ended = <<>> BY DEF Init
  <2>3. <<>> \in Seq(Descs) /\ DOMAIN <<>> = {} OBVIOUS
  <2>4. Once(<<>>) /\ ToSet(<<>>) = {} BY <2>3 DEF Once, ToSet
  <2> QED BY <2>1, <2>2, <2>3, <2>4 DEF ListsSound
<1>4. /\ \A a \in Actors : pc[a] \in {"idle", "none"}
      /\ \A t \in Slots : pc[t] = "none" /\ thread[t] = "free" /\ body[t] = Nil
      /\ lost = {}
  BY ProcFacts DEF Init
<1>5. Places
  BY <1>2, <1>4, ProcFacts
  DEF Places, ThreadsSound, TasksSound, HoldsSound, HoldingPoints, BuriersApart, Undertaking,
      MakersSound, ForksSound, ModsSound, Forking, LostSound, SerialsApart
<1>6. HoldsCounted BY <1>2 DEF HoldsCounted
<1> QED BY <1>1, <1>3, <1>5, <1>6 DEF ProcInv

LEMMA StepsFit ==
  ASSUME ProcInv, MayAskUnborn = FALSE, "bury" \notin FaultsAt, Next
  PROVE  Fits
<1>1. ASSUME NEW a \in Actors, Step(a) PROVE Fits
  <2>1. ASSUME NEW m \in Mods, ForkCharged(a, m) PROVE Fits BY <2>1, ForkChargedFits
  <2>2. ASSUME NEW m \in Mods, ForkOverBudget(a, m) PROVE Fits BY <2>2, ForkOverBudgetFits
  <2>3. CASE ForkAdmitted(a) \/ ForkRefused(a) BY <2>3, ForkGoesOn
  <2>4. CASE Refuse(a) BY <2>4, RefuseFits
  <2>5. CASE Undo(a) \/ WaitWhy(a) BY <2>5, IdlesFit
  <2>6. ASSUME NEW d \in Descs, ForkInserted(a, d) PROVE Fits BY <2>6, ForkInsertedFits
  <2>7. ASSUME NEW t \in Slots, ForkStarted(a, t) PROVE Fits BY <2>7, ForkStartedFits
  <2>8. CASE ForkNotStarted(a) BY <2>8, ForkNotStartedFits
  <2>9. CASE Collect(a) BY <2>9, CollectFits
  <2>10. CASE Reap(a) BY <2>10, ReapFits
  <2>11. ASSUME NEW d \in Descs, Wait(a, d) \/ Kill(a, d) PROVE Fits
    <3>1. d \in Listed /\ (Hold(a, d, "wait") \/ Hold(a, d, "kill"))
      BY <2>11 DEF Wait, Kill, Living
    <3> QED BY <3>1, HoldFits
  <2>12. CASE WaitCollects(a) BY <2>12, WaitCollectsFits
  <2>13. CASE WaitAnswered(a) \/ WaitTimedOut(a) \/ KillGivesUp(a) \/ Killed(a)
    BY <2>13, DropFits
  <2>14. CASE KillDone(a) BY <2>14, KillDoneFits
  <2>15. CASE KillFuneral(a) BY <2>15, KillFuneralFits
  <2> QED
    BY <1>1, <2>1, <2>2, <2>3, <2>4, <2>5, <2>6, <2>7, <2>8, <2>9, <2>10, <2>11, <2>12, <2>13,
       <2>14, <2>15 DEF Step
<1>2. ASSUME NEW t \in Slots, Body(t) PROVE Fits
  <2>0. t \in Actors BY ProcFacts
  <2>1. ASSUME NEW m \in Mods, ChainLinked(t, m) PROVE Fits BY <2>1, ChainLinkedFits
  <2>2. ASSUME NEW swapped \in ChainEnds, ChainRefused(t, swapped) PROVE Fits
    BY <2>2, ChainRefusedFits
  <2>3. CASE Chained(t) BY <2>0, <2>3, IdlesFit
  <2>8. CASE ChainSwapped(t) BY <2>8, ChainSwappedFits
  <2>4. CASE Exit(t) BY <2>4, ExitFits
  <2>5. CASE Finish(t) BY <2>5, FinishFits
  <2>6. CASE Bury(t) BY <2>6, BuryFits
  <2>7. CASE Faults(t) BY <2>7, FaultsFits
  <2> QED BY <1>2, <2>1, <2>2, <2>3, <2>4, <2>5, <2>6, <2>7, <2>8 DEF Body
<1> QED BY <1>1, <1>2 DEF Next

\* Each step has its effect, and every effect keeps the invariant.
LEMMA ProcInvNext ==
  ASSUME ProcInv, MayAskUnborn = FALSE, "bury" \notin FaultsAt, [Next]_vars
  PROVE  ProcInv'
<1>1. CASE Next
  <2>1. ProcTypes' /\ ListsSound' /\ Effect BY <1>1, StepsFit DEF Fits
  <2>2. Places' /\ HoldsCounted' BY <2>1, EffectKeeps
  <2> QED BY <2>1, <2>2 DEF ProcInv
<1>2. CASE UNCHANGED vars
  <2>1. ProcTypes' BY <1>2 DEF vars, ProcInv, ProcTypes
  <2>2. ListsSound' BY <1>2 DEF vars, ProcInv, ListsSound, Listed, Living
  <2>3. ThreadsSound' /\ TasksSound' BY <1>2 DEF vars, ProcInv, Places, ThreadsSound, TasksSound
  <2>4. HoldsSound' BY <1>2 DEF vars, ProcInv, Places, HoldsSound, Held, Born, Buried
  <2>5. BuriersApart' /\ ForksSound' /\ ModsSound' /\ SerialsApart'
    BY <1>2 DEF vars, ProcInv, Places, BuriersApart, ForksSound, ModsSound, SerialsApart
  <2>6. MakersSound' BY <1>2 DEF vars, ProcInv, Places, MakersSound, Born
  <2>7. LostSound'
    BY <1>2 DEF vars, ProcInv, Places, LostSound, LostFits, Held, Born, Buried
  <2>8. HoldsCounted'
    <3>1. \A d \in Descs : Holders(d)' = Holders(d) BY <1>2 DEF vars, Holders
    <3>2. \A d \in Descs : LostHolds(proc[d].serial)' = LostHolds(proc[d].serial)
      BY <1>2 DEF vars, LostHolds
    <3>3. \A d \in Descs : Own(d)' <=> Own(d) BY <1>2 DEF vars, Own
    <3> HIDE DEF Holders, LostHolds, Own
    <3> QED BY <1>2, <3>1, <3>2, <3>3 DEF vars, ProcInv, HoldsCounted, Counted
  <2> QED BY <2>1, <2>2, <2>3, <2>4, <2>5, <2>6, <2>7, <2>8 DEF ProcInv, Places
<1> QED BY <1>1, <1>2

\* Who may hold what, and the counts of holds, are kept by every step.
LEMMA ProcInvHolds ==
  ASSUME MayAskUnborn = FALSE, "bury" \notin FaultsAt
  PROVE  Spec => []ProcInv
<1>1. Init => ProcInv BY ProcInvInit
<1>2. ProcInv /\ [Next]_vars => ProcInv' BY ProcInvNext
<1> QED BY <1>1, <1>2, PTL DEF Spec

\* The lists have no process twice, so that they are as long as what they name.
LEMMA OnceIsLong ==
  ASSUME NEW T, NEW s \in Seq(T), Once(s)
  PROVE  Len(s) = Cardinality(ToSet(s))
<1>1. PICK n \in Nat : n = Len(s) /\ DOMAIN s = 1..n OBVIOUS
<1>2. PICK S : S = ToSet(s) OBVIOUS
<1>3. s \in Bijection(1..n, S)
  <2>1. s \in [1..n -> S] BY <1>1, <1>2 DEF ToSet
  <2>2. s \in Injection(1..n, S) BY <1>1, <2>1 DEF Once, Injection, IsInjective
  <2>3. s \in Surjection(1..n, S) BY <1>1, <1>2, <2>1 DEF ToSet, Surjection
  <2> QED BY <2>2, <2>3 DEF Bijection
<1>6. n \in Nat BY <1>1
<1>4. PICK I : I = 1..n /\ IsFiniteSet(I) /\ Cardinality(I) = n BY <1>6, FS_Interval
<1>5. Cardinality(S) = n
  <2>1. s \in Bijection(I, S) BY <1>3, <1>4
  <2>2. ExistsBijection(I, S) BY <2>1 DEF ExistsBijection
  <2> QED BY <1>4, <2>2, FS_Bijection
<1> QED BY <1>1, <1>2, <1>5

LEMMA ProcTypesAre ==
  ASSUME ProcInv
  PROVE  TypeOK
<1>1. ProcTypes /\ ListsSound BY DEF ProcInv
<1>2. Len(list) = Cardinality(Listed) /\ Len(ended) = Cardinality(Listed \ Living)
  BY <1>1, OnceIsLong DEF ListsSound
<1> QED BY <1>1, <1>2 DEF ProcTypes, ListsSound, TypeOK, ProcTable

\* A descriptor's count (rv9_proc_t's refs) is of those who hold it - whoever
\* waits for it, kills it or buries it, those stopped while they did, and its own
\* task until it is buried - so that prune_locked and the drop of a hold in
\* rv9_proc_wait, rv9_proc_kill and finish (proc.c) never free a descriptor, or
\* have it forgotten and used for another process, while anybody still has it.
\* A process is asked about by the number its fork returned, and no thread is off
\* its stack once its process is marked as ended.
THEOREM RefsHold ==
  ASSUME MayAskUnborn = FALSE, "bury" \notin FaultsAt
  PROVE  Spec => []RefsAreHolds
<1>1. ASSUME ProcInv PROVE RefsAreHolds
  <2>1. TypeOK BY <1>1, ProcTypesAre
  <2>2. \A t \in Slots : thread[t] # "free" => proc[body[t]] # Nil
    BY <1>1 DEF ProcInv, Places, ThreadsSound
  <2>3. \A a \in Actors : pc[a] \in HoldingPoints =>
          proc[job[a].desc] # Nil /\ proc[job[a].desc].serial = job[a].serial
    BY <1>1 DEF ProcInv, Places, HoldsSound, Held
  <2>4. ASSUME NEW d \in Listed
        PROVE  proc[d].refs = Cardinality(Holders(d))
                 + Cardinality({l \in LostAt(HoldingPoints) : l.job.serial = proc[d].serial})
                 + (IF \/ d \in Living
                       \/ \E t \in Slots : pc[t] = "bury" /\ body[t] = d
                       \/ \E a \in Actors : pc[a] = "reap" /\ job[a].desc = d
                       \/ \E l \in LostAt({"reap"}) : l.job.serial = proc[d].serial
                    THEN 1 ELSE 0)
    <3>1. d \in Descs /\ proc[d] # Nil BY DEF Listed
    <3>2. {l \in LostAt(HoldingPoints) : l.job.serial = proc[d].serial}
            = LostHolds(proc[d].serial)
      BY DEF LostAt, LostHolds
    <3>3. (\/ d \in Living
           \/ \E t \in Slots : pc[t] = "bury" /\ body[t] = d
           \/ \E a \in Actors : pc[a] = "reap" /\ job[a].desc = d
           \/ \E l \in LostAt({"reap"}) : l.job.serial = proc[d].serial) <=> Own(d)
      BY DEF Living, LostAt, Own
    <3>4. Counted(d) BY <1>1, <3>1 DEF ProcInv, HoldsCounted
    <3> HIDE DEF Holders, LostHolds, Own
    <3> QED BY <3>2, <3>3, <3>4 DEF Counted
  <2> QED BY <2>1, <2>2, <2>3, <2>4 DEF RefsAreHolds
<1>2. ProcInv => RefsAreHolds BY <1>1
<1> QED BY <1>2, ProcInvHolds, PTL

(***************************************************************************)
(* The links of the modules.                                               *)
(***************************************************************************)
Runs(m) == {d \in Living : proc[d].mod = m /\ ~Between(d)}
Ends(m) == {t \in Slots : pc[t] = "bury" /\ proc[body[t]].mod = m}
Carries(m) == {a \in Actors : pc[a] \in LinkPoints /\ job[a].mod = m}
Leaves(m) == {l \in LostAt(LinkPoints) : l.job.mod = m}
Linked(m) == links[m] = Cardinality(Runs(m)) + Cardinality(Ends(m))
                        + Cardinality(Carries(m)) + Cardinality(Leaves(m))

\* A fork under way has the module it put in the table.
MakersMods == \A a \in Actors : pc[a] = "create" => proc[job[a].desc].mod = job[a].mod
LinkInv == (\A m \in Mods : Linked(m)) /\ MakersMods

Bit(b) == IF b THEN 1 ELSE 0
Weight(a, d, m) == Bit(d \in Runs(m)) + Bit(a \in Ends(m)) + Bit(a \in Carries(m))

LEMMA OneDiffers ==
  ASSUME NEW S, NEW T, IsFiniteSet(S), NEW x, \A y : y # x => (y \in S <=> y \in T)
  PROVE  /\ Cardinality(S) \in Nat /\ Cardinality(T) \in Nat /\ Cardinality(S) >= Bit(x \in S)
         /\ Cardinality(T) = Cardinality(S) - Bit(x \in S) + Bit(x \in T)
<1>0. Cardinality(S) \in Nat BY FS_CardinalityType
<1>1. CASE x \in S <=> x \in T
  <2>1. S = T BY <1>1
  <2>2. x \in S => Cardinality(S) > 0 BY CountOne
  <2> QED BY <1>0, <2>1, <2>2 DEF Bit
<1>2. CASE x \in S /\ x \notin T
  <2>1. T = S \ {x} BY <1>2
  <2>2. Cardinality(S \ {x}) = Cardinality(S) - 1 /\ Cardinality(S) > 0 BY <1>2, CountOne
  <2> QED BY <1>0, <1>2, <2>1, <2>2 DEF Bit
<1>3. CASE x \notin S /\ x \in T
  <2>1. T = S \cup {x} BY <1>3
  <2>2. Cardinality(S \cup {x}) = Cardinality(S) + 1 BY <1>3, CountOne
  <2> QED BY <1>0, <1>3, <2>1, <2>2 DEF Bit
<1> QED BY <1>1, <1>2, <1>3

LEMMA LinkSetsFinite ==
  ASSUME ProcInv, NEW m
  PROVE  /\ IsFiniteSet(Runs(m)) /\ IsFiniteSet(Ends(m)) /\ IsFiniteSet(Carries(m))
         /\ IsFiniteSet(Leaves(m))
<1>1. Runs(m) \subseteq Descs BY DEF Runs, Living, Listed
<1>2. Ends(m) \subseteq Slots BY DEF Ends
<1>3. Carries(m) \subseteq Actors BY DEF Carries
<1>4. Leaves(m) \subseteq lost /\ IsFiniteSet(lost)
  BY DEF Leaves, LostAt, ProcInv, ProcTypes
<1> QED BY <1>1, <1>2, <1>3, <1>4, ProcFacts, FS_Subset

\* One process and one actor change what they link, and the count with them.
SameElsewhere(a, d, m) ==
  /\ \A e : e # d => (e \in Runs(m) <=> e \in Runs(m)')
  /\ \A t : t # a => (t \in Ends(m) <=> t \in Ends(m)')
  /\ \A b : b # a => (b \in Carries(m) <=> b \in Carries(m)')

LEMMA Balance ==
  ASSUME ProcInv, LinkInv, NEW a, NEW d, NEW m \in Mods, lost' = lost, SameElsewhere(a, d, m)
  PROVE  /\ links[m] \in Nat /\ Weight(a, d, m) \in Nat /\ links[m] >= Weight(a, d, m)
         /\ links'[m] = links[m] - Weight(a, d, m) + Weight(a, d, m)' => Linked(m)'
<1>1. PICK R : R = Runs(m) OBVIOUS
<1>2. PICK E : E = Ends(m) OBVIOUS
<1>3. PICK C : C = Carries(m) OBVIOUS
<1>4. PICK L : L = Leaves(m) OBVIOUS
<1>5. PICK R1 : R1 = Runs(m)' OBVIOUS
<1>6. PICK E1 : E1 = Ends(m)' OBVIOUS
<1>7. PICK C1 : C1 = Carries(m)' OBVIOUS
<1>8. Leaves(m)' = L BY <1>4 DEF Leaves, LostAt
<1>9. /\ IsFiniteSet(R) /\ IsFiniteSet(E) /\ IsFiniteSet(C) /\ IsFiniteSet(L)
  BY <1>1, <1>2, <1>3, <1>4, LinkSetsFinite
<1>10. /\ Cardinality(R) \in Nat /\ Cardinality(R1) \in Nat /\ Cardinality(R) >= Bit(d \in R)
       /\ Cardinality(R1) = Cardinality(R) - Bit(d \in R) + Bit(d \in R1)
  BY <1>1, <1>5, <1>9, OneDiffers DEF SameElsewhere
<1>11. /\ Cardinality(E) \in Nat /\ Cardinality(E1) \in Nat /\ Cardinality(E) >= Bit(a \in E)
       /\ Cardinality(E1) = Cardinality(E) - Bit(a \in E) + Bit(a \in E1)
  BY <1>2, <1>6, <1>9, OneDiffers DEF SameElsewhere
<1>12. /\ Cardinality(C) \in Nat /\ Cardinality(C1) \in Nat /\ Cardinality(C) >= Bit(a \in C)
       /\ Cardinality(C1) = Cardinality(C) - Bit(a \in C) + Bit(a \in C1)
  BY <1>3, <1>7, <1>9, OneDiffers DEF SameElsewhere
<1>13. Cardinality(L) \in Nat BY <1>9, FS_CardinalityType
<1>14. links[m] = Cardinality(R) + Cardinality(E) + Cardinality(C) + Cardinality(L)
  BY <1>1, <1>2, <1>3, <1>4 DEF LinkInv, Linked
<1>15. Linked(m)' <=> links'[m] = Cardinality(R1) + Cardinality(E1) + Cardinality(C1)
                                  + Cardinality(L)
  BY <1>5, <1>6, <1>7, <1>8 DEF Linked
<1>16. Weight(a, d, m) = Bit(d \in R) + Bit(a \in E) + Bit(a \in C)
  BY <1>1, <1>2, <1>3 DEF Weight
<1>17. Weight(a, d, m)' = Bit(d \in R1) + Bit(a \in E1) + Bit(a \in C1)
  BY <1>5, <1>6, <1>7 DEF Weight
<1>18. /\ Bit(d \in R) \in Nat /\ Bit(a \in E) \in Nat /\ Bit(a \in C) \in Nat
       /\ Bit(d \in R1) \in Nat /\ Bit(a \in E1) \in Nat /\ Bit(a \in C1) \in Nat
  BY DEF Bit
<1> HIDE DEF Bit, Linked, Weight
<1> QED BY <1>10, <1>11, <1>12, <1>13, <1>14, <1>15, <1>16, <1>17, <1>18

\* A step of one actor, on one process that is not at its end.
SameRun(r, q) == /\ r = Nil <=> q = Nil
                 /\ q # Nil => r.state = q.state /\ r.mod = q.mod
Changes(a, y, j) ==
  /\ pc'[a] = y /\ job'[a] = j
  /\ \A b \in Actors \ {a} : pc'[b] = pc[b] /\ job'[b] = job[b]
Ledger(a, y, j, d) ==
  /\ Changes(a, y, j) /\ lost' = lost
  /\ \A e \in Descs \ {d} : SameRun(proc'[e], proc[e])
  /\ d \in Descs => proc[d] = Nil \/ proc[d].state = "active"
  /\ \A t \in Slots \ {a} : pc[t] \in {"bury", "swap"} => body'[t] = body[t]
  /\ pc[a] = "swap" \/ y = "swap" => a \in Slots /\ body[a] = d /\ body'[a] = d
  /\ y = "create" => proc'[j.desc].mod = j.mod
  /\ \A b \in Actors \ {a} : pc[b] = "create" => job[b].desc # d

LEMMA LedgerElsewhere ==
  ASSUME ProcInv, LinkInv, NEW a \in Actors, NEW y, NEW j, NEW d, Ledger(a, y, j, d)
  PROVE  MakersMods' /\ \A m \in Mods : SameElsewhere(a, d, m)
<1>0. ProcKinds BY KindsHold
<1>1. MakersMods'
  BY DEF Ledger, Changes, SameRun, LinkInv, MakersMods, ProcInv, Places, MakersSound
<1> SUFFICES ASSUME NEW m \in Mods PROVE SameElsewhere(a, d, m) BY <1>1
<1>2. \A e : e # d => (e \in Runs(m) <=> e \in Runs(m)')
  <2> SUFFICES ASSUME NEW e, e # d PROVE e \in Runs(m) <=> e \in Runs(m)' OBVIOUS
  <2>1. ASSUME NEW t \in Slots
        PROVE  pc[t] = "swap" /\ body[t] = e <=> pc'[t] = "swap" /\ body'[t] = e
    <3>1. CASE t = a BY <3>1 DEF Ledger, Changes
    <3>2. CASE t # a BY <3>2, ProcFacts DEF Ledger, Changes
    <3> QED BY <3>1, <3>2
  <2>2. Between(e)' <=> Between(e) BY <2>1 DEF Between
  <2> QED BY <2>2 DEF Ledger, SameRun, Runs, Living, Listed
<1>3. \A t : t # a => (t \in Ends(m) <=> t \in Ends(m)')
  <2> SUFFICES ASSUME NEW t \in Slots, t # a, pc[t] = "bury"
               PROVE  proc'[body'[t]].mod = proc[body[t]].mod
    BY ProcFacts DEF Ends, Ledger, Changes
  <2>1. body'[t] = body[t] /\ thread[t] = "live" /\ body[t] \in Descs /\ proc[body[t]] # Nil
        /\ proc[body[t]].state = "exited"
    BY <1>0, ProcFacts DEF Ledger, ProcKinds, ProcInv, Places, ThreadsSound
  <2> QED BY <2>1 DEF Ledger, SameRun
<1>4. \A b : b # a => (b \in Carries(m) <=> b \in Carries(m)')
  BY DEF Ledger, Changes, Carries
<1> QED BY <1>2, <1>3, <1>4 DEF SameElsewhere

LEMMA LedgerKeeps ==
  ASSUME ProcInv, LinkInv, NEW a \in Actors, NEW y, NEW j, NEW d, Ledger(a, y, j, d),
         \A m \in Mods : links'[m] = links[m] - Weight(a, d, m) + Weight(a, d, m)'
  PROVE  LinkInv'
<1>1. MakersMods' /\ \A m \in Mods : SameElsewhere(a, d, m) BY LedgerElsewhere
<1>2. lost' = lost BY DEF Ledger
<1>3. ASSUME NEW m \in Mods PROVE Linked(m)'
  <2>1. SameElsewhere(a, d, m) BY <1>1
  <2> HIDE DEF Linked, Weight, SameElsewhere
  <2> QED BY <1>2, <2>1, Balance
<1> QED BY <1>1, <1>3 DEF LinkInv

LEMMA Changing ==
  ASSUME ProcInv, NEW a \in Actors, NEW y, NEW j, pc' = [pc EXCEPT ![a] = y],
         job' = [job EXCEPT ![a] = j] \/ (job' = job /\ j = job[a])
  PROVE  Changes(a, y, j)
BY DEF ProcInv, ProcTypes, Changes

LEMMA AlikeRun ==
  ASSUME NEW r, NEW q
  PROVE  /\ Alike(r, q) /\ SameMod(r, q) => SameRun(r, q)
         /\ SameRun(r, r)
BY DEF Alike, SameMod, SameRun

\* What is unlinked was linked.
LEMMA LinksGo ==
  ASSUME NEW L \in [Mods -> Nat], NEW k \in Mods, NEW m \in Mods
  PROVE  /\ LinkedIn(L, k)[m] = L[m] + Bit(m = k)
         /\ L[m] >= Bit(m = k) => UnlinkedIn(L, k)[m] = L[m] - Bit(m = k)
<1>1. LinkedIn(L, k)[m] = L[m] + Bit(m = k) BY DEF LinkedIn, Bit
<1>2. CASE m = k BY <1>1, <1>2 DEF UnlinkedIn, Bit
<1>3. CASE m # k BY <1>1, <1>3 DEF UnlinkedIn, Bit
<1> QED BY <1>2, <1>3

\* What an actor has in hand is a process's link no more than before.
LEMMA NeutralLinks ==
  ASSUME ProcInv, LinkInv, NEW a \in Actors, NEW y, NEW j, Changes(a, y, j),
         lost' = lost, links' = links, body' = body,
         \A e \in Descs : SameRun(proc'[e], proc[e]),
         pc[a] # "bury", y # "bury", y # "create",
         pc[a] # "swap", y # "swap",
         y \in LinkPoints <=> pc[a] \in LinkPoints,
         y \in LinkPoints => j.mod = job[a].mod
  PROVE  LinkInv'
<1>1. Ledger(a, y, j, Nil)
  <2>1. \A b \in Actors : pc[b] = "create" => job[b].desc # Nil
    BY ProcFacts DEF ProcInv, Places, MakersSound
  <2> QED BY <2>1, ProcFacts DEF Ledger
<1>2. ASSUME NEW m \in Mods PROVE links'[m] = links[m] - Weight(a, Nil, m) + Weight(a, Nil, m)'
  <2>1. a \in Carries(m) <=> a \in Carries(m)' BY DEF Changes, Carries
  <2>2. a \notin Ends(m) /\ a \notin Ends(m)' BY DEF Changes, Ends
  <2>3. Nil \notin Runs(m) /\ Nil \notin Runs(m)' BY ProcFacts DEF Runs, Living, Listed
  <2>4. PICK b \in BOOLEAN : b <=> a \in Carries(m) BY Zenon
  <2>5. Weight(a, Nil, m) = Bit(b) /\ Weight(a, Nil, m)' = Bit(b)
    BY <2>1, <2>2, <2>3, <2>4 DEF Weight, Bit
  <2>6. links[m] \in Nat BY DEF ProcInv, ProcTypes
  <2>7. Bit(b) \in Nat BY DEF Bit
  <2> QED BY <2>5, <2>6, <2>7
<1> QED BY <1>1, <1>2, LedgerKeeps

LEMMA ForkGoesOnLinks ==
  ASSUME ProcInv, LinkInv, NEW a \in Actors, ForkAdmitted(a) \/ ForkRefused(a) \/ Refuse(a)
  PROVE  LinkInv'
<1>1. PICK y \in {"insert", "refuse", "undo"} : pc' = [pc EXCEPT ![a] = y]
        /\ pc[a] \in {"claim", "insert", "refuse"}
  BY DEF ForkAdmitted, ForkRefused, Refuse, Goes
<1>2. job' = job /\ links' = links /\ lost' = lost /\ body' = body
  BY DEF ForkAdmitted, ForkRefused, Refuse, kernel
<1>3. \A e \in Descs : SameRun(proc'[e], proc[e])
  <2>1. CASE proc' = proc BY <2>1, AlikeRun
  <2>2. CASE Refuse(a)
    <3>1. job[a].mod \in Mods
      BY <2>2 DEF Refuse, Goes, ProcInv, Places, ModsSound, Forking
    <3> QED BY <2>2, <3>1, UnchargedIs, ProcFacts, AlikeRun DEF Refuse, ProcInv, ProcTypes
  <2> QED BY <2>1, <2>2 DEF ForkAdmitted, ForkRefused, table
<1>4. Changes(a, y, job[a]) BY <1>1, <1>2, Changing
<1> QED BY <1>1, <1>2, <1>3, <1>4, NeutralLinks DEF LinkPoints, Forking

\* Those who ask and those who pass, and the way from the module's end.
Elsewhere == Points \ (LinkPoints \cup {"bury", "create"})

LEMMA AskingLinks ==
  ASSUME ProcInv, LinkInv, NEW a \in Actors, NEW y, NEW j, Changes(a, y, j),
         lost' = lost, links' = links, body' = body,
         \A e \in Descs : SameRun(proc'[e], proc[e]),
         pc[a] \in Elsewhere, y \in Elsewhere
  PROVE  LinkInv'
BY NeutralLinks DEF Elsewhere, LinkPoints

LEMMA SetsRun ==
  ASSUME NEW d \in Descs, proc[d] # Nil, NEW state, NEW task, NEW refs, NEW collecting,
         Sets(proc, proc', d, state, task, refs, collecting, proc[d].mod),
         state = proc[d].state
  PROVE  \A e \in Descs : SameRun(proc'[e], proc[e])
BY AlikeRun DEF Sets, SameRun

LEMMA HoldLinks ==
  ASSUME ProcInv, LinkInv, NEW a \in Actors, NEW d \in Listed,
         NEW x \in {"wait", "kill"}, Hold(a, d, x)
  PROVE  LinkInv'
<1>1. proc \in ProcTable /\ d \in Descs /\ proc[d] # Nil BY DEF ProcInv, ProcTypes, Listed
<1>2. PICK r \in ProcRecord : r = proc[d] BY <1>1 DEF ProcTable
<1>3. PICK n \in Nat : n = proc[d].refs + 1 BY <1>2 DEF ProcRecord
<1>4. PICK j : job' = [job EXCEPT ![a] = j] BY DEF Hold
<1>5. /\ pc[a] = "idle" /\ pc' = [pc EXCEPT ![a] = x]
      /\ proc' = [proc EXCEPT ![d].refs = n]
      /\ links' = links /\ lost' = lost /\ body' = body
  BY <1>3 DEF Hold, Goes, kernel
<1>6. Sets(proc, proc', d, proc[d].state, proc[d].task, n, proc[d].collecting, proc[d].mod)
  BY <1>1, <1>5, RefsSet
<1>7. \A e \in Descs : SameRun(proc'[e], proc[e]) BY <1>1, <1>6, SetsRun
<1>8. Changes(a, x, j) BY <1>4, <1>5, Changing
<1>9. pc[a] \in Elsewhere /\ x \in Elsewhere BY <1>5 DEF Elsewhere, Points, LinkPoints, Forking
<1> QED BY <1>5, <1>7, <1>8, <1>9, AskingLinks

LEMMA DropLinks ==
  ASSUME ProcInv, LinkInv, NEW a \in Actors,
         WaitAnswered(a) \/ WaitTimedOut(a) \/ KillGivesUp(a) \/ Killed(a)
  PROVE  LinkInv'
<1>1. proc \in ProcTable BY DEF ProcInv, ProcTypes
<1>2. /\ pc[a] \in {"wait", "kill", "watch"} /\ links' = links /\ lost' = lost /\ body' = body
  BY DEF WaitAnswered, WaitTimedOut, KillGivesUp, Killed, Goes, Idles, kernel
<1>3. PICK d \in Descs : d = job[a].desc /\ proc[d] # Nil
  BY <1>2, InHand DEF HoldingPoints
<1>4. PICK P : P = Dropped(d) OBVIOUS
<1>5. Sets(proc, P, d, proc[d].state, proc[d].task, Less(proc[d].refs), proc[d].collecting,
           proc[d].mod)
  BY <1>1, <1>3, <1>4, LessIs DEF Dropped
<1>6. Sets(proc, proc', d, proc[d].state, proc[d].task, Less(proc[d].refs),
           proc[d].collecting, proc[d].mod)
  <2>1. CASE proc' = P BY <1>5, <2>1
  <2>2. CASE proc' = [P EXCEPT ![d].waited = TRUE]
    <3>1. Sets(P, proc', d, P[d].state, P[d].task, P[d].refs, P[d].collecting, P[d].mod)
      <4>1. P \in ProcTable /\ P[d] # Nil BY <1>5 DEF Sets
      <4> QED BY <2>2, <4>1, WaitedSet
    <3> QED BY <1>5, <3>1 DEF Sets
  <2> QED BY <1>3, <1>4, <2>1, <2>2
      DEF WaitAnswered, WaitTimedOut, KillGivesUp, Killed
<1>7. \A e \in Descs : SameRun(proc'[e], proc[e]) BY <1>3, <1>6, SetsRun
<1>8. PICK y, j : y \in {"why", "idle"} /\ Changes(a, y, j)
  <2>1. CASE WaitAnswered(a)
    <3>1. pc' = [pc EXCEPT ![a] = "why"] /\ job' = job BY <2>1 DEF WaitAnswered, Goes
    <3>2. Changes(a, "why", job[a]) BY <3>1, Changing
    <3> QED BY <3>2
  <2>2. CASE WaitTimedOut(a) \/ KillGivesUp(a) \/ Killed(a)
    <3>1. pc' = [pc EXCEPT ![a] = "idle"] /\ job' = [job EXCEPT ![a] = NoJob]
      BY <2>2 DEF WaitTimedOut, KillGivesUp, Killed, Idles, Goes
    <3>2. Changes(a, "idle", NoJob) BY <3>1, Changing
    <3> QED BY <3>2
  <2> QED BY <2>1, <2>2
<1>9. pc[a] \in Elsewhere /\ y \in Elsewhere
  BY <1>2, <1>8 DEF Elsewhere, Points, LinkPoints, Forking
<1> QED BY <1>2, <1>7, <1>8, <1>9, AskingLinks

LEMMA PassLinks ==
  ASSUME ProcInv, LinkInv, NEW a \in Actors, NEW x \in Elsewhere, NEW y \in Elsewhere,
         pc[a] = x, pc' = [pc EXCEPT ![a] = y],
         proc' = proc, links' = links, lost' = lost, body' = body,
         job' = job \/ job' = [job EXCEPT ![a] = NoJob]
  PROVE  LinkInv'
<1>1. PICK j : Changes(a, y, j) BY Changing
<1>2. \A e \in Descs : SameRun(proc'[e], proc[e]) BY AlikeRun
<1> QED BY <1>1, <1>2, AskingLinks

LEMMA ClaimLinks ==
  ASSUME ProcInv, LinkInv, NEW a \in Actors, pc[a] \in {"wait", "funeral"},
         NEW back, Claimed(a, job[a].desc, back),
         links' = links, lost' = lost, body' = body
  PROVE  LinkInv'
<1>1. PICK d \in Descs : d = job[a].desc /\ proc[d] # Nil
  BY InHand DEF HoldingPoints
<1>2. proc \in ProcTable BY DEF ProcInv, ProcTypes
<1>3. PICK o : o = job[a] OBVIOUS
<1>4. PICK j : j = [o EXCEPT !.back = back] OBVIOUS
<1>5. /\ pc' = [pc EXCEPT ![a] = "collect"] /\ job' = [job EXCEPT ![a] = j]
      /\ proc' = [proc EXCEPT ![d].collecting = TRUE]
  BY <1>1, <1>3, <1>4 DEF Claimed
<1>6. Sets(proc, proc', d, proc[d].state, proc[d].task, proc[d].refs, TRUE, proc[d].mod)
  BY <1>1, <1>2, <1>5, CollectingSet
<1>7. \A e \in Descs : SameRun(proc'[e], proc[e]) BY <1>1, <1>6, SetsRun
<1>8. Changes(a, "collect", j) BY <1>5, Changing
<1>9. pc[a] \in Elsewhere /\ "collect" \in Elsewhere
  BY DEF Elsewhere, Points, LinkPoints, Forking
<1> QED BY <1>7, <1>8, <1>9, AskingLinks

(***************************************************************************)
(* A link is taken, or given back.                                         *)
(***************************************************************************)
\* An actor gives back what it alone had.
LEMMA GivesBack ==
  ASSUME ProcInv, LinkInv, NEW a \in Actors, NEW y, NEW j, NEW k \in Mods,
         Ledger(a, y, j, Nil), y \notin LinkPoints, y # "bury", links' = UnlinkedIn(links, k),
         \/ pc[a] \in LinkPoints /\ job[a].mod = k
         \/ a \in Slots /\ pc[a] = "bury" /\ proc[body[a]].mod = k
  PROVE  LinkInv'
<1>1. ASSUME NEW m \in Mods PROVE links'[m] = links[m] - Weight(a, Nil, m) + Weight(a, Nil, m)'
  <2>1. Nil \notin Runs(m) /\ Nil \notin Runs(m)' BY ProcFacts DEF Runs, Living, Listed
  <2>2. a \notin Ends(m)' /\ a \notin Carries(m)' BY DEF Ledger, Changes, Ends, Carries
  <2>3. Weight(a, Nil, m)' = 0 BY <2>1, <2>2 DEF Weight, Bit
  <2>4. Weight(a, Nil, m) = Bit(m = k)
    <3>1. CASE pc[a] \in LinkPoints /\ job[a].mod = k
      <4>1. a \notin Ends(m) BY <3>1 DEF Ends, LinkPoints, Forking
      <4>2. a \in Carries(m) <=> m = k BY <3>1 DEF Carries
      <4> QED BY <2>1, <4>1, <4>2 DEF Weight, Bit
    <3>2. CASE a \in Slots /\ pc[a] = "bury" /\ proc[body[a]].mod = k
      <4>1. a \notin Carries(m) BY <3>2 DEF Carries, LinkPoints, Forking
      <4>2. a \in Ends(m) <=> m = k BY <3>2 DEF Ends
      <4> QED BY <2>1, <4>1, <4>2 DEF Weight, Bit
    <3> QED BY <3>1, <3>2
  <2>5. SameElsewhere(a, Nil, m) /\ lost' = lost BY LedgerElsewhere DEF Ledger
  <2>6. links[m] \in Nat /\ links[m] >= Weight(a, Nil, m)
    <3> HIDE DEF Weight, SameElsewhere
    <3> QED BY <2>5, Balance
  <2>7. links'[m] = links[m] - Bit(m = k)
    <3>1. links \in [Mods -> Nat] BY DEF ProcInv, ProcTypes
    <3>2. links[m] >= Bit(m = k) BY <2>4, <2>6
    <3>3. UnlinkedIn(links, k)[m] = links[m] - Bit(m = k) BY <3>1, <3>2, LinksGo
    <3> QED BY <3>3
  <2> QED BY <2>3, <2>4, <2>6, <2>7 DEF Bit
<1> QED BY <1>1, LedgerKeeps

\* What is at its end, or in the making, is none of the actor's.
LEMMA LedgerAlone ==
  ASSUME ProcInv, NEW a \in Actors, NEW y, NEW j, Changes(a, y, j), lost' = lost, y # "create",
         pc[a] # "swap", y # "swap", \A e \in Descs : SameRun(proc'[e], proc[e]),
         \A t \in Slots \ {a} : pc[t] \in {"bury", "swap"} => body'[t] = body[t]
  PROVE  Ledger(a, y, j, Nil)
<1>1. \A b \in Actors : pc[b] = "create" => job[b].desc # Nil
  BY ProcFacts DEF ProcInv, Places, MakersSound
<1> QED BY <1>1, ProcFacts DEF Ledger

LEMMA UndoLinks ==
  ASSUME ProcInv, LinkInv, NEW a \in Actors, Undo(a)
  PROVE  LinkInv'
<1>1. /\ pc[a] = "undo" /\ pc' = [pc EXCEPT ![a] = "idle"] /\ job' = [job EXCEPT ![a] = NoJob]
      /\ proc' = proc /\ lost' = lost /\ body' = body
  BY DEF Undo, Idles, Goes, table, kernel
<1>2. PICK k \in Mods : k = job[a].mod BY <1>1 DEF ProcInv, Places, ModsSound
<1>3. Changes(a, "idle", NoJob) BY <1>1, Changing
<1>4. Ledger(a, "idle", NoJob, Nil) BY <1>1, <1>3, AlikeRun, LedgerAlone
<1>5. links' = UnlinkedIn(links, k) BY <1>2 DEF Undo
<1> QED BY <1>1, <1>2, <1>4, <1>5, GivesBack DEF LinkPoints, Forking

LEMMA ChainRefusedLinks ==
  ASSUME ProcInv, LinkInv, NEW t \in Slots, ChainRefused(t, FALSE)
  PROVE  LinkInv'
<1>1. /\ pc[t] = "chain" /\ pc' = [pc EXCEPT ![t] = "exit"] /\ job' = [job EXCEPT ![t] = NoJob]
      /\ proc' = proc /\ lost' = lost /\ body' = body /\ t \in Actors
  BY ProcFacts DEF ChainRefused, Goes, table, kernel
<1>2. PICK k \in Mods : k = job[t].mod BY <1>1 DEF ProcInv, Places, ModsSound
<1>3. Changes(t, "exit", NoJob) BY <1>1, Changing
<1>4. Ledger(t, "exit", NoJob, Nil) BY <1>1, <1>3, AlikeRun, LedgerAlone
<1>5. links' = UnlinkedIn(links, k) BY <1>2 DEF ChainRefused
<1> QED BY <1>1, <1>2, <1>4, <1>5, GivesBack DEF LinkPoints, Forking

LEMMA BuryLinks ==
  ASSUME ProcInv, LinkInv, NEW t \in Slots, Bury(t)
  PROVE  LinkInv'
<1>1. ProcTypes /\ t \in Actors BY ProcFacts DEF ProcInv
<1>2. PICK d \in Descs : d = body[t] /\ proc[d] # Nil
  BY <1>1, ProcFacts, KindsHold
  DEF Bury, Goes, ProcKinds, ProcInv, Places, ThreadsSound
<1>3. /\ pc[t] = "bury" /\ pc' = [pc EXCEPT ![t] = "none"] /\ job' = job /\ lost' = lost
      /\ proc' = [proc EXCEPT ![d].refs = IF @ > 0 THEN @ - 1 ELSE 0]
      /\ \A u \in Slots \ {t} : body'[u] = body[u]
      /\ links' = UnlinkedIn(links, proc[d].mod)
  BY <1>1, <1>2 DEF Bury, Goes, ProcTypes
<1>4. Sets(proc, proc', d, proc[d].state, proc[d].task, Less(proc[d].refs),
           proc[d].collecting, proc[d].mod)
  BY <1>1, <1>2, <1>3, LessIs DEF ProcTypes
<1>5. \A e \in Descs : SameRun(proc'[e], proc[e]) BY <1>2, <1>4, SetsRun
<1>6. Changes(t, "none", job[t]) BY <1>1, <1>3, Changing
<1>7. Ledger(t, "none", job[t], Nil) BY <1>1, <1>3, <1>5, <1>6, LedgerAlone
<1>8. PICK k \in Mods : k = proc[d].mod BY <1>2, KindsHold DEF ProcKinds
<1> QED BY <1>1, <1>2, <1>3, <1>7, <1>8, GivesBack DEF LinkPoints, Forking

LEMMA ReapLinks ==
  ASSUME ProcInv, LinkInv, NEW a \in Actors, Reap(a)
  PROVE  LinkInv'
<1>1. ProcTypes BY DEF ProcInv
<1>2. PICK d \in Descs : d = job[a].desc /\ proc[d] # Nil
  BY InHand DEF Reap, Goes, HoldingPoints
<1>3. PICK y : y = job[a].back OBVIOUS
<1>4. /\ pc[a] = "reap" /\ pc' = [pc EXCEPT ![a] = y] /\ lost' = lost
      /\ \A t \in Slots : thread[t] # "dead" => body'[t] = body[t]
      /\ proc' = [proc EXCEPT ![d].refs = IF @ > 0 THEN @ - 1 ELSE 0]
      /\ links' = UnlinkedIn(links, job[a].mod)
  BY <1>2, <1>3 DEF Reap, Goes
<1>5. y \in {"wait", "watch"}
  BY <1>3, <1>4 DEF ProcInv, Places, BuriersApart, Undertaking
<1>6. PICK o : o = job[a] OBVIOUS
<1>7. PICK j : j = [o EXCEPT !.mod = Nil] OBVIOUS
<1>8. job' = [job EXCEPT ![a] = j] BY <1>6, <1>7 DEF Reap
<1>9. Sets(proc, proc', d, proc[d].state, proc[d].task, Less(proc[d].refs),
           proc[d].collecting, proc[d].mod)
  BY <1>1, <1>2, <1>4, LessIs DEF ProcTypes
<1>10. \A e \in Descs : SameRun(proc'[e], proc[e]) BY <1>2, <1>9, SetsRun
<1>11. \A t \in Slots : pc[t] \in {"bury", "swap"} => body'[t] = body[t]
  BY <1>4 DEF ProcInv, Places, ThreadsSound
<1>12. Changes(a, y, j) BY <1>4, <1>8, Changing
<1>13. Ledger(a, y, j, Nil) BY <1>4, <1>5, <1>10, <1>11, <1>12, LedgerAlone
<1>14. PICK k \in Mods : k = job[a].mod BY <1>4 DEF ProcInv, Places, ModsSound
<1> QED BY <1>4, <1>5, <1>13, <1>14, GivesBack DEF LinkPoints, Forking

\* An actor takes a link, and has it in hand.
LEMMA ChainLinkedLinks ==
  ASSUME ProcInv, LinkInv, NEW t \in Slots, NEW k \in Mods, ChainLinked(t, k)
  PROVE  LinkInv'
<1>1. t \in Actors BY ProcFacts
<1>2. PICK o : o = job[t] OBVIOUS
<1>3. PICK j : j = [o EXCEPT !.mod = k] OBVIOUS
<1>4. j.mod = k BY <1>1, <1>2, <1>3, SameHand, ModInHand
<1>5. /\ pc[t] = "idle" /\ pc' = [pc EXCEPT ![t] = "chain"] /\ job' = [job EXCEPT ![t] = j]
      /\ proc' = proc /\ lost' = lost /\ body' = body /\ links' = LinkedIn(links, k)
  BY <1>2, <1>3 DEF ChainLinked, Goes, table, kernel
<1>6. Changes(t, "chain", j) BY <1>1, <1>5, Changing
<1>7. Ledger(t, "chain", j, Nil) BY <1>1, <1>5, <1>6, AlikeRun, LedgerAlone
<1>8. ASSUME NEW m \in Mods PROVE links'[m] = links[m] - Weight(t, Nil, m) + Weight(t, Nil, m)'
  <2>1. Nil \notin Runs(m) /\ Nil \notin Runs(m)' BY ProcFacts DEF Runs, Living, Listed
  <2>2. t \notin Ends(m) /\ t \notin Carries(m)
    BY <1>5 DEF Ends, Carries, LinkPoints, Forking
  <2>3. t \notin Ends(m)' BY <1>6 DEF Changes, Ends
  <2>4. t \in Carries(m)' <=> m = k
    BY <1>1, <1>4, <1>6 DEF Changes, Carries, LinkPoints, Forking
  <2>5. Weight(t, Nil, m) = 0 /\ Weight(t, Nil, m)' = Bit(m = k)
    BY <2>1, <2>2, <2>3, <2>4 DEF Weight, Bit
  <2>6. links \in [Mods -> Nat] BY DEF ProcInv, ProcTypes
  <2>7. links'[m] = links[m] + Bit(m = k) BY <1>5, <2>6, LinksGo
  <2> QED BY <2>5, <2>6, <2>7 DEF Bit
<1> QED BY <1>1, <1>7, <1>8, LedgerKeeps

\* A process, on its thread, is nobody else's to make.
LEMMA OwnRun ==
  ASSUME ProcInv, NEW d \in Descs, proc[d] # Nil, Born(d)
  PROVE  \A b \in Actors : pc[b] = "create" => job[b].desc # d
BY DEF ProcInv, Places, MakersSound

\* A process whose thread is elsewhere is not between two modules.
LEMMA OneThread ==
  ASSUME ProcInv, NEW d \in Descs, proc[d] # Nil,
         \/ \E t \in Slots : body[t] = d /\ pc[t] # "swap"
         \/ \A t \in Slots : body[t] # d
  PROVE  ~Between(d)
BY ProcFacts DEF Between, ProcInv, Places, ThreadsSound

LEMMA ThreadsRun ==
  ASSUME ProcInv, NEW t \in Slots, thread[t] = "live", pc[t] # "bury"
  PROVE  /\ body[t] \in Descs /\ proc[body[t]] # Nil /\ proc[body[t]].state = "active"
         /\ Born(body[t])
         /\ \A u \in Slots : body[u] = body[t] => u = t
<1>1. body[t] \in Descs /\ proc[body[t]] # Nil /\ proc[body[t]].state = "active"
  BY ProcFacts, KindsHold DEF ProcKinds, ProcInv, Places, ThreadsSound
<1>2. Born(body[t]) BY <1>1 DEF Born, ProcInv, Places, TasksSound
<1>3. \A u \in Slots : body[u] = body[t] => u = t
  BY <1>1, ProcFacts DEF ProcInv, Places, ThreadsSound
<1> QED BY <1>1, <1>2, <1>3

LEMMA ChainSwappedLinks ==
  ASSUME ProcInv, LinkInv, NEW t \in Slots, ChainSwapped(t)
  PROVE  LinkInv'
<1>1. ProcTypes /\ t \in Actors BY ProcFacts DEF ProcInv
<1>2. /\ pc[t] = "chain" /\ pc' = [pc EXCEPT ![t] = "swap"] /\ job' = job
      /\ lost' = lost /\ body' = body /\ proc' = proc
  BY DEF ChainSwapped, Goes, kernel, table
<1>3. thread[t] = "live" BY <1>2 DEF ProcInv, Places, ThreadsSound
<1>4. PICK d \in Descs : d = body[t] /\ proc[d] # Nil /\ proc[d].state = "active" /\ Born(d)
  BY <1>2, <1>3, ThreadsRun
<1>5. PICK k \in Mods : k = job[t].mod BY <1>1, <1>2 DEF ProcInv, Places, ModsSound
<1>6. PICK o \in Mods : o = proc[d].mod BY <1>4, KindsHold DEF ProcKinds
<1>7. links' = UnlinkedIn(links, o) BY <1>4, <1>6 DEF ChainSwapped
<1>8. \A e \in Descs : SameRun(proc'[e], proc[e]) BY <1>2, AlikeRun
<1>9. Changes(t, "swap", job[t]) BY <1>1, <1>2, Changing
<1>10. Ledger(t, "swap", job[t], d) BY <1>2, <1>4, <1>8, <1>9, OwnRun DEF Ledger
<1>11. ~Between(d) BY <1>2, <1>4, OneThread
<1>12. Between(d)' BY <1>2, <1>4, <1>9 DEF Between, Changes
<1>13. ASSUME NEW m \in Mods PROVE links'[m] = links[m] - Weight(t, d, m) + Weight(t, d, m)'
  <2>1. (d \in Runs(m) <=> m = o) /\ d \notin Runs(m)'
    BY <1>4, <1>6, <1>11, <1>12 DEF Runs, Living, Listed
  <2>2. t \notin Ends(m) /\ t \notin Ends(m)' BY <1>2, <1>9 DEF Ends, Changes
  <2>3. t \in Carries(m) <=> m = k
    BY <1>1, <1>2, <1>5 DEF Carries, LinkPoints, Forking
  <2>4. t \in Carries(m)' <=> m = k
    BY <1>1, <1>5, <1>9 DEF Changes, Carries, LinkPoints, Forking
  <2>5. Weight(t, d, m) = Bit(m = o) + Bit(m = k) /\ Weight(t, d, m)' = Bit(m = k)
    BY <2>1, <2>2, <2>3, <2>4 DEF Weight, Bit
  <2>6. SameElsewhere(t, d, m) BY <1>1, <1>10, LedgerElsewhere
  <2>7. links[m] \in Nat /\ links[m] >= Weight(t, d, m)
    <3> HIDE DEF Weight, SameElsewhere
    <3> QED BY <1>2, <2>6, Balance
  <2>8. Bit(m = o) \in Nat /\ Bit(m = k) \in Nat BY DEF Bit
  <2>9. links[m] >= Bit(m = o) BY <2>5, <2>7, <2>8
  <2>10. links'[m] = links[m] - Bit(m = o)
    <3>1. links \in [Mods -> Nat] BY <1>1 DEF ProcTypes
    <3>2. UnlinkedIn(links, o)[m] = links[m] - Bit(m = o) BY <2>9, <3>1, LinksGo
    <3> QED BY <1>7, <3>2
  <2> QED BY <2>5, <2>7, <2>8, <2>10
<1> QED BY <1>1, <1>10, <1>13, LedgerKeeps

\* What was a process's is its thread's, or its undertaker's; or the other way about.
LEMMA Handing ==
  ASSUME ProcInv, LinkInv, NEW a \in Actors, NEW y, NEW j, NEW d, Ledger(a, y, j, d),
         links' = links, \A m \in Mods : Weight(a, d, m)' = Weight(a, d, m)
  PROVE  LinkInv'
<1>1. ASSUME NEW m \in Mods PROVE links'[m] = links[m] - Weight(a, d, m) + Weight(a, d, m)'
  <2>1. links[m] \in Nat BY DEF ProcInv, ProcTypes
  <2>2. Weight(a, d, m) \in Nat BY DEF Weight, Bit
  <2>3. Weight(a, d, m)' = Weight(a, d, m) OBVIOUS
  <2> QED BY <2>1, <2>2, <2>3
<1> QED BY <1>1, LedgerKeeps

\* What a thread had in hand is its process's.
LEMMA ChainedLinks ==
  ASSUME ProcInv, LinkInv, NEW t \in Slots, Chained(t)
  PROVE  LinkInv'
<1>1. ProcTypes /\ t \in Actors BY ProcFacts DEF ProcInv
<1>2. /\ pc[t] = "swap" /\ pc' = [pc EXCEPT ![t] = "idle"] /\ job' = [job EXCEPT ![t] = NoJob]
      /\ lost' = lost /\ body' = body /\ links' = links
  BY DEF Chained, Idles, Goes, kernel
<1>3. thread[t] = "live" BY <1>2 DEF ProcInv, Places, ThreadsSound
<1>4. PICK d \in Descs : /\ d = body[t] /\ proc[d] # Nil /\ proc[d].state = "active" /\ Born(d)
                         /\ \A u \in Slots : body[u] = body[t] => u = t
  BY <1>2, <1>3, ThreadsRun
<1>5. PICK k \in Mods : k = job[t].mod BY <1>1, <1>2 DEF ProcInv, Places, ModsSound
<1>6. proc' = [proc EXCEPT ![d].mod = k] BY <1>4, <1>5 DEF Chained
<1>7. Sets(proc, proc', d, proc[d].state, proc[d].task, proc[d].refs, proc[d].collecting, k)
  BY <1>1, <1>4, <1>6, ModSet DEF ProcTypes
<1>8. proc'[d] # Nil /\ proc'[d].state = "active" /\ proc'[d].mod = k
      /\ \A e \in Descs \ {d} : SameRun(proc'[e], proc[e])
  BY <1>4, <1>7, AlikeRun DEF Sets
<1>9. Changes(t, "idle", NoJob) BY <1>1, <1>2, Changing
<1>10. Ledger(t, "idle", NoJob, d) BY <1>2, <1>4, <1>8, <1>9, OwnRun DEF Ledger
<1>11. Between(d) BY <1>2, <1>4 DEF Between
<1>12. ~Between(d)' BY <1>2, <1>4, <1>9 DEF Between, Changes
<1>13. ASSUME NEW m \in Mods PROVE Weight(t, d, m)' = Weight(t, d, m)
  <2>1. d \notin Runs(m) /\ (d \in Runs(m)' <=> m = k)
    BY <1>4, <1>8, <1>11, <1>12 DEF Runs, Living, Listed
  <2>2. t \notin Ends(m) /\ t \notin Ends(m)' BY <1>2, <1>9 DEF Ends, Changes
  <2>3. t \in Carries(m) <=> m = k
    BY <1>1, <1>2, <1>5 DEF Carries, LinkPoints, Forking
  <2>4. t \notin Carries(m)' BY <1>9 DEF Changes, Carries, LinkPoints, Forking
  <2> QED BY <2>1, <2>2, <2>3, <2>4 DEF Weight, Bit
<1> QED BY <1>1, <1>2, <1>10, <1>13, Handing

LEMMA FinishLinks ==
  ASSUME ProcInv, LinkInv, NEW t \in Slots, Finish(t)
  PROVE  LinkInv'
<1>1. ProcTypes /\ t \in Actors BY ProcFacts DEF ProcInv
<1>2. /\ pc[t] = "exit" /\ pc' = [pc EXCEPT ![t] = "bury"] /\ job' = job
      /\ lost' = lost /\ body' = body /\ links' = links
  BY DEF Finish, Goes, kernel
<1>3. thread[t] = "live" BY <1>2 DEF ProcInv, Places, ThreadsSound
<1>4. PICK d \in Descs : d = body[t] /\ proc[d] # Nil /\ proc[d].state = "active" /\ Born(d)
  BY <1>2, <1>3, ThreadsRun
<1>5. proc' = Ended(proc, d) BY <1>4 DEF Finish
<1>6. /\ proc'[d] # Nil /\ proc'[d].state = "exited" /\ proc'[d].mod = proc[d].mod
      /\ \A e \in Descs \ {d} : SameRun(proc'[e], proc[e])
  BY <1>1, <1>4, <1>5, EndedIs, AlikeRun DEF ProcTypes
<1>7. Changes(t, "bury", job[t]) BY <1>1, <1>2, Changing
<1>8. Ledger(t, "bury", job[t], d) BY <1>2, <1>4, <1>6, <1>7, OwnRun DEF Ledger
<1>9. ASSUME NEW m \in Mods PROVE Weight(t, d, m)' = Weight(t, d, m)
  <2>1. (d \in Runs(m) <=> m = proc[d].mod) /\ d \notin Runs(m)'
    <3>1. ~Between(d) BY <1>2, <1>4, OneThread
    <3> QED BY <1>4, <1>6, <3>1 DEF Runs, Living, Listed
  <2>2. t \notin Ends(m) /\ (t \in Ends(m)' <=> m = proc[d].mod)
    BY <1>2, <1>4, <1>6, <1>7 DEF Ends, Changes
  <2>3. t \notin Carries(m) /\ t \notin Carries(m)'
    BY <1>2, <1>7 DEF Carries, Changes, LinkPoints, Forking
  <2> QED BY <2>1, <2>2, <2>3 DEF Weight, Bit
<1> QED BY <1>1, <1>2, <1>8, <1>9, Handing

LEMMA ForkInsertedLinks ==
  ASSUME ProcInv, LinkInv, NEW a \in Actors, NEW d \in Descs, ForkInserted(a, d)
  PROVE  LinkInv'
<1>1. ProcTypes BY DEF ProcInv
<1>2. PICK b \in JobRecord : b = job[a] BY <1>1 DEF ProcTypes
<1>3. PICK r : r = [pid |-> b.pid, serial |-> b.serial, parent |-> Parent(a), task |-> Nil,
                    mod |-> b.mod, state |-> "active", anc |-> b.anc, foot |-> Foot[b.mod],
                    held |-> Foot[b.mod], budget |-> Budget[b.mod], refs |-> 1,
                    collecting |-> FALSE, waited |-> FALSE]
  OBVIOUS
<1>4. /\ proc[d] = Nil /\ pc[a] = "insert" /\ proc' = [proc EXCEPT ![d] = r]
      /\ lost' = lost /\ links' = links /\ body' = body
  BY <1>2, <1>3 DEF ForkInserted, Goes, kernel
<1>5. PICK j : j = [b EXCEPT !.desc = d] OBVIOUS
<1>6. j.mod = b.mod /\ j.desc = d BY <1>5, DescInHand
<1>7. pc' = [pc EXCEPT ![a] = "create"] /\ job' = [job EXCEPT ![a] = j]
  BY <1>1, <1>2, <1>5 DEF ForkInserted, Goes, ProcTypes
<1>8. Changes(a, "create", j) BY <1>7, Changing
<1>9. r # Nil /\ r.state = "active" /\ r.mod = b.mod
  <2>1. r.state = "active" /\ r.mod = b.mod BY <1>3
  <2>2. proc' \in ProcTable BY ForkInsertedFits DEF Fits, ProcTypes
  <2>3. b.mod \in Mods /\ b.pid \in 1..MaxPid /\ b.serial \in 1..MaxSerial
    BY <1>2, <1>4 DEF ProcInv, Places, ModsSound, ForksSound, Forking
  <2>4. b.anc \in Charges BY DEF JobRecord
  <2>5. r \in ProcRecord BY <1>3, <2>3, <2>4, ParentIs, ProcFacts DEF ProcRecord
  <2> QED BY <2>1, <2>5, ProcFacts
<1>10. proc'[d] = r /\ \A e \in Descs \ {d} : SameRun(proc'[e], proc[e])
  BY <1>1, <1>4, AlikeRun DEF ProcTypes, ProcTable
<1>11. Ledger(a, "create", j, d)
  <2>1. \A c \in Actors : pc[c] = "create" => job[c].desc # d
    BY <1>4 DEF ProcInv, Places, MakersSound
  <2> QED BY <1>4, <1>6, <1>8, <1>9, <1>10, <2>1 DEF Ledger
<1>12. ASSUME NEW m \in Mods PROVE Weight(a, d, m)' = Weight(a, d, m)
  <2>1. d \notin Runs(m) /\ (d \in Runs(m)' <=> m = b.mod)
    <3>1. \A t \in Slots : body[t] # d
      BY <1>4, ProcFacts DEF ProcInv, Places, ThreadsSound
    <3>2. ~Between(d)' BY <1>4, <3>1 DEF Between
    <3> QED BY <1>4, <1>9, <1>10, <3>2 DEF Runs, Living, Listed
  <2>2. a \notin Ends(m) /\ a \notin Ends(m)' BY <1>4, <1>8 DEF Ends, Changes
  <2>3. (a \in Carries(m) <=> m = b.mod) /\ a \notin Carries(m)'
    BY <1>2, <1>4, <1>8 DEF Carries, Changes, LinkPoints, Forking
  <2> QED BY <2>1, <2>2, <2>3 DEF Weight, Bit
<1> QED BY <1>4, <1>11, <1>12, Handing

LEMMA ForkNotStartedLinks ==
  ASSUME ProcInv, LinkInv, NEW a \in Actors, ForkNotStarted(a)
  PROVE  LinkInv'
<1>1. ProcTypes BY DEF ProcInv
<1>2. PICK d \in Descs : d = job[a].desc /\ proc[d] # Nil /\ proc[d].state = "active"
  BY KindsHold DEF ForkNotStarted, Goes, ProcInv, Places, MakersSound, ProcKinds, Born
<1>3. /\ pc[a] = "create" /\ pc' = [pc EXCEPT ![a] = "undo"] /\ job' = job
      /\ lost' = lost /\ body' = body /\ links' = links
  BY DEF ForkNotStarted, Goes, kernel
<1>4. proc[d].mod = job[a].mod BY <1>2, <1>3 DEF LinkInv, MakersMods
<1>5. PICK Q : Q = Ended(proc, d) OBVIOUS
<1>6. /\ Q \in ProcTable /\ Q[d] # Nil /\ Q[d].state = "exited"
      /\ \A e \in Descs \ {d} : Alike(Q[e], proc[e]) /\ SameMod(Q[e], proc[e])
  BY <1>1, <1>2, <1>5, EndedIs DEF ProcTypes
<1>7. Sets(Q, proc', d, "exited", Q[d].task, 0, Q[d].collecting, Q[d].mod)
  <2>1. proc' = [Q EXCEPT ![d].refs = 0] BY <1>2, <1>5 DEF ForkNotStarted
  <2> QED BY <1>6, <2>1, RefsSet
<1>8. proc'[d].state = "exited" /\ \A e \in Descs \ {d} : SameRun(proc'[e], proc[e])
  BY <1>6, <1>7, AlikeRun DEF Sets
<1>9. Changes(a, "undo", job[a]) BY <1>3, Changing
<1>10. \A b \in Actors \ {a} : pc[b] = "create" => job[b].desc # d
  BY <1>2, <1>3 DEF ProcInv, Places, MakersSound
<1>11. Ledger(a, "undo", job[a], d) BY <1>2, <1>3, <1>8, <1>9, <1>10 DEF Ledger
<1>12. ASSUME NEW m \in Mods PROVE Weight(a, d, m)' = Weight(a, d, m)
  <2>1. (d \in Runs(m) <=> m = job[a].mod) /\ d \notin Runs(m)'
    <3>1. \A t \in Slots : body[t] # d
      BY <1>2, <1>3 DEF ProcInv, Places, MakersSound, TasksSound, Born
    <3>2. ~Between(d) BY <3>1 DEF Between
    <3> QED BY <1>2, <1>4, <1>8, <3>2 DEF Runs, Living, Listed
  <2>2. a \notin Ends(m) /\ a \notin Ends(m)' BY <1>3, <1>9 DEF Ends, Changes
  <2>3. a \notin Carries(m) /\ (a \in Carries(m)' <=> m = job[a].mod)
    BY <1>3, <1>9 DEF Carries, Changes, LinkPoints, Forking
  <2> QED BY <2>1, <2>2, <2>3 DEF Weight, Bit
<1> QED BY <1>3, <1>11, <1>12, Handing

LEMMA CollectLinks ==
  ASSUME ProcInv, LinkInv, NEW a \in Actors, Collect(a)
  PROVE  LinkInv'
<1>1. ProcTypes BY DEF ProcInv
<1>2. pc[a] = "collect" /\ pc' = [pc EXCEPT ![a] = "reap"] /\ lost' = lost /\ body' = body
      /\ links' = links
  BY DEF Collect, Goes, kernel
<1>3. PICK d \in Descs : d = job[a].desc /\ proc[d] # Nil /\ proc[d].state = "active" /\ Born(d)
  <2>1. proc[job[a].desc].collecting BY <1>2 DEF ProcInv, Places, HoldsSound
  <2> QED BY <1>2, <2>1, InHand DEF HoldingPoints, ProcInv, Places, TasksSound
<1>4. PICK Q : Q = Ended(proc, d) OBVIOUS
<1>5. /\ Q \in ProcTable /\ Q[d] # Nil /\ Q[d].state = "exited"
      /\ \A e \in Descs \ {d} : Alike(Q[e], proc[e]) /\ SameMod(Q[e], proc[e])
  BY <1>1, <1>3, <1>4, EndedIs DEF ProcTypes
<1>6. PICK R : R = [Q EXCEPT ![d].task = Nil] OBVIOUS
<1>7. Sets(Q, R, d, "exited", Nil, Q[d].refs, Q[d].collecting, Q[d].mod)
  BY <1>5, <1>6, TaskSet
<1>8. Sets(R, proc', d, "exited", R[d].task, R[d].refs, FALSE, R[d].mod)
  <2>1. proc' = [R EXCEPT ![d].collecting = FALSE] BY <1>3, <1>4, <1>6 DEF Collect
  <2>2. R \in ProcTable /\ R[d] # Nil /\ R[d].state = "exited" BY <1>7 DEF Sets
  <2> QED BY <2>1, <2>2, CollectingSet
<1>9. proc'[d].state = "exited" /\ \A e \in Descs \ {d} : SameRun(proc'[e], proc[e])
  BY <1>5, <1>7, <1>8, AlikeRun DEF Sets
<1>10. PICK o \in JobRecord : o = job[a] BY <1>1 DEF ProcTypes
<1>11. PICK k \in Mods : k = proc[d].mod BY <1>3, KindsHold DEF ProcKinds
<1>12. PICK j : j = [o EXCEPT !.mod = k] OBVIOUS
<1>13. j.mod = k BY <1>12, ModInHand
<1>14. job' = [job EXCEPT ![a] = j] BY <1>3, <1>10, <1>11, <1>12 DEF Collect
<1>15. Changes(a, "reap", j) BY <1>2, <1>14, Changing
<1>16. Ledger(a, "reap", j, d) BY <1>2, <1>3, <1>9, <1>15, OwnRun DEF Ledger
<1>17. ASSUME NEW m \in Mods PROVE Weight(a, d, m)' = Weight(a, d, m)
  <2>1. (d \in Runs(m) <=> m = k) /\ d \notin Runs(m)'
    <3>1. proc[d].collecting BY <1>2, <1>3 DEF ProcInv, Places, HoldsSound
    <3>2. PICK t \in Slots : t = proc[d].task /\ thread[t] = "dead" /\ body[t] = d
      BY <1>3, <3>1, KindsHold DEF ProcKinds, ProcInv, Places, TasksSound
    <3>3. pc[t] = "none" BY <3>2 DEF ProcInv, Places, ThreadsSound
    <3>4. ~Between(d) BY <1>3, <3>2, <3>3, OneThread
    <3> QED BY <1>3, <1>9, <1>11, <3>4 DEF Runs, Living, Listed
  <2>2. a \notin Ends(m) /\ a \notin Ends(m)' BY <1>2, <1>15 DEF Ends, Changes
  <2>3. a \notin Carries(m) /\ (a \in Carries(m)' <=> m = k)
    BY <1>2, <1>13, <1>15 DEF Carries, Changes, LinkPoints, Forking
  <2> QED BY <2>1, <2>2, <2>3 DEF Weight, Bit
<1> QED BY <1>2, <1>16, <1>17, Handing

(***************************************************************************)
(* A fork's link, a new thread, and a death.                               *)
(***************************************************************************)
\* What is forgotten ran nothing.
LEMMA PrunedRuns ==
  ASSUME ProcInv, LinkInv, NEW a \in Actors, NEW y, NEW j, Changes(a, y, j),
         pc[a] = "idle", y \in {"idle", "claim"}, lost' = lost, body' = body,
         \A d \in Descs \ Victims : SameRun(proc'[d], proc[d]),
         \A d \in Victims : proc'[d] = Nil
  PROVE  MakersMods' /\ \A m \in Mods : SameElsewhere(a, Nil, m)
<1>0. \A d \in Victims : d \in Descs /\ proc[d] # Nil /\ proc[d].state = "exited"
                         /\ proc[d].refs = 0
  BY PrunedIs
<1>1. MakersMods'
  <2> SUFFICES ASSUME NEW b \in Actors, pc'[b] = "create"
               PROVE  proc'[job'[b].desc].mod = job'[b].mod
    BY DEF MakersMods
  <2>1. b # a /\ pc[b] = "create" /\ job'[b] = job[b] BY DEF Changes
  <2>2. job[b].desc \in Descs /\ proc[job[b].desc] # Nil /\ proc[job[b].desc].state # "exited"
    BY <2>1 DEF ProcInv, Places, MakersSound, Born
  <2>3. job[b].desc \notin Victims BY <1>0, <2>2
  <2> QED BY <2>1, <2>2, <2>3 DEF SameRun, LinkInv, MakersMods
<1> SUFFICES ASSUME NEW m \in Mods PROVE SameElsewhere(a, Nil, m) BY <1>1
<1>2. \A e : e \in Runs(m) <=> e \in Runs(m)'
  <2>1. \A e : Between(e)' <=> Between(e) BY ProcFacts DEF Between, Changes
  <2> QED BY <1>0, <2>1 DEF SameRun, Runs, Living, Listed
<1>3. \A t : t # a => (t \in Ends(m) <=> t \in Ends(m)')
  <2> SUFFICES ASSUME NEW t \in Slots, pc[t] = "bury"
               PROVE  proc'[body[t]].mod = proc[body[t]].mod
    BY ProcFacts DEF Ends, Changes
  <2>1. thread[t] = "live" /\ body[t] \in Descs /\ proc[body[t]] # Nil
    BY KindsHold, ProcFacts DEF ProcKinds, ProcInv, Places, ThreadsSound
  <2>2. body[t] \notin Victims BY <1>0, Unheld
  <2> QED BY <2>1, <2>2 DEF SameRun
<1>4. \A b : b # a => (b \in Carries(m) <=> b \in Carries(m)')
  BY DEF Changes, Carries
<1> QED BY <1>2, <1>3, <1>4 DEF SameElsewhere

LEMMA ForkChargedLinks ==
  ASSUME ProcInv, LinkInv, NEW a \in Actors, NEW k \in Mods,
         ForkCharged(a, k) \/ ForkOverBudget(a, k)
  PROVE  LinkInv'
<1>1. PICK P : P = Pruned(Victims) OBVIOUS
<1>2. /\ P \in ProcTable /\ Victims \subseteq Descs
      /\ \A d \in Victims : P[d] = Nil
      /\ \A d \in Descs \ Victims : P[d] = proc[d]
  BY <1>1, PrunedIs
<1>3. CASE ForkCharged(a, k)
  <2>1. PICK anc : anc = Ancestors(a) OBVIOUS
  <2>2. PICK pid \in 1..MaxPid : pid = NextPid(Victims) BY <1>3, NextPidIs DEF ForkCharged
  <2>3. PICK j : j = [NoJob EXCEPT !.pid = pid, !.serial = next_serial, !.anc = anc, !.mod = k]
    OBVIOUS
  <2>4. j.mod = k BY <2>3 DEF NoJob
  <2>5. /\ pc[a] = "idle" /\ pc' = [pc EXCEPT ![a] = "claim"] /\ job' = [job EXCEPT ![a] = j]
        /\ lost' = lost /\ body' = body /\ links' = LinkedIn(links, k)
        /\ proc' = Charged(P, anc, Foot[k])
    BY <1>1, <1>3, <2>1, <2>2, <2>3 DEF ForkCharged, Goes, kernel
  <2>6. Changes(a, "claim", j) BY <2>5, Changing
  <2>7. \A d \in Descs : SameRun(proc'[d], P[d])
    BY <1>2, <2>5, ChargedIs, ProcFacts, AlikeRun
  <2>8. /\ \A d \in Descs \ Victims : SameRun(proc'[d], proc[d])
        /\ \A d \in Victims : proc'[d] = Nil
    BY <1>2, <2>7 DEF SameRun
  <2>9. MakersMods' /\ \A m \in Mods : SameElsewhere(a, Nil, m)
    BY <2>5, <2>6, <2>8, PrunedRuns
  <2>10. ASSUME NEW m \in Mods PROVE Linked(m)'
    <3>1. Nil \notin Runs(m) /\ Nil \notin Runs(m)' BY ProcFacts DEF Runs, Living, Listed
    <3>2. a \notin Ends(m) /\ a \notin Ends(m)' BY <2>5, <2>6 DEF Ends, Changes
    <3>3. a \notin Carries(m) /\ (a \in Carries(m)' <=> m = k)
      BY <2>4, <2>5, <2>6 DEF Carries, Changes, LinkPoints, Forking
    <3>4. Weight(a, Nil, m) = 0 /\ Weight(a, Nil, m)' = Bit(m = k)
      BY <3>1, <3>2, <3>3 DEF Weight, Bit
    <3>5. links \in [Mods -> Nat] BY DEF ProcInv, ProcTypes
    <3>6. links'[m] = links[m] + Bit(m = k) BY <2>5, <3>5, LinksGo
    <3>7. links'[m] = links[m] - Weight(a, Nil, m) + Weight(a, Nil, m)'
      BY <3>4, <3>5, <3>6 DEF Bit
    <3>8. SameElsewhere(a, Nil, m) BY <2>9
    <3> HIDE DEF Weight, SameElsewhere, Linked
    <3> QED BY <2>5, <3>7, <3>8, Balance
  <2> QED BY <2>9, <2>10 DEF LinkInv
<1>4. CASE ForkOverBudget(a, k)
  <2>1. /\ pc[a] = "idle" /\ pc' = pc /\ job' = job /\ lost' = lost /\ body' = body
        /\ links' = links /\ proc' = P
    BY <1>1, <1>4 DEF ForkOverBudget, kernel
  <2>2. Changes(a, "idle", job[a]) BY <2>1 DEF Changes
  <2>3. /\ \A d \in Descs \ Victims : SameRun(proc'[d], proc[d])
        /\ \A d \in Victims : proc'[d] = Nil
    BY <1>2, <2>1, AlikeRun
  <2>4. MakersMods' /\ \A m \in Mods : SameElsewhere(a, Nil, m)
    BY <2>1, <2>2, <2>3, PrunedRuns
  <2>5. ASSUME NEW m \in Mods PROVE Linked(m)'
    <3>1. Nil \notin Runs(m) /\ Nil \notin Runs(m)' BY ProcFacts DEF Runs, Living, Listed
    <3>2. a \notin Ends(m) /\ a \notin Ends(m)' BY <2>1 DEF Ends
    <3>3. a \notin Carries(m) /\ a \notin Carries(m)'
      BY <2>1 DEF Carries, LinkPoints, Forking
    <3>4. Weight(a, Nil, m) = 0 /\ Weight(a, Nil, m)' = 0
      BY <3>1, <3>2, <3>3 DEF Weight, Bit
    <3>5. links[m] \in Nat BY DEF ProcInv, ProcTypes
    <3>6. links'[m] = links[m] - Weight(a, Nil, m) + Weight(a, Nil, m)'
      BY <2>1, <3>4, <3>5
    <3>7. SameElsewhere(a, Nil, m) BY <2>4
    <3> HIDE DEF Weight, SameElsewhere, Linked
    <3> QED BY <2>1, <3>6, <3>7, Balance
  <2> QED BY <2>4, <2>5 DEF LinkInv
<1> QED BY <1>3, <1>4

LEMMA ForkStartedLinks ==
  ASSUME ProcInv, LinkInv, NEW a \in Actors, NEW t \in Slots, ForkStarted(a, t)
  PROVE  LinkInv'
<1>1. ProcTypes /\ t \in Actors BY ProcFacts DEF ProcInv
<1>2. PICK d \in Descs : d = job[a].desc /\ proc[d] # Nil
  BY DEF ForkStarted, ProcInv, Places, MakersSound
<1>3. /\ pc[a] = "create" /\ pc[t] = "none"
      /\ \A u \in Slots \ {t} : body'[u] = body[u]
      /\ pc'[a] = "idle" /\ pc'[t] = "idle"
      /\ \A b \in Actors \ {a, t} : pc'[b] = pc[b] /\ job'[b] = job[b]
      /\ proc' = [proc EXCEPT ![d].task = t] /\ links' = links /\ lost' = lost
  BY <1>1, <1>2, KindsHold DEF ForkStarted, ProcTypes, ProcInv, Places, ThreadsSound
<1>4. Sets(proc, proc', d, proc[d].state, t, proc[d].refs, proc[d].collecting, proc[d].mod)
  BY <1>1, <1>2, <1>3, TaskSet DEF ProcTypes
<1>5. \A e \in Descs : SameRun(proc'[e], proc[e]) BY <1>2, <1>4, SetsRun
<1>6. MakersMods'
  BY <1>3, <1>5 DEF LinkInv, MakersMods, SameRun, ProcInv, Places, MakersSound
<1>7. ASSUME NEW m \in Mods PROVE Linked(m)'
  <2>0. \A e : Between(e)' <=> Between(e) BY <1>3, ProcFacts DEF Between
  <2>1. Runs(m)' = Runs(m) BY <1>5, <2>0 DEF Runs, Living, Listed, SameRun
  <2>2. Ends(m)' = Ends(m)
    <3> SUFFICES ASSUME NEW u \in Slots, u # t, pc[u] = "bury"
                 PROVE  proc'[body'[u]].mod = proc[body[u]].mod
      BY <1>3, ProcFacts DEF Ends
    <3>1. body'[u] = body[u] /\ thread[u] = "live" BY <1>3 DEF ProcInv, Places, ThreadsSound
    <3>2. body[u] \in Descs /\ proc[body[u]] # Nil
      BY <3>1, KindsHold, ProcFacts DEF ProcKinds, ProcInv, Places, ThreadsSound
    <3> QED BY <1>5, <3>1, <3>2 DEF SameRun
  <2>3. Carries(m)' = Carries(m) BY <1>3 DEF Carries, LinkPoints, Forking
  <2>4. Leaves(m)' = Leaves(m) BY <1>3 DEF Leaves, LostAt
  <2> HIDE DEF Runs, Ends, Carries, Leaves
  <2> QED BY <1>3, <2>1, <2>2, <2>3, <2>4 DEF Linked, LinkInv
<1> QED BY <1>6, <1>7 DEF LinkInv

\* What a thread had in hand when it was stopped stays linked.
LEMMA DyingLinks ==
  ASSUME ProcInv, LinkInv, NEW a \in Actors, NEW t, Dying(a, t), proc' = proc, links' = links,
         LostAt({"swap"})' = {}
  PROVE  LinkInv'
<1>1. t \in Actors /\ t \in Slots /\ body' = body BY ProcFacts DEF Dying
<1>2. PICK r : r = Remains(t) OBVIOUS
<1>3. r.at = pc[t] /\ r.job = job[t] /\ r.of = proc[body[t]].serial BY <1>2 DEF Remains
<1>4. lost' = IF pc[t] = "idle" \/ pc[t] = "exit" THEN lost ELSE lost \cup {r}
  BY <1>2 DEF Dying
<1>5. r \notin lost
  <2>1. body[t] \in Descs /\ proc[body[t]] # Nil /\ proc[body[t]].state = "active"
    BY <1>1, ThreadsRun DEF Dying
  <2>2. proc[body[t]].task = t
    BY <1>1, <2>1, KindsHold, ProcFacts
    DEF ProcKinds, ProcInv, Places, ThreadsSound, TasksSound
  <2> QED BY <1>3, <2>1, <2>2 DEF Dying, ProcInv, Places, LostSound, LostFits
<1>6. MakersMods' BY DEF Dying, LinkInv, MakersMods
<1>8. pc[t] # "swap" BY <1>3, <1>4 DEF LostAt
<1>7. ASSUME NEW m \in Mods PROVE Linked(m)'
  <2>0. \A e : Between(e)' <=> Between(e) BY <1>1, <1>8, ProcFacts DEF Between, Dying
  <2>1. Runs(m)' = Runs(m) BY <2>0 DEF Runs, Living, Listed
  <2>2. Ends(m)' = Ends(m) BY <1>1, ProcFacts DEF Dying, Ends
  <2>3. Carries(m)' = Carries(m) \ {t}
        /\ (t \in Carries(m) <=> pc[t] \in LinkPoints /\ job[t].mod = m)
    BY <1>1 DEF Dying, Carries, LinkPoints, Forking
  <2>4. Leaves(m)' = IF pc[t] \in LinkPoints /\ job[t].mod = m THEN Leaves(m) \cup {r}
                     ELSE Leaves(m)
    BY <1>3, <1>4 DEF Leaves, LostAt, LinkPoints, Forking
  <2>5. PICK C : C = Carries(m) OBVIOUS
  <2>6. PICK L : L = Leaves(m) OBVIOUS
  <2>7. IsFiniteSet(C) /\ IsFiniteSet(L) BY <2>5, <2>6, LinkSetsFinite
  <2>8. r \notin L BY <1>5, <2>6 DEF Leaves, LostAt
  <2>9. Linked(m) BY DEF LinkInv
  <2>13. PICK R \in Nat : R = Cardinality(Runs(m)) BY LinkSetsFinite, FS_CardinalityType
  <2>14. PICK E \in Nat : E = Cardinality(Ends(m)) BY LinkSetsFinite, FS_CardinalityType
  <2>10. links[m] = R + E + Cardinality(C) + Cardinality(L)
    BY <2>5, <2>6, <2>9, <2>13, <2>14 DEF Linked
  <2>11. CASE pc[t] \in LinkPoints /\ job[t].mod = m
    <3>1. /\ Cardinality(C \ {t}) = Cardinality(C) - 1
          /\ Cardinality(L \cup {r}) = Cardinality(L) + 1
          /\ Cardinality(C) \in Nat /\ Cardinality(L) \in Nat
      BY <2>3, <2>5, <2>7, <2>8, <2>11, CountOne
    <3>2. Cardinality(Carries(m)') = Cardinality(C) - 1 BY <2>3, <2>5, <3>1
    <3>3. Cardinality(Leaves(m)') = Cardinality(L) + 1 BY <2>4, <2>6, <2>11, <3>1
    <3> HIDE DEF Runs, Ends, Carries, Leaves
    <3> QED BY <2>1, <2>2, <2>10, <2>13, <2>14, <3>1, <3>2, <3>3 DEF Linked
  <2>12. CASE ~(pc[t] \in LinkPoints /\ job[t].mod = m)
    <3>1. Carries(m)' = Carries(m) BY <2>3, <2>12
    <3>2. Leaves(m)' = Leaves(m) BY <2>4, <2>12
    <3> HIDE DEF Runs, Ends, Carries, Leaves
    <3> QED BY <2>1, <2>2, <2>9, <3>1, <3>2 DEF Linked
  <2> QED BY <2>11, <2>12
<1> QED BY <1>6, <1>7 DEF LinkInv

LEMMA FaultsLinks ==
  ASSUME ProcInv, LinkInv, "bury" \notin FaultsAt, NEW t \in Slots, Faults(t),
         LostAt({"swap"})' = {}
  PROVE  LinkInv'
<1>1. ProcTypes /\ t \in Actors BY ProcFacts DEF ProcInv
<1>2. /\ thread[t] = "live" /\ pc[t] # "bury" /\ Died(t)
      /\ pc' = [pc EXCEPT ![t] = "none"] /\ job' = [job EXCEPT ![t] = NoJob]
      /\ proc' = proc /\ links' = links /\ body' = body /\ next_serial' = next_serial
  BY DEF Faults, table, issued
<1>3. /\ thread'[t] = "dead" /\ \A u \in Slots \ {t} : thread'[u] = thread[u]
      /\ lost' = IF pc[t] = "idle" \/ pc[t] = "exit" THEN lost ELSE lost \cup {Remains(t)}
  BY <1>2, DiedIs
<1>4. Changes(t, "none", NoJob) BY <1>1, <1>2, Changing
<1>5. Untouched BY <1>2, AlikeSame DEF Untouched
<1>6. Dying(t, t) BY <1>2, <1>3, <1>4, <1>5 DEF Dying, Changes
<1> QED BY <1>1, <1>2, <1>6, DyingLinks

LEMMA KillDoneLinks ==
  ASSUME ProcInv, LinkInv, NEW a \in Actors, KillDone(a), LostAt({"swap"})' = {}
  PROVE  LinkInv'
<1>1. ProcTypes BY DEF ProcInv
<1>2. PICK d \in Descs : d = job[a].desc /\ proc[d] # Nil
  BY InHand DEF KillDone, HoldingPoints
<1>3. PICK t : t = proc[d].task OBVIOUS
<1>4. pc[a] = "kill" /\ proc' = proc /\ links' = links /\ next_serial' = next_serial
  BY DEF KillDone, table, issued
<1>5. CASE pc' = [pc EXCEPT ![a] = "funeral"] /\ UNCHANGED <<kernel, job, lost>>
  <2>1. "kill" \in Elsewhere /\ "funeral" \in Elsewhere
    BY DEF Elsewhere, Points, LinkPoints, Forking
  <2> QED BY <1>4, <1>5, <2>1, PassLinks DEF kernel
<1>6. CASE /\ proc[d].state # "exited" /\ t # Nil /\ thread[t] = "live" /\ Died(t)
           /\ pc' = [pc EXCEPT ![a] = "funeral", ![t] = "none"]
           /\ job' = [job EXCEPT ![t] = NoJob] /\ body' = body
  <2>1. /\ t \in Slots /\ t \in Actors /\ body[t] = d /\ pc[t] # "bury"
    BY <1>2, <1>3, <1>6, ThreadOf
  <2>2. /\ thread'[t] = "dead" /\ \A u \in Slots \ {t} : thread'[u] = thread[u]
        /\ lost' = IF pc[t] = "idle" \/ pc[t] = "exit" THEN lost ELSE lost \cup {Remains(t)}
    BY <1>6, <2>1, DiedIs
  <2>3. /\ pc'[t] = "none" /\ job'[t] = NoJob
        /\ a # t => pc'[a] = "funeral" /\ job'[a] = job[a]
        /\ \A b \in Actors \ {a, t} : pc'[b] = pc[b] /\ job'[b] = job[b]
    BY <1>1, <1>6, <2>1 DEF ProcTypes
  <2>4. Untouched BY <1>4, AlikeSame DEF Untouched
  <2>5. Dying(a, t) BY <1>4, <1>6, <2>1, <2>2, <2>3, <2>4 DEF Dying
  <2> QED BY <1>4, <2>1, <2>5, DyingLinks
<1> QED BY <1>2, <1>3, <1>5, <1>6 DEF KillDone

LEMMA LinkInvInit ==
  ASSUME Init
  PROVE  LinkInv
<1>1. /\ \A d \in Descs : proc[d] = Nil
      /\ \A a \in Actors : pc[a] \in {"idle", "none"}
      /\ \A t \in Slots : pc[t] = "none"
      /\ lost = {}
  BY ProcFacts DEF Init
<1>2. ASSUME NEW m \in Mods PROVE Linked(m)
  <2>1. Runs(m) = {} BY <1>1 DEF Runs, Living, Listed
  <2>2. Ends(m) = {} BY <1>1 DEF Ends
  <2>3. Carries(m) = {} BY <1>1 DEF Carries, LinkPoints, Forking
  <2>4. Leaves(m) = {} BY <1>1 DEF Leaves, LostAt
  <2>5. links[m] = 0 BY DEF Init
  <2>6. Cardinality({}) = 0 BY FS_EmptySet
  <2> QED BY <2>1, <2>2, <2>3, <2>4, <2>5, <2>6 DEF Linked
<1>3. MakersMods BY <1>1 DEF MakersMods
<1> QED BY <1>2, <1>3 DEF LinkInv

LEMMA LinkInvNext ==
  ASSUME ProcInv, LinkInv, "bury" \notin FaultsAt, ChainEnds \subseteq {FALSE},
         LostAt({"swap"})' = {}, [Next]_vars
  PROVE  LinkInv'
<1>1. ASSUME NEW a \in Actors, Step(a) PROVE LinkInv'
  <2>1. ASSUME NEW m \in Mods, ForkCharged(a, m) \/ ForkOverBudget(a, m) PROVE LinkInv'
    BY <2>1, ForkChargedLinks
  <2>2. CASE ForkAdmitted(a) \/ ForkRefused(a) \/ Refuse(a) BY <2>2, ForkGoesOnLinks
  <2>3. CASE Undo(a) BY <2>3, UndoLinks
  <2>4. CASE WaitWhy(a)
    <3>1. /\ pc[a] = "why" /\ pc' = [pc EXCEPT ![a] = "idle"]
          /\ job' = [job EXCEPT ![a] = NoJob]
          /\ proc' = proc /\ links' = links /\ lost' = lost /\ body' = body
      BY <2>4 DEF WaitWhy, Idles, Goes, table, kernel
    <3>2. "why" \in Elsewhere /\ "idle" \in Elsewhere
      BY DEF Elsewhere, Points, LinkPoints, Forking
    <3> QED BY <3>1, <3>2, PassLinks
  <2>5. ASSUME NEW d \in Descs, ForkInserted(a, d) PROVE LinkInv' BY <2>5, ForkInsertedLinks
  <2>6. ASSUME NEW t \in Slots, ForkStarted(a, t) PROVE LinkInv' BY <2>6, ForkStartedLinks
  <2>7. CASE ForkNotStarted(a) BY <2>7, ForkNotStartedLinks
  <2>8. CASE Collect(a) BY <2>8, CollectLinks
  <2>9. CASE Reap(a) BY <2>9, ReapLinks
  <2>10. ASSUME NEW d \in Descs, Wait(a, d) \/ Kill(a, d) PROVE LinkInv'
    <3>1. d \in Listed /\ (Hold(a, d, "wait") \/ Hold(a, d, "kill"))
      BY <2>10 DEF Wait, Kill, Living
    <3> QED BY <3>1, HoldLinks
  <2>11. CASE WaitCollects(a) BY <2>11, ClaimLinks DEF WaitCollects, kernel
  <2>12. CASE WaitAnswered(a) \/ WaitTimedOut(a) \/ KillGivesUp(a) \/ Killed(a)
    BY <2>12, DropLinks
  <2>13. CASE KillDone(a) BY <2>13, KillDoneLinks
  <2>14. CASE KillFuneral(a)
    <3>1. pc[a] = "funeral" /\ links' = links /\ lost' = lost /\ body' = body
      BY <2>14 DEF KillFuneral, kernel
    <3>2. CASE Claimed(a, job[a].desc, "watch") BY <3>1, <3>2, ClaimLinks
    <3>3. CASE Goes(a, "funeral", "watch") /\ UNCHANGED <<proc, job>>
      <4>1. "funeral" \in Elsewhere /\ "watch" \in Elsewhere
        BY DEF Elsewhere, Points, LinkPoints, Forking
      <4> QED BY <3>1, <3>3, <4>1, PassLinks DEF Goes
    <3> QED BY <2>14, <3>2, <3>3 DEF KillFuneral
  <2> QED
    BY <1>1, <2>1, <2>2, <2>3, <2>4, <2>5, <2>6, <2>7, <2>8, <2>9, <2>10, <2>11, <2>12, <2>13,
       <2>14 DEF Step
<1>2. ASSUME NEW t \in Slots, Body(t) PROVE LinkInv'
  <2>1. ASSUME NEW m \in Mods, ChainLinked(t, m) PROVE LinkInv' BY <2>1, ChainLinkedLinks
  <2>2. ASSUME NEW swapped \in ChainEnds, ChainRefused(t, swapped) PROVE LinkInv'
    BY <2>2, ChainRefusedLinks
  <2>3. CASE Chained(t) BY <2>3, ChainedLinks
  <2>8. CASE ChainSwapped(t) BY <2>8, ChainSwappedLinks
  <2>4. CASE Exit(t)
    <3>1. /\ pc[t] = "idle" /\ pc' = [pc EXCEPT ![t] = "exit"] /\ t \in Actors
          /\ job' = job /\ proc' = proc /\ links' = links /\ lost' = lost /\ body' = body
      BY <2>4, ProcFacts DEF Exit, Goes, table, kernel
    <3>2. "idle" \in Elsewhere /\ "exit" \in Elsewhere
      BY DEF Elsewhere, Points, LinkPoints, Forking
    <3> QED BY <3>1, <3>2, PassLinks
  <2>5. CASE Finish(t) BY <2>5, FinishLinks
  <2>6. CASE Bury(t) BY <2>6, BuryLinks
  <2>7. CASE Faults(t) BY <2>7, FaultsLinks
  <2> QED BY <1>2, <2>1, <2>2, <2>3, <2>4, <2>5, <2>6, <2>7, <2>8 DEF Body
<1>3. CASE UNCHANGED vars
  <2>1. MakersMods' BY <1>3 DEF vars, LinkInv, MakersMods
  <2>2. ASSUME NEW m \in Mods PROVE Linked(m)'
    <3>1. Runs(m)' = Runs(m) /\ Ends(m)' = Ends(m) /\ Carries(m)' = Carries(m)
          /\ Leaves(m)' = Leaves(m)
      BY <1>3 DEF vars, Runs, Between, Living, Listed, Ends, Carries, Leaves, LostAt
    <3> HIDE DEF Runs, Ends, Carries, Leaves
    <3> QED BY <1>3, <3>1 DEF vars, LinkInv, Linked
  <2> QED BY <2>1, <2>2 DEF LinkInv
<1> QED BY <1>1, <1>2, <1>3 DEF Next

\* Who was stopped in a call is not forgotten.
LEMMA LostStay == [Next]_vars => lost \subseteq lost'
<1>1. ASSUME NEW a \in Actors, Step(a) PROVE lost \subseteq lost'
  <2>1. CASE KillDone(a)
    <3>1. UNCHANGED <<kernel, job, lost>> \/ \E t : Died(t) BY Zenon, <2>1 DEF KillDone
    <3> QED BY <3>1 DEF Died
  <2>2. CASE ~KillDone(a)
    BY Zenon, <1>1, <2>2
    DEF Step, ForkCharged, ForkOverBudget, ForkAdmitted, ForkRefused, Refuse, Undo, ForkInserted,
        ForkStarted, ForkNotStarted, Collect, Reap, Wait, Kill, Hold, WaitCollects, WaitAnswered,
        WaitTimedOut, WaitWhy, KillGivesUp, KillFuneral, Killed
  <2> QED BY <2>1, <2>2
<1>2. ASSUME NEW t \in Slots, Body(t) PROVE lost \subseteq lost'
  <2>1. CASE Faults(t) BY <2>1 DEF Faults, Died
  <2>2. CASE ~Faults(t)
    BY Zenon, <1>2, <2>2
    DEF Body, ChainLinked, ChainSwapped, Chained, ChainRefused, Exit, Finish, Bury
  <2> QED BY <2>1, <2>2
<1> QED BY <1>1, <1>2 DEF Next, vars

\* And so are the links of the modules, until somebody is stopped between two.
NoneBetween == LostAt({"swap"}) = {}

LEMMA LinkInvHolds ==
  ASSUME MayAskUnborn = FALSE, "bury" \notin FaultsAt, ChainEnds \subseteq {FALSE}
  PROVE  Spec => [](ProcInv /\ (NoneBetween => LinkInv))
<1>1. Init => ProcInv /\ (NoneBetween => LinkInv) BY ProcInvInit, LinkInvInit
<1>2. ProcInv /\ (NoneBetween => LinkInv) /\ [Next]_vars => (ProcInv /\ (NoneBetween => LinkInv))'
  <2> SUFFICES ASSUME ProcInv, NoneBetween => LinkInv, [Next]_vars
               PROVE  ProcInv' /\ (NoneBetween' => LinkInv')
    OBVIOUS
  <2>1. NoneBetween' => NoneBetween BY LostStay DEF NoneBetween, LostAt
  <2>2. NoneBetween' => LinkInv' BY <2>1, LinkInvNext DEF NoneBetween
  <2> QED BY <2>2, ProcInvNext
<1> QED BY <1>1, <1>2, PTL DEF Spec

\* What a killed process had is somebody's to give back.
LEMMA DeadAreFound ==
  ASSUME ProcInv, NEW t \in Slots, thread[t] = "dead"
  PROVE  \/ Faulted(body[t])
         \/ \E a \in Actors : pc[a] \in {"collect", "reap"} /\ job[a].desc = body[t]
         \/ \E l \in LostAt({"collect", "reap"}) : l.job.serial = proc[body[t]].serial
<1>1. PICK d \in Descs : d = body[t] /\ proc[d] # Nil
  BY ProcFacts, KindsHold DEF ProcKinds, ProcInv, Places, ThreadsSound
<1>2. CASE proc[d].state = "exited"
  BY <1>1, <1>2 DEF ProcInv, Places, ThreadsSound, LostAt
<1>3. CASE proc[d].state = "active"
  <2>1. proc[d].task = t
    BY <1>1, <1>3, ProcFacts, KindsHold
    DEF ProcKinds, ProcInv, Places, ThreadsSound, TasksSound
  <2>2. CASE proc[d].collecting
    BY <1>1, <2>2 DEF ProcInv, Places, TasksSound, LostAt
  <2>3. CASE ~proc[d].collecting BY <1>1, <1>3, <2>1, <2>3, ProcFacts DEF Faulted
  <2> QED BY <1>1, <2>2, <2>3
<1> QED BY <1>1, <1>2, <1>3, KindsHold DEF ProcKinds

\* A module is linked once for every process that has not been buried and every
\* call of fork, chain or collect that has it in hand, or was stopped with it; and
\* a stopped thread's slot is always somebody's to give back (proc.c: rv9_proc_fork,
\* undo_fork, the trampoline, finish and collect_faulted).  The first is so as long
\* as no chain is refused, or stopped, when it has given the old module back and
\* the descriptor still names it: there the code gives it back twice.
THEOREM LinksHeld ==
  ASSUME MayAskUnborn = FALSE, "bury" \notin FaultsAt, ChainEnds \subseteq {FALSE}
  PROVE  Spec => []LinksAreHeld
<1>1. ASSUME ProcInv, NoneBetween => LinkInv PROVE LinksAreHeld
  <2>1. ASSUME NoneBetween, NEW m \in Mods
        PROVE  links[m] = Cardinality({d \in Living : proc[d].mod = m /\ ~Between(d)})
                 + Cardinality({t \in Slots : pc[t] = "bury" /\ proc[body[t]].mod = m})
                 + Cardinality({a \in Actors : pc[a] \in LinkPoints /\ job[a].mod = m})
                 + Cardinality({l \in LostAt(LinkPoints) : l.job.mod = m})
    BY <1>1, <2>1 DEF LinkInv, Linked, Runs, Ends, Carries, Leaves
  <2>2. \A t \in Slots : thread[t] = "dead" =>
          \/ Faulted(body[t])
          \/ \E a \in Actors : pc[a] \in {"collect", "reap"} /\ job[a].desc = body[t]
          \/ \E l \in LostAt({"collect", "reap"}) : l.job.serial = proc[body[t]].serial
    BY <1>1, DeadAreFound
  <2> QED BY <2>1, <2>2 DEF LinksAreHeld, NoneBetween
<1>2. ProcInv /\ (NoneBetween => LinkInv) => LinksAreHeld BY <1>1
<1> QED BY <1>2, LinkInvHolds, PTL

\* "The image is freed when the count reaches zero" (module.h): while a thread is
\* in a module's code the module is linked, as long as no chain was refused or
\* stopped between giving its old module back and naming the next in the
\* descriptor (proc.c:827-844).
THEOREM CodeLinked ==
  ASSUME MayAskUnborn = FALSE, "bury" \notin FaultsAt, ChainEnds \subseteq {FALSE}
  PROVE  Spec => [](LostAt({"swap"}) = {} => CodeIsLinked)
<1>1. ASSUME ProcInv, LinkInv, NEW t \in Slots, thread[t] = "live",
             pc[t] \notin {"swap", "exit", "bury"}
      PROVE  links[proc[body[t]].mod] > 0
  <2>1. PICK d \in Descs : d = body[t] /\ proc[d] # Nil /\ proc[d].state = "active"
    BY <1>1, ThreadsRun
  <2>2. PICK m \in Mods : m = proc[d].mod BY <1>1, <2>1, KindsHold DEF ProcKinds
  <2>3. PICK R : R = Runs(m) OBVIOUS
  <2>4. PICK e \in Nat : e = Cardinality(Ends(m))
    BY <1>1, LinkSetsFinite, FS_CardinalityType
  <2>5. PICK c \in Nat : c = Cardinality(Carries(m))
    BY <1>1, LinkSetsFinite, FS_CardinalityType
  <2>6. PICK l \in Nat : l = Cardinality(Leaves(m))
    BY <1>1, LinkSetsFinite, FS_CardinalityType
  <2>7. links[m] = Cardinality(R) + e + c + l
    BY <1>1, <2>3, <2>4, <2>5, <2>6 DEF LinkInv, Linked
  <2>12. ~Between(d) BY <1>1, <2>1, OneThread
  <2>8. d \in R BY <2>1, <2>2, <2>3, <2>12 DEF Runs, Living, Listed
  <2>9. IsFiniteSet(R) BY <1>1, <2>3, LinkSetsFinite
  <2>10. Cardinality(R) \in Nat /\ Cardinality(R) > 0 BY <2>8, <2>9, CountOne
  <2>11. links[m] > 0 BY <2>7, <2>10
  <2> QED BY <2>1, <2>2, <2>11
<1>2. ProcInv /\ (NoneBetween => LinkInv) => (LostAt({"swap"}) = {} => CodeIsLinked)
  BY <1>1 DEF CodeIsLinked, NoneBetween
<1> QED BY <1>2, LinkInvHolds, PTL

(***************************************************************************)
(* What processes are charged for.                                         *)
(***************************************************************************)
Early == {"claim", "insert"}
Paying(r) == r # Nil /\ r.state = "active"

\* What one process, fork or call that was stopped costs those it is charged to.
Share(s) == [e \in Descs |-> IF Paying(proc[e]) /\ s \in Range(proc[e].anc) THEN proc[e].foot ELSE 0]
Owed(s) == [a \in Actors |-> IF pc[a] \in Forking /\ s \in Range(job[a].anc)
                             THEN Foot[job[a].mod] ELSE 0]
Left(s) == [l \in lost |-> IF l.at \in Forking /\ s \in Range(l.job.anc)
                           THEN Foot[l.job.mod] ELSE 0]
Charge(s) == SumFunctionOnSet(Share(s), Descs) + SumFunctionOnSet(Owed(s), Actors)
             + SumFunctionOnSet(Left(s), lost)

Balanced(d) == /\ proc[d].held = proc[d].foot + Charge(proc[d].serial)
               /\ proc[d].held <= proc[d].budget

\* A serial that is no fork's to put in the table: nobody is charged to one that is.
Taken(s) == s \in Nat /\ s < next_serial /\ \A b \in Actors : pc[b] \in Early => job[b].serial # s

PaysFor(d) == Paying(proc[d]) => Balanced(d) /\ \A s \in Range(proc[d].anc) : Taken(s)
ForksFor(a) == /\ pc[a] \in Forking => \A s \in Range(job[a].anc) : Taken(s)
               /\ pc[a] \in Early => Foot[job[a].mod] <= Budget[job[a].mod]
LeftFor(l) == l.at \in Forking => l.job.mod \in Mods /\ \A s \in Range(l.job.anc) : Taken(s)
BillInv == /\ \A d \in Descs : PaysFor(d)
           /\ \A a \in Actors : ForksFor(a)
           /\ \A l \in lost : LeftFor(l)

\* The same process as far as charges go; and with the same balance.
SameShare(r, q) ==
  /\ Paying(r) <=> Paying(q)
  /\ Paying(q) => /\ r.serial = q.serial /\ r.anc = q.anc /\ r.foot = q.foot
                  /\ r.budget = q.budget
SameBill(r, q) == SameShare(r, q) /\ (Paying(q) => r.held = q.held)
SameBills(Q, P) == \A e \in Descs : SameBill(Q[e], P[e])
SameFork(b) ==
  /\ pc'[b] \in Forking <=> pc[b] \in Forking
  /\ pc[b] \in Forking => job'[b].anc = job[b].anc /\ job'[b].mod = job[b].mod
  /\ pc'[b] \in Early => pc[b] \in Early /\ job'[b].serial = job[b].serial

Values == \A s : /\ \A e \in Descs : Share(s)[e] \in Nat
                 /\ \A a \in Actors : Owed(s)[a] \in Nat

LEMMA ValuesAre == ProcInv => Values
<1> SUFFICES ASSUME ProcInv, NEW s
             PROVE  /\ \A e \in Descs : Share(s)[e] \in Nat
                    /\ \A a \in Actors : Owed(s)[a] \in Nat
  BY DEF Values
<1>1. ASSUME NEW e \in Descs PROVE Share(s)[e] \in Nat
  <2>1. CASE Paying(proc[e])
    <3>1. proc[e] \in ProcRecord BY <2>1 DEF Paying, ProcInv, ProcTypes, ProcTable
    <3>2. proc[e].foot \in Nat BY <3>1 DEF ProcRecord
    <3> QED BY <3>2 DEF Share
  <2>2. CASE ~Paying(proc[e]) BY <2>2 DEF Share
  <2> QED BY <2>1, <2>2
<1>2. ASSUME NEW a \in Actors PROVE Owed(s)[a] \in Nat
  <2>1. pc[a] \in Forking => job[a].mod \in Mods BY DEF ProcInv, Places, ModsSound
  <2> QED BY <2>1, ProcFacts DEF Owed
<1> QED BY <1>1, <1>2

LEMMA ValuesNext == ProcInv' => Values'
<1>1. ProcInv => Values BY ValuesAre
<1> QED BY <1>1, PTL

LEMMA LeftIs ==
  ASSUME ProcInv, BillInv, NEW s
  PROVE  IsFiniteSet(lost) /\ \A l \in lost : Left(s)[l] \in Nat
<1>1. IsFiniteSet(lost) BY DEF ProcInv, ProcTypes
<1>2. ASSUME NEW l \in lost PROVE Left(s)[l] \in Nat
  <2>1. l.at \in Forking => l.job.mod \in Mods BY DEF BillInv, LeftFor
  <2> QED BY <2>1, ProcFacts DEF Left
<1> QED BY <1>1, <1>2

LEMMA SumTurns ==
  ASSUME NEW f, NEW h, NEW S, IsFiniteSet(S), NEW x \in S, \A y \in S : f[y] \in Nat /\ h[y] \in Nat,
         \A y \in S \ {x} : h[y] = f[y]
  PROVE  /\ SumFunctionOnSet(f, S) \in Nat /\ SumFunctionOnSet(f, S) >= f[x]
         /\ SumFunctionOnSet(h, S) = SumFunctionOnSet(f, S) - f[x] + h[x]
<1>1. SumFunctionOnSet(h, S) = SumFunctionOnSet(f, S) - f[x] + h[x] BY SumChange
<1>2. SumFunctionOnSet(f, S) \in Nat /\ SumFunctionOnSet(f, S) = f[x] + SumFunctionOnSet(f, S \ {x})
  BY SumOne
<1>3. IsFiniteSet(S \ {x}) BY FS_RemoveElement
<1>4. SumFunctionOnSet(f, S \ {x}) \in Nat BY <1>3, SumOne
<1>5. f[x] \in Nat OBVIOUS
<1> QED BY <1>1, <1>2, <1>4, <1>5

\* One process and one fork change what they cost, and the charge with them.
LEMMA ChargeMoves ==
  ASSUME ProcInv, ProcInv', BillInv, NEW a \in Actors, NEW d \in Descs, NEW s, lost' = lost,
         \A e \in Descs \ {d} : Share(s)'[e] = Share(s)[e],
         \A b \in Actors \ {a} : Owed(s)'[b] = Owed(s)[b]
  PROVE  /\ Charge(s) \in Nat
         /\ Charge(s) >= Share(s)[d] + Owed(s)[a]
         /\ Charge(s)' = Charge(s) - Share(s)[d] - Owed(s)[a] + Share(s)'[d] + Owed(s)'[a]
<1>1. PICK f, h : f = Share(s) /\ h = Share(s)' OBVIOUS
<1>2. PICK g, k : g = Owed(s) /\ k = Owed(s)' OBVIOUS
<1>3. PICK L : L = Left(s) OBVIOUS
<1>4. /\ \A e \in Descs : f[e] \in Nat
      /\ \A b \in Actors : g[b] \in Nat
  BY <1>1, <1>2, ValuesAre DEF Values
<1>5. /\ \A e \in Descs : h[e] \in Nat
      /\ \A b \in Actors : k[b] \in Nat
  BY <1>1, <1>2, ValuesNext DEF Values
<1>6. IsFiniteSet(lost) /\ \A l \in lost : L[l] \in Nat BY <1>3, LeftIs
<1>7. PICK x \in Nat : x = SumFunctionOnSet(L, lost) BY <1>6, SumOne
<1>8. IsFiniteSet(Descs) /\ IsFiniteSet(Actors) BY ProcFacts
<1>9. /\ \A e \in Descs \ {d} : h[e] = f[e]
      /\ \A b \in Actors \ {a} : k[b] = g[b]
  BY <1>1, <1>2
<1>10. PICK F \in Nat : /\ F = SumFunctionOnSet(f, Descs) /\ F >= f[d]
                        /\ SumFunctionOnSet(h, Descs) = F - f[d] + h[d]
  BY <1>4, <1>5, <1>8, <1>9, SumTurns
<1>11. PICK G \in Nat : /\ G = SumFunctionOnSet(g, Actors) /\ G >= g[a]
                        /\ SumFunctionOnSet(k, Actors) = G - g[a] + k[a]
  BY <1>4, <1>5, <1>8, <1>9, SumTurns
<1>12. Left(s)' = L BY <1>3 DEF Left
<1>13. Charge(s) = F + G + x BY <1>1, <1>2, <1>3, <1>7, <1>10, <1>11 DEF Charge
<1>14. Charge(s)' = (F - f[d] + h[d]) + (G - g[a] + k[a]) + x
  BY <1>1, <1>2, <1>7, <1>10, <1>11, <1>12 DEF Charge
<1>15. f[d] \in Nat /\ h[d] \in Nat /\ g[a] \in Nat /\ k[a] \in Nat BY <1>4, <1>5
<1> HIDE DEF Charge, Share, Owed
<1> QED BY <1>1, <1>2, <1>10, <1>11, <1>13, <1>14, <1>15

LEMMA SharesSame ==
  ASSUME NEW e \in Descs, SameShare(proc'[e], proc[e])
  PROVE  \A s : Share(s)'[e] = Share(s)[e]
BY DEF SameShare, Share

LEMMA OwedSame ==
  ASSUME NEW b \in Actors, SameFork(b)
  PROVE  \A s : Owed(s)'[b] = Owed(s)[b]
BY DEF SameFork, Owed

\* A process's balance moves as what it is charged for.
LEMMA BalanceMoves ==
  ASSUME ProcInv, ProcInv', BillInv, NEW a \in Actors, NEW d \in Descs, lost' = lost,
         \A e \in Descs \ {d} : SameShare(proc'[e], proc[e]),
         \A b \in Actors \ {a} : SameFork(b),
         NEW e \in Descs, Paying(proc[e]), SameShare(proc'[e], proc[e]),
         NEW s, s = proc[e].serial,
         proc'[e].held = proc[e].held - Share(s)[d] - Owed(s)[a] + Share(s)'[d] + Owed(s)'[a],
         proc'[e].held <= proc'[e].budget
  PROVE  Balanced(e)'
<1>1. /\ \A x \in Descs \ {d} : Share(s)'[x] = Share(s)[x]
      /\ \A b \in Actors \ {a} : Owed(s)'[b] = Owed(s)[b]
  BY SharesSame, OwedSame
<1>2. /\ Charge(s) \in Nat
      /\ Charge(s)' = Charge(s) - Share(s)[d] - Owed(s)[a] + Share(s)'[d] + Owed(s)'[a]
  <2> HIDE DEF Charge, Share, Owed
  <2> QED BY <1>1, ChargeMoves
<1>3. proc[e].held = proc[e].foot + Charge(s) BY DEF BillInv, PaysFor, Balanced
<1>4. proc'[e].serial = s /\ proc'[e].foot = proc[e].foot BY DEF SameShare
<1>5. proc[e].foot \in Nat
  <2>1. proc[e] \in ProcRecord BY DEF Paying, ProcInv, ProcTypes, ProcTable
  <2> QED BY <2>1 DEF ProcRecord
<1>6. /\ Share(s)[d] \in Nat /\ Owed(s)[a] \in Nat
      /\ Share(s)'[d] \in Nat /\ Owed(s)'[a] \in Nat
  BY ValuesAre, ValuesNext DEF Values
<1>7. proc'[e].held = proc'[e].foot + Charge(s)'
  <2> HIDE DEF Charge, Share, Owed
  <2> QED BY <1>2, <1>3, <1>4, <1>5, <1>6
<1>8. Charge(proc[e].serial)' = Charge(s)'
  BY <1>4 DEF Charge, Share, Owed, Left
<1> HIDE DEF Charge
<1> QED BY <1>7, <1>8 DEF Balanced

\* Serials once taken stay so, and with them what is known of those who are charged.
Numbers == /\ next_serial \in Nat /\ next_serial' \in Nat /\ next_serial <= next_serial'
           /\ \A b \in Actors : pc'[b] \in Early =>
                \/ pc[b] \in Early /\ job'[b].serial = job[b].serial
                \/ job'[b].serial = next_serial

LEMMA TakenStays ==
  ASSUME Numbers, NEW s, Taken(s)
  PROVE  Taken(s)'
<1>1. s \in Nat /\ s < next_serial /\ s # next_serial BY DEF Taken, Numbers
<1>2. s < next_serial' BY <1>1 DEF Numbers
<1>3. ASSUME NEW b \in Actors, pc'[b] \in Early PROVE job'[b].serial # s
  BY <1>1, <1>3 DEF Numbers, Taken
<1> QED BY <1>1, <1>2, <1>3 DEF Taken

LEMMA RestStays ==
  ASSUME BillInv, Numbers
  PROVE  /\ \A l \in lost : LeftFor(l)'
         /\ \A b \in Actors : SameFork(b) => ForksFor(b)'
         /\ \A e \in Descs : SameShare(proc'[e], proc[e]) =>
              \A s \in Range(proc'[e].anc) : Paying(proc'[e]) => Taken(s)'
<1>1. \A s : Taken(s) => Taken(s)' BY TakenStays
<1> HIDE DEF Taken
<1>2. ASSUME NEW l \in lost PROVE LeftFor(l)' BY <1>1 DEF BillInv, LeftFor
<1>3. ASSUME NEW b \in Actors, SameFork(b) PROVE ForksFor(b)'
  BY <1>1, <1>3 DEF BillInv, ForksFor, SameFork, Early, Forking
<1>4. ASSUME NEW e \in Descs, SameShare(proc'[e], proc[e]), Paying(proc'[e]),
             NEW s \in Range(proc'[e].anc)
      PROVE  Taken(s)'
  BY <1>1, <1>4 DEF BillInv, PaysFor, SameShare
<1> QED BY <1>2, <1>3, <1>4

\* One fork's cost changes, or nothing does.
LEMMA OwedMoves ==
  ASSUME ProcInv, ProcInv', BillInv, Numbers, NEW a \in Actors, lost' = lost,
         \A e \in Descs : SameShare(proc'[e], proc[e]),
         \A b \in Actors \ {a} : SameFork(b), ForksFor(a)',
         \A e \in Descs : \A s : Paying(proc[e]) /\ s = proc[e].serial =>
           /\ proc'[e].held = proc[e].held - Owed(s)[a] + Owed(s)'[a]
           /\ proc'[e].held <= proc[e].budget
  PROVE  BillInv'
<1>1. /\ \A l \in lost : LeftFor(l)'
      /\ \A b \in Actors : SameFork(b) => ForksFor(b)'
      /\ \A e \in Descs : SameShare(proc'[e], proc[e]) =>
           \A s \in Range(proc'[e].anc) : Paying(proc'[e]) => Taken(s)'
  BY RestStays
<1>2. ASSUME NEW e \in Descs, Paying(proc'[e]) PROVE Balanced(e)'
  <2>1. Paying(proc[e]) /\ SameShare(proc'[e], proc[e]) BY <1>2 DEF SameShare
  <2>2. PICK s : s = proc[e].serial OBVIOUS
  <2>3. /\ proc'[e].held = proc[e].held - Owed(s)[a] + Owed(s)'[a]
        /\ proc'[e].held <= proc[e].budget
    <3> HIDE DEF Owed, Paying, SameShare
    <3> QED BY <2>1, <2>2
  <2>4. Share(s)'[e] = Share(s)[e] BY <2>1, SharesSame
  <2>5. Share(s)[e] \in Nat /\ Owed(s)[a] \in Nat /\ Owed(s)'[a] \in Nat
    BY ValuesAre, ValuesNext DEF Values
  <2>6. PICK r \in ProcRecord : r = proc[e]
    BY <2>1 DEF Paying, ProcInv, ProcTypes, ProcTable
  <2>7. r.held \in Nat BY <2>6 DEF ProcRecord
  <2>8. proc'[e].held = proc[e].held - Share(s)[e] - Owed(s)[a] + Share(s)'[e] + Owed(s)'[a]
    <3> HIDE DEF Share, Owed
    <3> QED BY <2>3, <2>4, <2>5, <2>6, <2>7
  <2>9. proc'[e].held <= proc'[e].budget BY <2>1, <2>3 DEF SameShare
  <2> HIDE DEF Share, Owed, Balanced, SameShare, SameFork, Paying
  <2> QED BY <2>1, <2>2, <2>8, <2>9, BalanceMoves
<1>3. \A e \in Descs : PaysFor(e)' BY <1>1, <1>2 DEF PaysFor
<1>4. \A b \in Actors : ForksFor(b)' BY <1>1
<1> QED BY <1>1, <1>3, <1>4 DEF BillInv

\* Nobody's charges change.
LEMMA SteadyKeeps ==
  ASSUME ProcInv, ProcInv', BillInv, Numbers, lost' = lost, SameBills(proc', proc),
         \A b \in Actors : SameFork(b)
  PROVE  BillInv'
<1>1. Sys \in Actors /\ SameFork(Sys) BY DEF Actors
<1>2. ForksFor(Sys)' BY <1>1, RestStays
<1>3. \A e \in Descs : SameShare(proc'[e], proc[e]) BY DEF SameBills, SameBill
<1>4. ASSUME NEW e \in Descs, Paying(proc[e]), NEW s, s = proc[e].serial
      PROVE  /\ proc'[e].held = proc[e].held - Owed(s)[Sys] + Owed(s)'[Sys]
             /\ proc'[e].held <= proc[e].budget
  <2>1. Owed(s)'[Sys] = Owed(s)[Sys] BY <1>1, OwedSame
  <2>2. PICK x \in Nat : x = Owed(s)[Sys] BY <1>1, ValuesAre DEF Values
  <2>3. PICK r \in ProcRecord : r = proc[e]
    BY <1>4 DEF Paying, ProcInv, ProcTypes, ProcTable
  <2>4. r.held \in Nat BY <2>3 DEF ProcRecord
  <2>5. proc'[e].held = proc[e].held BY <1>4 DEF SameBills, SameBill
  <2>6. proc[e].held <= proc[e].budget BY <1>4 DEF BillInv, PaysFor, Balanced
  <2> HIDE DEF Owed
  <2> QED BY <2>1, <2>2, <2>3, <2>4, <2>5, <2>6
<1> HIDE DEF Owed
<1> QED BY <1>1, <1>2, <1>3, <1>4, OwedMoves

\* One process's cost changes, and one fork's.
LEMMA BillsMove ==
  ASSUME ProcInv, ProcInv', BillInv, Numbers, NEW a \in Actors, NEW d \in Descs, lost' = lost,
         \A e \in Descs \ {d} : SameShare(proc'[e], proc[e]),
         \A b \in Actors \ {a} : SameFork(b), ForksFor(a)', PaysFor(d)',
         \A e \in Descs \ {d} : \A s : Paying(proc[e]) /\ s = proc[e].serial =>
           /\ proc'[e].held = proc[e].held - Share(s)[d] - Owed(s)[a]
                              + Share(s)'[d] + Owed(s)'[a]
           /\ proc'[e].held <= proc[e].budget
  PROVE  BillInv'
<1>1. /\ \A l \in lost : LeftFor(l)'
      /\ \A b \in Actors : SameFork(b) => ForksFor(b)'
      /\ \A e \in Descs : SameShare(proc'[e], proc[e]) =>
           \A s \in Range(proc'[e].anc) : Paying(proc'[e]) => Taken(s)'
  BY RestStays
<1>2. ASSUME NEW e \in Descs \ {d}, Paying(proc'[e]) PROVE Balanced(e)'
  <2>1. Paying(proc[e]) /\ SameShare(proc'[e], proc[e]) BY <1>2 DEF SameShare
  <2>2. PICK s : s = proc[e].serial OBVIOUS
  <2>3. /\ proc'[e].held = proc[e].held - Share(s)[d] - Owed(s)[a]
                           + Share(s)'[d] + Owed(s)'[a]
        /\ proc'[e].held <= proc[e].budget
    <3> HIDE DEF Share, Owed, Paying, SameShare
    <3> QED BY <2>1, <2>2
  <2>4. proc'[e].held <= proc'[e].budget BY <2>1, <2>3 DEF SameShare
  <2> HIDE DEF Share, Owed, Balanced, SameShare, SameFork, Paying
  <2> QED BY <2>1, <2>2, <2>3, <2>4, BalanceMoves
<1>3. ASSUME NEW e \in Descs PROVE PaysFor(e)'
  <2>1. CASE e = d BY <2>1
  <2>2. CASE e # d BY <1>1, <1>2, <2>2 DEF PaysFor
  <2> QED BY <2>1, <2>2
<1>4. \A b \in Actors : ForksFor(b)' BY <1>1
<1> QED BY <1>1, <1>3, <1>4 DEF BillInv

\* Who is not at work on a fork, before or after, is as far as charges go as it was.
LEMMA AsideForks ==
  ASSUME ProcInv, NEW a \in Actors, NEW y, NEW j, Changes(a, y, j)
  PROVE  /\ \A b \in Actors \ {a} : SameFork(b)
         /\ pc[a] \notin Forking /\ y \notin Forking => SameFork(a)
BY DEF Changes, SameFork, Forking, Early

LEMMA NumbersKeep ==
  ASSUME ProcInv, next_serial' = next_serial, \A b \in Actors : SameFork(b)
  PROVE  Numbers
<1>1. next_serial \in Nat BY ProcFacts DEF ProcInv, ProcTypes
<1>2. next_serial <= next_serial' BY <1>1
<1> QED BY <1>1, <1>2 DEF Numbers, SameFork

\* What changes of a process besides its charges.
LEMMA SameBillsAre ==
  ASSUME NEW P, NEW Q, NEW R
  PROVE  /\ SameBills(P, P)
         /\ SameBills(P, Q) /\ SameBills(Q, R) => SameBills(P, R)
BY DEF SameBills, SameBill, SameShare

LEMMA BillOne ==
  ASSUME NEW P \in ProcTable, NEW d \in Descs, NEW q, SameBill(q, P[d])
  PROVE  SameBills([P EXCEPT ![d] = q], P)
BY DEF SameBills, SameBill, SameShare, ProcTable

LEMMA FieldsSet ==
  ASSUME NEW P \in ProcTable, NEW d \in Descs, P[d] # Nil
  PROVE  /\ \A n \in Nat : SameBills([P EXCEPT ![d].refs = n], P)
         /\ \A t \in Slots \cup {Nil} : SameBills([P EXCEPT ![d].task = t], P)
         /\ \A c \in BOOLEAN : SameBills([P EXCEPT ![d].collecting = c], P)
         /\ \A w \in BOOLEAN : SameBills([P EXCEPT ![d].waited = w], P)
         /\ \A m \in Mods : SameBills([P EXCEPT ![d].mod = m], P)
<1>1. PICK r \in ProcRecord : r = P[d] BY DEF ProcTable
<1>2. ASSUME NEW q \in ProcRecord, q.state = r.state, q.serial = r.serial, q.anc = r.anc,
             q.foot = r.foot, q.budget = r.budget, q.held = r.held
      PROVE  SameBills([P EXCEPT ![d] = q], P)
  <2>1. SameBill(q, P[d]) BY <1>1, <1>2, ProcFacts DEF SameBill, SameShare, Paying
  <2> QED BY <2>1, BillOne
<1>3. ASSUME NEW n \in Nat PROVE SameBills([P EXCEPT ![d].refs = n], P)
  <2>1. PICK q \in ProcRecord : q = [r EXCEPT !.refs = n] BY <1>1 DEF ProcRecord
  <2>2. /\ q.state = r.state /\ q.serial = r.serial /\ q.anc = r.anc /\ q.foot = r.foot
        /\ q.budget = r.budget /\ q.held = r.held
    BY <2>1 DEF ProcRecord
  <2>3. [P EXCEPT ![d].refs = n] = [P EXCEPT ![d] = q] BY <1>1, <2>1
  <2> QED BY <1>2, <2>2, <2>3
<1>4. ASSUME NEW t \in Slots \cup {Nil} PROVE SameBills([P EXCEPT ![d].task = t], P)
  <2>1. PICK q \in ProcRecord : q = [r EXCEPT !.task = t] BY <1>1 DEF ProcRecord
  <2>2. /\ q.state = r.state /\ q.serial = r.serial /\ q.anc = r.anc /\ q.foot = r.foot
        /\ q.budget = r.budget /\ q.held = r.held
    BY <2>1 DEF ProcRecord
  <2>3. [P EXCEPT ![d].task = t] = [P EXCEPT ![d] = q] BY <1>1, <2>1
  <2> QED BY <1>2, <2>2, <2>3
<1>5. ASSUME NEW c \in BOOLEAN PROVE SameBills([P EXCEPT ![d].collecting = c], P)
  <2>1. PICK q \in ProcRecord : q = [r EXCEPT !.collecting = c] BY <1>1 DEF ProcRecord
  <2>2. /\ q.state = r.state /\ q.serial = r.serial /\ q.anc = r.anc /\ q.foot = r.foot
        /\ q.budget = r.budget /\ q.held = r.held
    BY <2>1 DEF ProcRecord
  <2>3. [P EXCEPT ![d].collecting = c] = [P EXCEPT ![d] = q] BY <1>1, <2>1
  <2> QED BY <1>2, <2>2, <2>3
<1>6. ASSUME NEW w \in BOOLEAN PROVE SameBills([P EXCEPT ![d].waited = w], P)
  <2>1. PICK q \in ProcRecord : q = [r EXCEPT !.waited = w] BY <1>1 DEF ProcRecord
  <2>2. /\ q.state = r.state /\ q.serial = r.serial /\ q.anc = r.anc /\ q.foot = r.foot
        /\ q.budget = r.budget /\ q.held = r.held
    BY <2>1 DEF ProcRecord
  <2>3. [P EXCEPT ![d].waited = w] = [P EXCEPT ![d] = q] BY <1>1, <2>1
  <2> QED BY <1>2, <2>2, <2>3
<1>7. ASSUME NEW m \in Mods PROVE SameBills([P EXCEPT ![d].mod = m], P)
  <2>1. PICK q \in ProcRecord : q = [r EXCEPT !.mod = m] BY <1>1 DEF ProcRecord
  <2>2. /\ q.state = r.state /\ q.serial = r.serial /\ q.anc = r.anc /\ q.foot = r.foot
        /\ q.budget = r.budget /\ q.held = r.held
    BY <2>1 DEF ProcRecord
  <2>3. [P EXCEPT ![d].mod = m] = [P EXCEPT ![d] = q] BY <1>1, <2>1
  <2> QED BY <1>2, <2>2, <2>3
<1> HIDE DEF SameBills
<1> QED BY <1>3, <1>4, <1>5, <1>6, <1>7

\* Forgetting is for those that pay nothing.
LEMMA PrunedBills ==
  ASSUME ProcInv
  PROVE  SameBills(Pruned(Victims), proc)
<1>1. PICK P : P = Pruned(Victims) OBVIOUS
<1>2. /\ \A d \in Victims : proc[d].state = "exited" /\ P[d] = Nil
      /\ \A d \in Descs \ Victims : P[d] = proc[d]
  BY <1>1, PrunedIs
<1>3. \A d \in Descs : SameBill(P[d], proc[d]) BY <1>2 DEF SameBill, SameShare, Paying
<1> QED BY <1>1, <1>3 DEF SameBills

(***************************************************************************)
(* Charging, and what is given back.                                       *)
(***************************************************************************)
LEMMA HeldBill ==
  ASSUME NEW r \in ProcRecord, NEW h \in Nat
  PROVE  LET q == [r EXCEPT !.held = h]
         IN  q.held = h /\ q.anc = r.anc /\ q.foot = r.foot /\ q.serial = r.serial
             /\ q.budget = r.budget /\ SameShare(q, r)
<1>1. PICK q : q = [r EXCEPT !.held = h] OBVIOUS
<1>2. /\ q.serial = r.serial /\ q.state = r.state /\ q.anc = r.anc /\ q.foot = r.foot
      /\ q.budget = r.budget /\ q.held = h
  BY <1>1 DEF ProcRecord
<1>3. q # Nil /\ r # Nil
  <2>1. q \in ProcRecord BY <1>1 DEF ProcRecord
  <2> QED BY <2>1, ProcFacts
<1> QED BY <1>1, <1>2, <1>3 DEF SameShare, Paying

LEMMA ChargedBills ==
  ASSUME NEW P \in ProcTable, NEW anc, NEW bytes \in Nat, NEW d \in Descs
  PROVE  LET Q == Charged(P, anc, bytes)
         IN  /\ SameShare(Q[d], P[d])
             /\ P[d] # Nil => Q[d].held = P[d].held + (IF P[d].serial \in Range(anc)
                                                       THEN bytes ELSE 0)
<1>1. PICK Q : Q = Charged(P, anc, bytes) OBVIOUS
<1>2. CASE P[d] # Nil /\ P[d].serial \in Range(anc)
  <2>1. PICK r \in ProcRecord : r = P[d] BY <1>2 DEF ProcTable
  <2>2. PICK h \in Nat : h = r.held + bytes BY <2>1 DEF ProcRecord
  <2>3. Q[d] = [r EXCEPT !.held = h] BY <1>1, <1>2, <2>1, <2>2 DEF Charged
  <2> QED BY <1>1, <1>2, <2>1, <2>2, <2>3, HeldBill
<1>3. CASE P[d] # Nil /\ P[d].serial \notin Range(anc)
  <2>1. Q[d] = P[d] BY <1>1, <1>3 DEF Charged
  <2>2. P[d].held \in Nat BY <1>3 DEF ProcTable, ProcRecord
  <2> QED BY <1>1, <1>3, <2>1, <2>2 DEF SameShare
<1>4. CASE P[d] = Nil
  <2>1. Q[d] = P[d] BY <1>1, <1>4 DEF Charged
  <2> QED BY <1>1, <1>4, <2>1 DEF SameShare
<1> QED BY <1>2, <1>3, <1>4

LEMMA UnchargedBills ==
  ASSUME NEW P \in ProcTable, NEW anc, NEW bytes \in Nat, NEW d \in Descs
  PROVE  LET Q == Uncharged(P, anc, bytes)
             x == IF P[d].serial \in Range(anc) THEN bytes ELSE 0
         IN  /\ SameShare(Q[d], P[d])
             /\ P[d] # Nil /\ P[d].held >= x => Q[d].held = P[d].held - x
<1>1. PICK Q : Q = Uncharged(P, anc, bytes) OBVIOUS
<1>2. CASE P[d] # Nil /\ P[d].serial \in Range(anc)
  <2>1. PICK r \in ProcRecord : r = P[d] BY <1>2 DEF ProcTable
  <2>2. PICK h \in Nat : h = IF r.held > bytes THEN r.held - bytes ELSE 0
    BY <2>1 DEF ProcRecord
  <2>3. r.held \in Nat BY <2>1 DEF ProcRecord
  <2>4. Q[d] = [r EXCEPT !.held = h] BY <1>1, <1>2, <2>1, <2>2 DEF Uncharged
  <2>5. Q[d].held = h /\ SameShare(Q[d], P[d]) BY <2>1, <2>4, HeldBill
  <2>6. r.held >= bytes => h = r.held - bytes BY <2>2, <2>3
  <2> QED BY <1>1, <1>2, <2>1, <2>5, <2>6
<1>3. CASE P[d] # Nil /\ P[d].serial \notin Range(anc)
  <2>1. Q[d] = P[d] BY <1>1, <1>3 DEF Uncharged
  <2>2. P[d].held \in Nat BY <1>3 DEF ProcTable, ProcRecord
  <2> QED BY <1>1, <1>3, <2>1, <2>2 DEF SameShare
<1>4. CASE P[d] = Nil
  <2>1. Q[d] = P[d] BY <1>1, <1>4 DEF Uncharged
  <2> QED BY <1>1, <1>4, <2>1 DEF SameShare
<1> QED BY <1>2, <1>3, <1>4

LEMMA EndedBills ==
  ASSUME NEW P \in ProcTable, NEW d \in Descs, P[d] # Nil
  PROVE  LET Q == Ended(P, d)
             U == Uncharged(P, P[d].anc, P[d].foot)
         IN  ~Paying(Q[d]) /\ \A e \in Descs \ {d} : Q[e] = U[e]
<1>1. P[d].foot \in Nat BY DEF ProcTable, ProcRecord
<1>2. PICK U \in ProcTable : U = Uncharged(P, P[d].anc, P[d].foot) BY <1>1, UnchargedIs
<1>3. PICK Q : Q = Ended(P, d) OBVIOUS
<1>4. Q[d].state = "exited" BY <1>3, EndedIs
<1>5. \A e \in Descs \ {d} : Q[e] = U[e] BY <1>2, <1>3 DEF Ended, ProcTable
<1> QED BY <1>2, <1>3, <1>4, <1>5 DEF Paying

\* What is charged to a process, it holds.
LEMMA HeldCovers ==
  ASSUME ProcInv, BillInv, NEW e \in Descs, Paying(proc[e]), NEW s, s = proc[e].serial
  PROVE  /\ proc[e].held \in Nat /\ proc[e].held <= proc[e].budget /\ proc[e].budget \in Nat
         /\ \A d \in Descs, a \in Actors : proc[e].held >= Share(s)[d] + Owed(s)[a]
         /\ \A d \in Descs : Share(s)[d] \in Nat
         /\ \A a \in Actors : Owed(s)[a] \in Nat
<1>1. PICK r \in ProcRecord : r = proc[e] BY DEF Paying, ProcInv, ProcTypes, ProcTable
<1>2. r.held \in Nat /\ r.foot \in Nat /\ r.budget \in Nat BY <1>1 DEF ProcRecord
<1>3. proc[e].held = proc[e].foot + Charge(s) /\ proc[e].held <= proc[e].budget
  BY DEF BillInv, PaysFor, Balanced
<1>4. PICK f, g, L : f = Share(s) /\ g = Owed(s) /\ L = Left(s) OBVIOUS
<1>5. /\ \A d \in Descs : f[d] \in Nat
      /\ \A a \in Actors : g[a] \in Nat
  BY <1>4, ValuesAre DEF Values
<1>6. IsFiniteSet(lost) /\ \A l \in lost : L[l] \in Nat BY <1>4, LeftIs
<1>7. PICK x \in Nat : x = SumFunctionOnSet(L, lost) BY <1>6, SumOne
<1>8. IsFiniteSet(Descs) /\ IsFiniteSet(Actors) BY ProcFacts
<1>9. ASSUME NEW d \in Descs, NEW a \in Actors PROVE proc[e].held >= f[d] + g[a]
  <2>1. PICK F \in Nat : F = SumFunctionOnSet(f, Descs) /\ F >= f[d]
    BY <1>5, <1>8, SumTurns
  <2>2. PICK G \in Nat : G = SumFunctionOnSet(g, Actors) /\ G >= g[a]
    BY <1>5, <1>8, SumTurns
  <2>3. Charge(s) = F + G + x BY <1>4, <1>7, <2>1, <2>2 DEF Charge
  <2>4. f[d] \in Nat /\ g[a] \in Nat BY <1>5
  <2> HIDE DEF Charge, Share, Owed
  <2> QED BY <1>1, <1>2, <1>3, <1>7, <2>1, <2>2, <2>3, <2>4
<1> HIDE DEF Share, Owed
<1> QED BY <1>1, <1>2, <1>3, <1>4, <1>5, <1>9

(***************************************************************************)
(* The steps that charge nobody.                                           *)
(***************************************************************************)
LEMMA AsideBills ==
  ASSUME ProcInv, ProcInv', BillInv, NEW a \in Actors, NEW y, NEW j, Changes(a, y, j),
         lost' = lost, next_serial' = next_serial, SameBills(proc', proc), SameFork(a)
  PROVE  BillInv'
<1>1. \A b \in Actors : SameFork(b) BY AsideForks
<1>2. Numbers BY <1>1, NumbersKeep
<1> QED BY <1>1, <1>2, SteadyKeeps

LEMMA PassBills ==
  ASSUME ProcInv, ProcInv', BillInv, NEW a \in Actors, NEW y, pc' = [pc EXCEPT ![a] = y],
         lost' = lost, next_serial' = next_serial, SameBills(proc', proc),
         \/ pc[a] \notin Forking /\ y \notin Forking
            /\ (job' = job \/ \E j : job' = [job EXCEPT ![a] = j])
         \/ pc[a] \in Forking /\ y \in Forking /\ job' = job
            /\ (y \in Early => pc[a] \in Early)
  PROVE  BillInv'
<1>1. PICK j : job' = [job EXCEPT ![a] = j] \/ (job' = job /\ j = job[a]) OBVIOUS
<1>2. Changes(a, y, j) BY <1>1, Changing
<1>3. SameFork(a) BY <1>2 DEF Changes, SameFork, Forking, Early
<1> QED BY <1>2, <1>3, AsideBills

LEMMA ForkGoesOnBills ==
  ASSUME ProcInv, ProcInv', BillInv, NEW a \in Actors, ForkAdmitted(a) \/ ForkRefused(a)
  PROVE  BillInv'
<1>1. PICK y \in {"insert", "refuse"} : pc' = [pc EXCEPT ![a] = y] /\ pc[a] \in Early
  BY DEF ForkAdmitted, ForkRefused, Goes, Early
<1>2. job' = job /\ proc' = proc /\ lost' = lost /\ next_serial' = next_serial
  BY DEF ForkAdmitted, ForkRefused, table, issued
<1>3. pc[a] \in Forking /\ y \in Forking BY <1>1 DEF Forking, Early
<1> QED BY <1>1, <1>2, <1>3, SameBillsAre, PassBills

\* The number spent by a fork that is not let start.
LEMMA ForkOverBudgetBills ==
  ASSUME ProcInv, ProcInv', BillInv, NEW a \in Actors, NEW m \in Mods, ForkOverBudget(a, m)
  PROVE  BillInv'
<1>1. /\ pc' = pc /\ job' = job /\ lost' = lost /\ next_serial' = next_serial
      /\ proc' = Pruned(Victims)
  BY DEF ForkOverBudget
<1>2. Changes(a, pc[a], job[a]) /\ SameFork(a) BY <1>1 DEF Changes, SameFork
<1> QED BY <1>1, <1>2, PrunedBills, AsideBills

LEMMA IdleBills ==
  ASSUME ProcInv, ProcInv', BillInv, NEW a \in Actors, Undo(a) \/ WaitWhy(a)
  PROVE  BillInv'
<1>1. /\ pc' = [pc EXCEPT ![a] = "idle"] /\ job' = [job EXCEPT ![a] = NoJob]
      /\ proc' = proc /\ lost' = lost /\ next_serial' = next_serial
      /\ pc[a] \notin Forking
  BY DEF Undo, WaitWhy, Idles, Goes, table, issued, Forking
<1>2. "idle" \notin Forking BY DEF Forking
<1> QED BY <1>1, <1>2, SameBillsAre, PassBills

LEMMA ThreadBills ==
  ASSUME ProcInv, ProcInv', BillInv, NEW t \in Slots,
         \/ \E m \in Mods : ChainLinked(t, m)
         \/ \E swapped \in ChainEnds : ChainRefused(t, swapped)
         \/ ChainSwapped(t) \/ Exit(t)
  PROVE  BillInv'
<1>1. PICK y \in {"chain", "swap", "exit"} :
        pc' = [pc EXCEPT ![t] = y] /\ pc[t] \in {"idle", "chain", "swap"}
  BY DEF ChainLinked, ChainSwapped, ChainRefused, Exit, Goes
<1>2. /\ proc' = proc /\ lost' = lost /\ next_serial' = next_serial
      /\ job' = job \/ \E j : job' = [job EXCEPT ![t] = j]
  BY DEF ChainLinked, ChainSwapped, ChainRefused, Exit, table, issued
<1>3. y \notin Forking /\ pc[t] \notin Forking BY <1>1 DEF Forking
<1>4. t \in Actors BY ProcFacts
<1> QED BY <1>1, <1>2, <1>3, <1>4, SameBillsAre, PassBills

LEMMA ChainedBills ==
  ASSUME ProcInv, ProcInv', BillInv, NEW t \in Slots, Chained(t)
  PROVE  BillInv'
<1>1. /\ pc[t] = "swap" /\ pc' = [pc EXCEPT ![t] = "idle"] /\ job' = [job EXCEPT ![t] = NoJob]
      /\ lost' = lost /\ next_serial' = next_serial /\ t \in Actors
  BY ProcFacts DEF Chained, Idles, Goes, issued
<1>2. thread[t] = "live" BY <1>1 DEF ProcInv, Places, ThreadsSound
<1>3. PICK d \in Descs : d = body[t] /\ proc[d] # Nil BY <1>1, <1>2, ThreadsRun
<1>4. PICK k \in Mods : k = job[t].mod BY <1>1 DEF ProcInv, Places, ModsSound
<1>5. proc' = [proc EXCEPT ![d].mod = k] BY <1>3, <1>4 DEF Chained
<1>6. SameBills(proc', proc) BY <1>3, <1>5, FieldsSet DEF ProcInv, ProcTypes
<1>7. "swap" \notin Forking /\ "idle" \notin Forking BY DEF Forking
<1> QED BY <1>1, <1>6, <1>7, PassBills

LEMMA ForkStartedBills ==
  ASSUME ProcInv, ProcInv', BillInv, NEW a \in Actors, NEW t \in Slots, ForkStarted(a, t)
  PROVE  BillInv'
<1>1. ProcTypes /\ t \in Actors BY ProcFacts DEF ProcInv
<1>2. PICK d \in Descs : d = job[a].desc /\ proc[d] # Nil
  BY DEF ForkStarted, ProcInv, Places, MakersSound
<1>3. /\ pc[a] = "create" /\ pc[t] = "none" /\ pc'[a] = "idle" /\ pc'[t] = "idle"
      /\ \A b \in Actors \ {a, t} : pc'[b] = pc[b] /\ job'[b] = job[b]
      /\ proc' = [proc EXCEPT ![d].task = t] /\ next_serial' = next_serial /\ lost' = lost
  BY <1>1, <1>2, KindsHold DEF ForkStarted, ProcTypes, ProcInv, Places, ThreadsSound, issued
<1>4. SameBills(proc', proc) BY <1>1, <1>2, <1>3, FieldsSet DEF ProcTypes
<1>5. \A b \in Actors : SameFork(b) BY <1>3 DEF SameFork, Forking, Early
<1>6. Numbers BY <1>3, <1>5, NumbersKeep
<1> QED BY <1>3, <1>4, <1>5, <1>6, SteadyKeeps

\* A hold is let go.
LEMMA LessBills ==
  ASSUME NEW P \in ProcTable, NEW d \in Descs, P[d] # Nil
  PROVE  SameBills([P EXCEPT ![d].refs = IF @ > 0 THEN @ - 1 ELSE 0], P)
<1>1. P[d] \in ProcRecord BY DEF ProcTable
<1>2. PICK n \in Nat : n = Less(P[d].refs) BY <1>1 DEF Less, ProcRecord
<1>3. [P EXCEPT ![d].refs = IF @ > 0 THEN @ - 1 ELSE 0] = [P EXCEPT ![d].refs = n]
  BY <1>2 DEF Less
<1> QED BY <1>2, <1>3, FieldsSet

LEMMA BuryBills ==
  ASSUME ProcInv, ProcInv', BillInv, NEW t \in Slots, Bury(t)
  PROVE  BillInv'
<1>1. ProcTypes /\ t \in Actors BY ProcFacts DEF ProcInv
<1>2. PICK d \in Descs : d = body[t] /\ proc[d] # Nil
  BY <1>1, ProcFacts, KindsHold
  DEF Bury, Goes, ProcKinds, ProcInv, Places, ThreadsSound
<1>3. /\ pc[t] = "bury" /\ pc' = [pc EXCEPT ![t] = "none"] /\ job' = job /\ lost' = lost
      /\ proc' = [proc EXCEPT ![d].refs = IF @ > 0 THEN @ - 1 ELSE 0]
      /\ next_serial' = next_serial
  BY <1>1, <1>2 DEF Bury, Goes, issued
<1>4. SameBills(proc', proc) BY <1>1, <1>2, <1>3, LessBills DEF ProcTypes
<1>5. "bury" \notin Forking /\ "none" \notin Forking BY DEF Forking
<1> QED BY <1>1, <1>3, <1>4, <1>5, PassBills

LEMMA ReapBills ==
  ASSUME ProcInv, ProcInv', BillInv, NEW a \in Actors, Reap(a)
  PROVE  BillInv'
<1>1. proc \in ProcTable BY DEF ProcInv, ProcTypes
<1>2. PICK d \in Descs : d = job[a].desc /\ proc[d] # Nil
  BY InHand DEF Reap, Goes, HoldingPoints
<1>3. PICK y : y = job[a].back OBVIOUS
<1>4. /\ pc[a] = "reap" /\ pc' = [pc EXCEPT ![a] = y] /\ lost' = lost
      /\ proc' = [proc EXCEPT ![d].refs = IF @ > 0 THEN @ - 1 ELSE 0]
      /\ next_serial' = next_serial
      /\ \E j : job' = [job EXCEPT ![a] = j]
  BY <1>2, <1>3 DEF Reap, Goes, issued
<1>5. y \in {"wait", "watch"}
  BY <1>3, <1>4 DEF ProcInv, Places, BuriersApart, Undertaking
<1>6. SameBills(proc', proc) BY <1>1, <1>2, <1>4, LessBills
<1>7. "reap" \notin Forking /\ y \notin Forking BY <1>5 DEF Forking
<1> QED BY <1>4, <1>6, <1>7, PassBills

LEMMA HoldBills ==
  ASSUME ProcInv, ProcInv', BillInv, NEW a \in Actors, NEW d \in Listed,
         NEW x \in {"wait", "kill"}, Hold(a, d, x)
  PROVE  BillInv'
<1>1. proc \in ProcTable /\ d \in Descs /\ proc[d] # Nil BY DEF ProcInv, ProcTypes, Listed
<1>2. PICK r \in ProcRecord : r = proc[d] BY <1>1 DEF ProcTable
<1>3. PICK n \in Nat : n = proc[d].refs + 1 BY <1>2 DEF ProcRecord
<1>4. \E j : job' = [job EXCEPT ![a] = j] BY DEF Hold
<1>5. /\ pc[a] = "idle" /\ pc' = [pc EXCEPT ![a] = x]
      /\ proc' = [proc EXCEPT ![d].refs = n]
      /\ lost' = lost /\ next_serial' = next_serial
  BY <1>3 DEF Hold, Goes, issued
<1>6. SameBills(proc', proc) BY <1>1, <1>5, FieldsSet
<1>7. "idle" \notin Forking /\ x \notin Forking BY DEF Forking
<1> QED BY <1>4, <1>5, <1>6, <1>7, PassBills

LEMMA DropBills ==
  ASSUME ProcInv, ProcInv', BillInv, NEW a \in Actors,
         WaitAnswered(a) \/ WaitTimedOut(a) \/ KillGivesUp(a) \/ Killed(a)
  PROVE  BillInv'
<1>1. proc \in ProcTable BY DEF ProcInv, ProcTypes
<1>2. /\ pc[a] \in {"wait", "kill", "watch"} /\ lost' = lost /\ next_serial' = next_serial
  BY DEF WaitAnswered, WaitTimedOut, KillGivesUp, Killed, Goes, Idles, issued
<1>3. PICK d \in Descs : d = job[a].desc /\ proc[d] # Nil
  BY <1>2, InHand DEF HoldingPoints
<1>4. PICK P : P = Dropped(d) OBVIOUS
<1>5. P \in ProcTable /\ P[d] # Nil BY <1>1, <1>3, <1>4, LessIs DEF Dropped, Sets
<1>6. SameBills(P, proc) BY <1>1, <1>3, <1>4, LessBills DEF Dropped
<1>7. SameBills(proc', proc)
  <2>1. CASE proc' = P BY <1>6, <2>1
  <2>2. CASE proc' = [P EXCEPT ![d].waited = TRUE]
    <3>1. SameBills(proc', P) BY <1>5, <2>2, FieldsSet
    <3> QED BY <1>6, <3>1, SameBillsAre
  <2> QED BY <1>3, <1>4, <2>1, <2>2
      DEF WaitAnswered, WaitTimedOut, KillGivesUp, Killed
<1>8. PICK y \in {"why", "idle"} :
        pc' = [pc EXCEPT ![a] = y] /\ (job' = job \/ \E j : job' = [job EXCEPT ![a] = j])
  BY DEF WaitAnswered, WaitTimedOut, KillGivesUp, Killed, Idles, Goes
<1>9. pc[a] \notin Forking /\ y \notin Forking BY <1>2 DEF Forking
<1> QED BY <1>2, <1>7, <1>8, <1>9, PassBills

LEMMA ClaimBills ==
  ASSUME ProcInv, ProcInv', BillInv, NEW a \in Actors, pc[a] \in {"wait", "funeral"},
         NEW back, Claimed(a, job[a].desc, back), lost' = lost, next_serial' = next_serial
  PROVE  BillInv'
<1>1. PICK d \in Descs : d = job[a].desc /\ proc[d] # Nil
  BY InHand DEF HoldingPoints
<1>2. proc \in ProcTable BY DEF ProcInv, ProcTypes
<1>3. /\ pc' = [pc EXCEPT ![a] = "collect"] /\ \E j : job' = [job EXCEPT ![a] = j]
      /\ proc' = [proc EXCEPT ![d].collecting = TRUE]
  BY <1>1 DEF Claimed
<1>4. SameBills(proc', proc) BY <1>1, <1>2, <1>3, FieldsSet
<1>5. pc[a] \notin Forking /\ "collect" \notin Forking BY DEF Forking
<1> QED BY <1>3, <1>4, <1>5, PassBills

LEMMA FuneralBills ==
  ASSUME ProcInv, ProcInv', BillInv, NEW a \in Actors, WaitCollects(a) \/ KillFuneral(a)
  PROVE  BillInv'
<1>1. lost' = lost /\ next_serial' = next_serial /\ pc[a] \in {"wait", "funeral"}
  BY DEF WaitCollects, KillFuneral, issued
<1>2. ASSUME NEW back, Claimed(a, job[a].desc, back) PROVE BillInv' BY <1>1, <1>2, ClaimBills
<1>3. CASE Goes(a, "funeral", "watch") /\ UNCHANGED <<proc, job>>
  <2>1. "funeral" \notin Forking /\ "watch" \notin Forking BY DEF Forking
  <2> QED BY <1>1, <1>3, <2>1, SameBillsAre, PassBills DEF Goes
<1> QED BY <1>2, <1>3 DEF WaitCollects, KillFuneral

(***************************************************************************)
(* The steps that charge, or give back.                                    *)
(***************************************************************************)
LEMMA NumbersGo ==
  ASSUME ProcInv, NEW a \in Actors, NEW y, NEW j, Changes(a, y, j),
         \/ y \notin Early /\ next_serial' = next_serial
         \/ j.serial = next_serial /\ next_serial' = next_serial + 1
  PROVE  Numbers
<1>1. next_serial \in Nat BY ProcFacts DEF ProcInv, ProcTypes
<1>2. next_serial' \in Nat /\ next_serial <= next_serial' BY <1>1
<1>3. \A b \in Actors : pc'[b] \in Early =>
        \/ pc[b] \in Early /\ job'[b].serial = job[b].serial
        \/ job'[b].serial = next_serial
  BY DEF Changes
<1> QED BY <1>1, <1>2, <1>3 DEF Numbers

LEMMA RefuseBills ==
  ASSUME ProcInv, ProcInv', BillInv, NEW a \in Actors, Refuse(a)
  PROVE  BillInv'
<1>1. proc \in ProcTable BY DEF ProcInv, ProcTypes
<1>2. /\ pc[a] = "refuse" /\ pc' = [pc EXCEPT ![a] = "undo"] /\ job' = job /\ lost' = lost
      /\ next_serial' = next_serial
  BY DEF Refuse, Goes, issued
<1>3. PICK anc : anc = job[a].anc OBVIOUS
<1>4. PICK bytes \in Nat : bytes = Foot[job[a].mod]
  BY <1>2, ProcFacts DEF ProcInv, Places, ModsSound, Forking
<1>5. proc' = Uncharged(proc, anc, bytes) BY <1>3, <1>4 DEF Refuse
<1>6. Changes(a, "undo", job[a]) BY <1>2, Changing
<1>7. (\A b \in Actors \ {a} : SameFork(b)) /\ Numbers
  BY <1>2, <1>6, AsideForks, NumbersGo DEF Early
<1>8. ForksFor(a)' BY <1>6 DEF Changes, ForksFor, Forking, Early
<1>9. \A e \in Descs : SameShare(proc'[e], proc[e]) BY <1>1, <1>5, UnchargedBills
<1>10. ASSUME NEW e \in Descs, NEW s, Paying(proc[e]), s = proc[e].serial
       PROVE  /\ proc'[e].held = proc[e].held - Owed(s)[a] + Owed(s)'[a]
              /\ proc'[e].held <= proc[e].budget
  <2>1. PICK x \in Nat : x = Owed(s)[a] BY ValuesAre DEF Values
  <2>2. x = IF s \in Range(anc) THEN bytes ELSE 0
    BY <1>2, <1>3, <1>4, <2>1 DEF Owed, Forking
  <2>3. Owed(s)'[a] = 0 BY <1>6 DEF Changes, Owed, Forking
  <2>4. PICK h \in Nat : h = proc[e].held BY <1>10, HeldCovers
  <2>5. PICK z \in Nat : z = Share(s)[e] /\ h >= z + x
    BY <1>10, <2>1, <2>4, HeldCovers
  <2>6. h >= x BY <2>5
  <2>7. proc'[e].held = h - x
    BY <1>1, <1>5, <1>10, <2>2, <2>4, <2>6, UnchargedBills DEF Paying
  <2>8. h <= proc[e].budget /\ proc[e].budget \in Nat BY <1>10, <2>4, HeldCovers
  <2> HIDE DEF Owed
  <2> QED BY <2>1, <2>3, <2>4, <2>6, <2>7, <2>8
<1> HIDE DEF Owed
<1> QED BY <1>2, <1>7, <1>8, <1>9, <1>10, OwedMoves

\* Whoever a fork is charged to is in the table, or was.
LEMMA AncestorsTaken ==
  ASSUME ProcInv, BillInv, NEW a
  PROVE  \A s \in Range(Ancestors(a)) : Taken(s)
<1>1. PICK p : p = Current(a) OBVIOUS
<1>2. CASE p = Nil \/ proc[p].state = "exited"
  <2>1. Ancestors(a) = <<>> BY <1>1, <1>2 DEF Ancestors
  <2> QED BY <2>1 DEF Range
<1>3. CASE ~(p = Nil \/ proc[p].state = "exited")
  <2>1. PICK r \in ProcRecord : r = proc[p] /\ p \in Descs BY <1>1, <1>3, CurrentIs
  <2>2. PICK S : S = {s \in 1..MaxSerial : Taken(s)} OBVIOUS
  <2>3. r.serial \in S
    <3>1. r.serial \in 1..MaxSerial BY <2>1 DEF ProcRecord
    <3>2. r.serial < next_serial BY <2>1, ProcFacts DEF ProcInv, Places, SerialsApart
    <3>3. ASSUME NEW b \in Actors, pc[b] \in Early PROVE job[b].serial # r.serial
      BY <2>1, <3>3, ProcFacts DEF ProcInv, Places, ForksSound, Early
    <3>4. r.serial \in Nat BY <3>1, ProcFacts
    <3> QED BY <2>2, <3>1, <3>2, <3>3, <3>4 DEF Taken
  <2>4. PICK q \in Seq(S) : q = r.anc
    <3>1. r.anc \in Charges BY <2>1 DEF ProcRecord
    <3>2. PICK q \in Seq(1..MaxSerial) : q = r.anc
      BY <3>1, ProcFacts DEF Charges, BoundedSeq, SeqOf
    <3>3. PICK k \in Nat : k = Len(q) /\ q \in [1..k -> 1..MaxSerial]
      <4>1. PICK T : T = 1..MaxSerial OBVIOUS
      <4>2. q \in Seq(T) BY <4>1
      <4>3. Len(q) \in Nat /\ q \in [1..Len(q) -> T] BY <4>2
      <4> QED BY <4>1, <4>3
    <3>4. Paying(r) BY <1>3, <2>1, KindsHold, ProcFacts DEF Paying, ProcKinds
    <3>5. \A s \in Range(q) : Taken(s) BY <2>1, <3>2, <3>4 DEF BillInv, PaysFor
    <3>6. \A i \in 1..k : q[i] \in S BY <2>2, <3>3, <3>5 DEF Range
    <3>7. q \in Seq(S) BY <3>3, <3>6
    <3> QED BY <3>2, <3>7
  <2>5. PICK all \in Seq(S) : all = <<r.serial>> \o q
    <3>1. <<r.serial>> \in Seq(S) BY <2>3
    <3>2. <<r.serial>> \o q \in Seq(S) BY <2>4, <3>1
    <3> QED BY <3>2
  <2>6. PICK k \in Nat : k = Len(all) /\ DOMAIN all = 1..k BY <2>5
  <2>7. Min({k, MaxAncestors}) = IF k <= MaxAncestors THEN k ELSE MaxAncestors
    BY LeastOfTwo, ProcFacts
  <2>8. PICK n \in Nat : n = Min({Len(all), MaxAncestors}) /\ n <= k BY <2>6, <2>7, ProcFacts
  <2>9. Ancestors(a) = SubSeq(all, 1, n)
    BY <1>1, <1>3, <2>1, <2>4, <2>5, <2>8 DEF Ancestors
  <2>10. SubSeq(all, 1, n) \in [1..n -> S] BY <2>6, <2>8, CutIs
  <2> QED BY <2>2, <2>9, <2>10 DEF Range
<1> QED BY <1>2, <1>3

LEMMA ForkChargedBills ==
  ASSUME ProcInv, ProcInv', BillInv, NEW a \in Actors, NEW m \in Mods, ForkCharged(a, m)
  PROVE  BillInv'
<1>1. PICK P \in ProcTable : P = Pruned(Victims) BY PrunedIs
<1>2. PICK anc : anc = Ancestors(a) OBVIOUS
<1>3. PICK bytes \in Nat : bytes = Foot[m] BY ProcFacts
<1>4. PICK pid : pid = NextPid(Victims) OBVIOUS
<1>5. PICK j : j = [NoJob EXCEPT !.pid = pid, !.serial = next_serial, !.anc = anc, !.mod = m]
  OBVIOUS
<1>6. j.mod = m /\ j.serial = next_serial /\ j.anc = anc BY <1>5 DEF NoJob
<1>7. /\ pc[a] = "idle" /\ pc' = [pc EXCEPT ![a] = "claim"] /\ job' = [job EXCEPT ![a] = j]
      /\ lost' = lost /\ next_serial' = next_serial + 1
      /\ proc' = Charged(P, anc, bytes)
      /\ Foot[m] <= Budget[m] /\ ~WouldOverdraw(anc, bytes)
  BY <1>1, <1>2, <1>3, <1>4, <1>5 DEF ForkCharged, Goes
<1>8. Changes(a, "claim", j) BY <1>7, Changing
<1>9. (\A b \in Actors \ {a} : SameFork(b)) /\ Numbers
  BY <1>6, <1>7, <1>8, AsideForks, NumbersGo
<1>10. \A s \in Range(anc) : Taken(s) /\ Taken(s)'
  BY <1>2, <1>9, AncestorsTaken, TakenStays
<1>11. ForksFor(a)' BY <1>6, <1>7, <1>8, <1>10 DEF Changes, ForksFor
<1>12. SameBills(P, proc) BY <1>1, PrunedBills
<1>13. ASSUME NEW e \in Descs
       PROVE  /\ SameShare(proc'[e], proc[e])
              /\ Paying(proc[e]) => proc'[e].held = proc[e].held
                   + (IF proc[e].serial \in Range(anc) THEN bytes ELSE 0)
  <2>1. SameShare(proc'[e], P[e]) BY <1>7, ChargedBills
  <2>2. SameShare(P[e], proc[e]) /\ (Paying(proc[e]) => P[e].held = proc[e].held)
    BY <1>12 DEF SameBills, SameBill
  <2>3. SameShare(proc'[e], proc[e]) BY <2>1, <2>2 DEF SameShare
  <2>4. ASSUME Paying(proc[e])
        PROVE  proc'[e].held = proc[e].held
                   + (IF proc[e].serial \in Range(anc) THEN bytes ELSE 0)
    <3>1. P[e] # Nil /\ P[e].serial = proc[e].serial BY <2>2, <2>4 DEF SameShare, Paying
    <3>2. proc'[e].held = P[e].held + (IF P[e].serial \in Range(anc) THEN bytes ELSE 0)
      BY <1>7, <3>1, ChargedBills
    <3> QED BY <2>2, <2>4, <3>1, <3>2
  <2> QED BY <2>3, <2>4
<1>14. ASSUME NEW e \in Descs, NEW s, Paying(proc[e]), s = proc[e].serial
       PROVE  /\ proc'[e].held = proc[e].held - Owed(s)[a] + Owed(s)'[a]
              /\ proc'[e].held <= proc[e].budget
  <2>1. Owed(s)[a] = 0 BY <1>7 DEF Owed, Forking
  <2>2. Owed(s)'[a] = IF s \in Range(anc) THEN bytes ELSE 0
    BY <1>3, <1>6, <1>8 DEF Changes, Owed, Forking
  <2>3. PICK x \in Nat : x = IF s \in Range(anc) THEN bytes ELSE 0 OBVIOUS
  <2>4. proc'[e].held = proc[e].held + x BY <1>13, <1>14, <2>3
  <2>5. PICK h \in Nat : h = proc[e].held BY <1>14, HeldCovers
  <2>6. PICK u \in Nat : u = proc[e].budget /\ h <= u BY <1>14, <2>5, HeldCovers
  <2>7. h + x <= u
    <3>1. CASE s \in Range(anc)
      <4>1. e \in Living BY <1>14 DEF Living, Listed, Paying
      <4>2. ~(h + bytes > u) BY <1>7, <1>14, <2>5, <2>6, <3>1, <4>1 DEF WouldOverdraw
      <4> QED BY <2>3, <3>1, <4>2
    <3>2. CASE s \notin Range(anc) BY <2>3, <2>6, <3>2
    <3> QED BY <3>1, <3>2
  <2> HIDE DEF Owed
  <2> QED BY <2>1, <2>2, <2>3, <2>4, <2>5, <2>6, <2>7
<1> HIDE DEF Owed
<1> QED BY <1>7, <1>9, <1>11, <1>13, <1>14, OwedMoves

\* A process that has just been put in the table is charged with itself alone.
LEMMA ForkInsertedBills ==
  ASSUME ProcInv, ProcInv', BillInv, NEW a \in Actors, NEW d \in Descs, ForkInserted(a, d)
  PROVE  BillInv'
<1>1. PICK b \in JobRecord : b = job[a] BY DEF ProcInv, ProcTypes
<1>2. PICK r : r = [pid |-> b.pid, serial |-> b.serial, parent |-> Parent(a), task |-> Nil,
                    mod |-> b.mod, state |-> "active", anc |-> b.anc, foot |-> Foot[b.mod],
                    held |-> Foot[b.mod], budget |-> Budget[b.mod], refs |-> 1,
                    collecting |-> FALSE, waited |-> FALSE]
  OBVIOUS
<1>3. /\ proc[d] = Nil /\ pc[a] = "insert" /\ proc' = [proc EXCEPT ![d] = r]
      /\ lost' = lost /\ next_serial' = next_serial
  BY <1>1, <1>2 DEF ForkInserted, Goes, issued
<1>4. PICK j : j = [b EXCEPT !.desc = d] OBVIOUS
<1>5. pc' = [pc EXCEPT ![a] = "create"] /\ job' = [job EXCEPT ![a] = j]
  BY <1>1, <1>4 DEF ForkInserted, Goes, ProcInv, ProcTypes
<1>6. Changes(a, "create", j) BY <1>5, Changing
<1>7. (\A c \in Actors \ {a} : SameFork(c)) /\ Numbers
  BY <1>3, <1>6, AsideForks, NumbersGo DEF Early
<1>8. ForksFor(a)' BY <1>6 DEF Changes, ForksFor, Forking, Early
<1>9. PICK n \in Nat : n = Foot[b.mod] /\ b.mod \in Mods
  BY <1>1, <1>3, ProcFacts DEF ProcInv, Places, ModsSound, Forking
<1>10. proc'[d] = r /\ \A e \in Descs \ {d} : proc'[e] = proc[e]
  BY <1>3 DEF ProcInv, ProcTypes, ProcTable
<1>11. Paying(r)
  <2>1. b.pid \in 1..MaxPid /\ b.serial \in 1..MaxSerial
    BY <1>1, <1>3 DEF ProcInv, Places, ModsSound, ForksSound, Forking
  <2>2. b.anc \in Charges BY DEF JobRecord
  <2>3. r \in ProcRecord BY <1>2, <1>9, <2>1, <2>2, ParentIs, ProcFacts DEF ProcRecord
  <2> QED BY <1>2, <2>3, ProcFacts DEF Paying
<1>12. r.serial = b.serial /\ r.anc = b.anc /\ r.foot = n /\ r.held = n
       /\ r.budget = Budget[b.mod]
  BY <1>2, <1>9
<1>13. /\ \A s \in Range(b.anc) : Taken(s) /\ Taken(s)'
       /\ n <= Budget[b.mod]
  BY <1>1, <1>3, <1>7, <1>9, TakenStays DEF BillInv, ForksFor, Forking, Early
<1>14. PaysFor(d)'
  <2>1. PICK S : S = b.serial OBVIOUS
  <2>2. ~Taken(S) BY <1>1, <1>3, <2>1 DEF Taken, Early
  <2>3. ASSUME NEW e \in Descs PROVE Share(S)'[e] = 0
    <3>1. CASE e = d
      <4>1. S \notin Range(r.anc) BY <1>12, <1>13, <2>2
      <4> QED BY <1>10, <3>1, <4>1 DEF Share
    <3>2. CASE e # d
      <4>1. proc'[e] = proc[e] BY <1>10, <3>2
      <4>2. ~(Paying(proc[e]) /\ S \in Range(proc[e].anc)) BY <2>2 DEF BillInv, PaysFor
      <4> QED BY <4>1, <4>2 DEF Share
    <3> QED BY <3>1, <3>2
  <2>4. ASSUME NEW c \in Actors PROVE Owed(S)'[c] = 0
    <3>1. CASE c = a BY <1>6, <3>1 DEF Changes, Owed, Forking
    <3>2. CASE c # a
      <4>1. Owed(S)'[c] = Owed(S)[c] BY <1>7, <3>2, OwedSame
      <4>2. ~(pc[c] \in Forking /\ S \in Range(job[c].anc)) BY <2>2 DEF BillInv, ForksFor
      <4> QED BY <4>1, <4>2 DEF Owed
    <3> QED BY <3>1, <3>2
  <2>5. ASSUME NEW l \in lost PROVE Left(S)[l] = 0 BY <2>2 DEF BillInv, LeftFor, Left
  <2>6. Charge(S)' = 0
    <3>1. PICK f, g, L : f = Share(S)' /\ g = Owed(S)' /\ L = Left(S) OBVIOUS
    <3>2. IsFiniteSet(Descs) /\ IsFiniteSet(Actors) /\ IsFiniteSet(lost)
      BY ProcFacts DEF ProcInv, ProcTypes
    <3>3. /\ \A e \in Descs : f[e] = 0
          /\ \A c \in Actors : g[c] = 0
          /\ \A l \in lost : L[l] = 0
      BY <2>3, <2>4, <2>5, <3>1
    <3>4. /\ SumFunctionOnSet(f, Descs) = 0 /\ SumFunctionOnSet(g, Actors) = 0
          /\ SumFunctionOnSet(L, lost) = 0
      BY <3>2, <3>3, SumZero
    <3>5. Left(S)' = L BY <1>3, <3>1 DEF Left
    <3>6. /\ SumFunctionOnSet(Share(S)', Descs) = 0 /\ SumFunctionOnSet(Owed(S)', Actors) = 0
          /\ SumFunctionOnSet(Left(S)', lost') = 0
      BY <1>3, <3>1, <3>4, <3>5
    <3> HIDE DEF Share, Owed, Left
    <3> QED BY <3>6 DEF Charge
  <2>7. Charge(proc[d].serial)' = Charge(S)'
    BY <1>10, <1>12, <2>1 DEF Charge, Share, Owed, Left
  <2>8. Balanced(d)'
    <3> HIDE DEF Charge
    <3> QED BY <1>9, <1>10, <1>12, <1>13, <2>6, <2>7 DEF Balanced
  <2> QED BY <1>10, <1>12, <1>13, <2>8 DEF PaysFor
<1>15. \A e \in Descs \ {d} : SameShare(proc'[e], proc[e]) BY <1>10 DEF SameShare
<1>16. ASSUME NEW e \in Descs \ {d}, NEW s, Paying(proc[e]), s = proc[e].serial
       PROVE  /\ proc'[e].held = proc[e].held - Share(s)[d] - Owed(s)[a]
                                 + Share(s)'[d] + Owed(s)'[a]
              /\ proc'[e].held <= proc[e].budget
  <2>1. Share(s)[d] = 0 BY <1>3 DEF Share, Paying
  <2>2. Owed(s)'[a] = 0 BY <1>6 DEF Changes, Owed, Forking
  <2>3. PICK x \in Nat : x = IF s \in Range(b.anc) THEN n ELSE 0 OBVIOUS
  <2>4. Owed(s)[a] = x BY <1>1, <1>3, <1>9, <2>3 DEF Owed, Forking
  <2>5. Share(s)'[d] = x BY <1>10, <1>11, <1>12, <2>3 DEF Share
  <2>6. PICK h \in Nat : h = proc[e].held BY <1>16, HeldCovers
  <2>7. proc'[e].held = h /\ h <= proc[e].budget BY <1>10, <1>16, <2>6, HeldCovers
  <2> HIDE DEF Share, Owed
  <2> QED BY <2>1, <2>2, <2>4, <2>5, <2>6, <2>7
<1> HIDE DEF Share, Owed
<1> QED BY <1>3, <1>7, <1>8, <1>14, <1>15, <1>16, BillsMove

\* A process that ends pays back what it cost.
LEMMA EndingBills ==
  ASSUME ProcInv, ProcInv', BillInv, NEW a \in Actors, NEW y, NEW j, Changes(a, y, j),
         pc[a] \notin Forking, y \notin Forking, lost' = lost, next_serial' = next_serial,
         NEW d \in Descs, Paying(proc[d]), ~Paying(proc'[d]),
         \A e \in Descs \ {d} : proc'[e] = Uncharged(proc, proc[d].anc, proc[d].foot)[e]
  PROVE  BillInv'
<1>1. proc \in ProcTable BY DEF ProcInv, ProcTypes
<1>2. PICK r \in ProcRecord : r = proc[d] BY <1>1 DEF Paying, ProcTable
<1>3. PICK bytes \in Nat : bytes = r.foot BY DEF ProcRecord
<1>4. PICK anc : anc = r.anc OBVIOUS
<1>5. \A b \in Actors : SameFork(b) BY AsideForks
<1>6. Numbers BY <1>5, NumbersKeep
<1>7. ForksFor(a)' BY <1>5, <1>6, RestStays
<1>8. PaysFor(d)' BY DEF PaysFor
<1>9. \A e \in Descs \ {d} : proc'[e] = Uncharged(proc, anc, bytes)[e] BY <1>2, <1>3, <1>4
<1>10. \A e \in Descs \ {d} : SameShare(proc'[e], proc[e]) BY <1>1, <1>9, UnchargedBills
<1>11. ASSUME NEW e \in Descs \ {d}, NEW s, Paying(proc[e]), s = proc[e].serial
       PROVE  /\ proc'[e].held = proc[e].held - Share(s)[d] - Owed(s)[a]
                                 + Share(s)'[d] + Owed(s)'[a]
              /\ proc'[e].held <= proc[e].budget
  <2>1. Share(s)'[d] = 0 BY DEF Share
  <2>2. PICK x \in Nat : x = Share(s)[d] BY ValuesAre DEF Values
  <2>3. x = IF s \in Range(anc) THEN bytes ELSE 0 BY <1>2, <1>3, <1>4, <2>2 DEF Share
  <2>4. PICK z \in Nat : z = Owed(s)[a] BY ValuesAre DEF Values
  <2>5. Owed(s)'[a] = z BY <1>5, <2>4, OwedSame
  <2>6. PICK h \in Nat : h = proc[e].held BY <1>11, HeldCovers
  <2>7. h >= x + z BY <1>11, <2>2, <2>4, <2>6, HeldCovers
  <2>8. h >= x BY <2>7
  <2>9. proc'[e].held = h - x BY <1>1, <1>9, <1>11, <2>3, <2>6, <2>8, UnchargedBills DEF Paying
  <2>10. h <= proc[e].budget /\ proc[e].budget \in Nat BY <1>11, <2>6, HeldCovers
  <2> HIDE DEF Share, Owed
  <2> QED BY <2>1, <2>2, <2>4, <2>5, <2>6, <2>8, <2>9, <2>10
<1> HIDE DEF Share, Owed
<1> QED BY <1>5, <1>6, <1>7, <1>8, <1>10, <1>11, BillsMove

LEMMA FinishBills ==
  ASSUME ProcInv, ProcInv', BillInv, NEW t \in Slots, Finish(t)
  PROVE  BillInv'
<1>1. proc \in ProcTable /\ t \in Actors BY ProcFacts DEF ProcInv, ProcTypes
<1>2. /\ pc[t] = "exit" /\ pc' = [pc EXCEPT ![t] = "bury"] /\ job' = job
      /\ lost' = lost /\ next_serial' = next_serial
  BY DEF Finish, Goes, issued
<1>3. thread[t] = "live" BY <1>2 DEF ProcInv, Places, ThreadsSound
<1>4. PICK d \in Descs : d = body[t] /\ proc[d] # Nil /\ Paying(proc[d])
  BY <1>2, <1>3, ThreadsRun DEF Paying
<1>5. proc' = Ended(proc, d) BY <1>4 DEF Finish
<1>6. /\ ~Paying(proc'[d])
      /\ \A e \in Descs \ {d} : proc'[e] = Uncharged(proc, proc[d].anc, proc[d].foot)[e]
  BY <1>1, <1>4, <1>5, EndedBills
<1>7. Changes(t, "bury", job[t]) BY <1>1, <1>2, Changing
<1>8. pc[t] \notin Forking /\ "bury" \notin Forking BY <1>2 DEF Forking
<1> QED BY <1>1, <1>2, <1>4, <1>6, <1>7, <1>8, EndingBills

LEMMA ForkNotStartedBills ==
  ASSUME ProcInv, ProcInv', BillInv, NEW a \in Actors, ForkNotStarted(a)
  PROVE  BillInv'
<1>1. proc \in ProcTable BY DEF ProcInv, ProcTypes
<1>2. PICK d \in Descs : d = job[a].desc /\ proc[d] # Nil /\ Paying(proc[d])
  BY KindsHold DEF ForkNotStarted, Goes, ProcInv, Places, MakersSound, ProcKinds, Born, Paying
<1>3. /\ pc[a] = "create" /\ pc' = [pc EXCEPT ![a] = "undo"] /\ job' = job
      /\ lost' = lost /\ next_serial' = next_serial
  BY DEF ForkNotStarted, Goes, issued
<1>4. PICK Q \in ProcTable : Q = Ended(proc, d) /\ Q[d] # Nil BY <1>1, <1>2, EndedIs
<1>5. /\ ~Paying(Q[d])
      /\ \A e \in Descs \ {d} : Q[e] = Uncharged(proc, proc[d].anc, proc[d].foot)[e]
  BY <1>1, <1>2, <1>4, EndedBills
<1>6. proc' = [Q EXCEPT ![d].refs = 0] BY <1>2, <1>4 DEF ForkNotStarted
<1>7. SameBills(proc', Q) BY <1>4, <1>6, FieldsSet
<1>8. ~Paying(proc'[d]) BY <1>5, <1>7 DEF SameBills, SameBill, SameShare
<1>9. \A e \in Descs \ {d} : proc'[e] = Uncharged(proc, proc[d].anc, proc[d].foot)[e]
  BY <1>4, <1>5, <1>6 DEF ProcTable
<1>10. Changes(a, "undo", job[a]) BY <1>3, Changing
<1>11. pc[a] \notin Forking /\ "undo" \notin Forking BY <1>3 DEF Forking
<1> QED BY <1>2, <1>3, <1>8, <1>9, <1>10, <1>11, EndingBills

LEMMA CollectBills ==
  ASSUME ProcInv, ProcInv', BillInv, NEW a \in Actors, Collect(a)
  PROVE  BillInv'
<1>1. proc \in ProcTable BY DEF ProcInv, ProcTypes
<1>2. /\ pc[a] = "collect" /\ pc' = [pc EXCEPT ![a] = "reap"] /\ lost' = lost
      /\ next_serial' = next_serial
  BY DEF Collect, Goes, issued
<1>3. PICK d \in Descs : d = job[a].desc /\ proc[d] # Nil /\ Paying(proc[d])
  <2>1. proc[job[a].desc].collecting BY <1>2 DEF ProcInv, Places, HoldsSound
  <2> QED BY <1>2, <2>1, InHand DEF HoldingPoints, ProcInv, Places, TasksSound, Paying
<1>4. PICK Q \in ProcTable : Q = Ended(proc, d) /\ Q[d] # Nil BY <1>1, <1>3, EndedIs
<1>5. /\ ~Paying(Q[d])
      /\ \A e \in Descs \ {d} : Q[e] = Uncharged(proc, proc[d].anc, proc[d].foot)[e]
  BY <1>1, <1>3, <1>4, EndedBills
<1>6. PICK R : R = [Q EXCEPT ![d].task = Nil] OBVIOUS
<1>7. SameBills(R, Q) BY <1>4, <1>6, FieldsSet
<1>8. R \in ProcTable /\ R[d] # Nil
  <2>1. Nil \in Slots \cup {Nil} OBVIOUS
  <2>2. Sets(Q, R, d, Q[d].state, Nil, Q[d].refs, Q[d].collecting, Q[d].mod)
    BY <1>4, <1>6, <2>1, TaskSet
  <2> QED BY <2>2 DEF Sets
<1>9. proc' = [R EXCEPT ![d].collecting = FALSE] BY <1>3, <1>4, <1>6 DEF Collect
<1>10. SameBills(proc', R) BY <1>8, <1>9, FieldsSet
<1>11. ~Paying(proc'[d]) BY <1>5, <1>7, <1>10 DEF SameBills, SameBill, SameShare
<1>12. \A e \in Descs \ {d} : proc'[e] = Uncharged(proc, proc[d].anc, proc[d].foot)[e]
  BY <1>4, <1>5, <1>6, <1>8, <1>9 DEF ProcTable
<1>13. PICK j : job' = [job EXCEPT ![a] = j]
  BY <1>3 DEF Collect
<1>14. Changes(a, "reap", j) BY <1>2, <1>13, Changing
<1>15. pc[a] \notin Forking /\ "reap" \notin Forking BY <1>2 DEF Forking
<1> QED BY <1>2, <1>3, <1>11, <1>12, <1>14, <1>15, EndingBills

(***************************************************************************)
(* What a stopped thread was forking is charged for as before.             *)
(***************************************************************************)
LEMMA DyingCharge ==
  ASSUME ProcInv, ProcInv', BillInv, NEW a \in Actors, NEW t, Dying(a, t), proc' = proc, NEW s
  PROVE  Charge(s)' = Charge(s)
<1>1. t \in Actors BY ProcFacts DEF Dying
<1>2. PICK r : r = Remains(t) OBVIOUS
<1>3. r.at = pc[t] /\ r.job = job[t] /\ r.of = proc[body[t]].serial BY <1>2 DEF Remains
<1>4. lost' = IF pc[t] = "idle" \/ pc[t] = "exit" THEN lost ELSE lost \cup {r}
  BY <1>2 DEF Dying
<1>5. r \notin lost
  <2>1. body[t] \in Descs /\ proc[body[t]] # Nil /\ proc[body[t]].state = "active"
    BY <1>1, ThreadsRun DEF Dying
  <2>2. proc[body[t]].task = t
    BY <1>1, <2>1, KindsHold, ProcFacts
    DEF Dying, ProcKinds, ProcInv, Places, ThreadsSound, TasksSound
  <2> QED BY <1>3, <2>1, <2>2 DEF Dying, ProcInv, Places, LostSound, LostFits
<1>6. PICK F : F = Share(s) OBVIOUS
<1>7. Share(s)' = F BY <1>6 DEF Share, Paying
<1>8. PICK g, k : g = Owed(s) /\ k = Owed(s)' OBVIOUS
<1>9. /\ \A b \in Actors : g[b] \in Nat /\ k[b] \in Nat
  BY <1>8, ValuesAre, ValuesNext DEF Values
<1>10. k[t] = 0 BY <1>1, <1>8 DEF Owed, Dying, Forking
<1>11. \A b \in Actors \ {t} : k[b] = g[b] BY <1>8 DEF Owed, Dying, Forking
<1>12. PICK L, M : L = Left(s) /\ M = Left(s)' OBVIOUS
<1>13. IsFiniteSet(lost) /\ \A l \in lost : L[l] \in Nat BY <1>12, LeftIs
<1>14. \A l \in lost : M[l] = L[l] BY <1>4, <1>12 DEF Left
<1>15. r \in lost' => M[r] = g[t] BY <1>1, <1>3, <1>8, <1>12 DEF Left, Owed
<1>16. PICK G \in Nat : /\ G = SumFunctionOnSet(g, Actors)
                        /\ SumFunctionOnSet(k, Actors) = G - g[t] + k[t]
  BY <1>1, <1>9, <1>11, SumTurns, ProcFacts
<1>17. PICK x \in Nat : x = SumFunctionOnSet(L, lost) BY <1>13, SumOne
<1>18. \A l \in lost : M[l] \in Nat BY <1>13, <1>14
<1>19. SumFunctionOnSet(M, lost) = x BY <1>13, <1>14, <1>17, SumSame
<1>20. SumFunctionOnSet(M, lost') = x + g[t]
  <2>1. CASE pc[t] = "idle" \/ pc[t] = "exit"
    <3>1. g[t] = 0 BY <1>1, <1>8, <2>1 DEF Owed, Forking
    <3> QED BY <1>4, <1>19, <2>1, <3>1
  <2>2. CASE ~(pc[t] = "idle" \/ pc[t] = "exit")
    <3>1. lost' = lost \cup {r} BY <1>4, <2>2
    <3>2. M[r] = g[t] BY <1>15, <3>1
    <3>3. \A l \in lost \cup {r} : M[l] \in Nat BY <1>1, <1>9, <1>18, <3>2
    <3>4. SumFunctionOnSet(M, lost \cup {r}) = SumFunctionOnSet(M, lost) + M[r]
      BY <1>5, <1>13, <3>3, SumAdd
    <3> QED BY <1>19, <3>1, <3>2, <3>4
  <2> QED BY <2>1, <2>2
<1>21. PICK n : n = SumFunctionOnSet(F, Descs) OBVIOUS
<1>22. n \in Nat
  <2>1. \A e \in Descs : F[e] \in Nat BY <1>6, ValuesAre DEF Values
  <2> QED BY <1>21, <2>1, SumOne, ProcFacts
<1>23. Charge(s) = n + G + x BY <1>6, <1>8, <1>12, <1>16, <1>17, <1>21 DEF Charge
<1>24. Charge(s)' = n + (G - g[t] + k[t]) + (x + g[t])
  BY <1>7, <1>8, <1>12, <1>16, <1>20, <1>21 DEF Charge
<1>25. g[t] \in Nat BY <1>1, <1>9
<1> HIDE DEF Charge
<1> QED BY <1>10, <1>16, <1>17, <1>22, <1>23, <1>24, <1>25

LEMMA DyingBills ==
  ASSUME ProcInv, ProcInv', BillInv, NEW a \in Actors, NEW t, Dying(a, t), proc' = proc
  PROVE  BillInv'
<1>1. \A s : Charge(s)' = Charge(s) BY DyingCharge
<1>2. /\ \A b \in Actors \ {t} : SameFork(b)
      /\ \A b \in Actors : pc'[b] \in Early => pc[b] \in Early /\ job'[b].serial = job[b].serial
      /\ pc'[t] \notin Forking /\ pc'[t] \notin Early
  BY DEF Dying, SameFork, Early, Forking
<1>3. Numbers
  <2>1. next_serial \in Nat /\ next_serial' = next_serial
    BY ProcFacts DEF ProcInv, ProcTypes, Dying
  <2>2. next_serial <= next_serial' BY <2>1
  <2> QED BY <1>2, <2>1, <2>2 DEF Numbers
<1>4. /\ \A l \in lost : LeftFor(l)'
      /\ \A b \in Actors : SameFork(b) => ForksFor(b)'
      /\ \A e \in Descs : SameShare(proc'[e], proc[e]) =>
           \A s \in Range(proc'[e].anc) : Paying(proc'[e]) => Taken(s)'
  BY <1>3, RestStays
<1>5. ASSUME NEW e \in Descs PROVE PaysFor(e)'
  <2>1. SameShare(proc'[e], proc[e]) BY DEF SameShare
  <2>2. PICK s : s = proc[e].serial OBVIOUS
  <2>3. Balanced(e) => Balanced(e)'
    <3>1. Charge(proc[e].serial)' = Charge(s)' BY <2>2 DEF Charge, Share, Owed, Left
    <3> HIDE DEF Charge
    <3> QED BY <1>1, <2>2, <3>1 DEF Balanced
  <2> HIDE DEF Balanced, Taken
  <2> QED BY <1>4, <2>1, <2>3 DEF BillInv, PaysFor, Paying
<1>6. \A b \in Actors : ForksFor(b)'
  <2>1. ForksFor(t)' BY <1>2 DEF ForksFor
  <2> QED BY <1>2, <1>4, <2>1
<1>7. ASSUME NEW l \in lost' PROVE LeftFor(l)'
  <2>1. CASE l \in lost BY <1>4, <2>1
  <2>2. CASE l = Remains(t)
    <3>1. t \in Actors /\ l.at = pc[t] /\ l.job = job[t] BY <2>2, ProcFacts DEF Dying, Remains
    <3>2. ASSUME l.at \in Forking PROVE l.job.mod \in Mods /\ \A s \in Range(l.job.anc) : Taken(s)
      BY <3>1, <3>2 DEF BillInv, ForksFor, ProcInv, Places, ModsSound
    <3>3. \A s : Taken(s) => Taken(s)' BY <1>3, TakenStays
    <3> HIDE DEF Taken
    <3> QED BY <3>2, <3>3 DEF LeftFor
  <2> QED BY <2>1, <2>2 DEF Dying
<1> QED BY <1>5, <1>6, <1>7 DEF BillInv

LEMMA FaultsBills ==
  ASSUME ProcInv, ProcInv', BillInv, "bury" \notin FaultsAt, NEW t \in Slots, Faults(t)
  PROVE  BillInv'
<1>1. ProcTypes /\ t \in Actors BY ProcFacts DEF ProcInv
<1>2. /\ thread[t] = "live" /\ pc[t] # "bury" /\ Died(t)
      /\ pc' = [pc EXCEPT ![t] = "none"] /\ job' = [job EXCEPT ![t] = NoJob]
      /\ proc' = proc /\ body' = body /\ next_serial' = next_serial
  BY DEF Faults, table, issued
<1>3. /\ thread'[t] = "dead" /\ \A u \in Slots \ {t} : thread'[u] = thread[u]
      /\ lost' = IF pc[t] = "idle" \/ pc[t] = "exit" THEN lost ELSE lost \cup {Remains(t)}
  BY <1>2, DiedIs
<1>4. Changes(t, "none", NoJob) BY <1>1, <1>2, Changing
<1>5. Untouched BY <1>2, AlikeSame DEF Untouched
<1>6. Dying(t, t) BY <1>2, <1>3, <1>4, <1>5 DEF Dying, Changes
<1> QED BY <1>1, <1>2, <1>6, DyingBills

LEMMA KillDoneBills ==
  ASSUME ProcInv, ProcInv', BillInv, NEW a \in Actors, KillDone(a)
  PROVE  BillInv'
<1>1. ProcTypes BY DEF ProcInv
<1>2. PICK d \in Descs : d = job[a].desc /\ proc[d] # Nil
  BY InHand DEF KillDone, HoldingPoints
<1>3. PICK t : t = proc[d].task OBVIOUS
<1>4. pc[a] = "kill" /\ proc' = proc /\ next_serial' = next_serial
  BY DEF KillDone, table, issued
<1>5. CASE pc' = [pc EXCEPT ![a] = "funeral"] /\ UNCHANGED <<kernel, job, lost>>
  <2>1. pc[a] \notin Forking /\ "funeral" \notin Forking BY <1>4 DEF Forking
  <2> QED BY <1>4, <1>5, <2>1, SameBillsAre, PassBills
<1>6. CASE /\ proc[d].state # "exited" /\ t # Nil /\ thread[t] = "live" /\ Died(t)
           /\ pc' = [pc EXCEPT ![a] = "funeral", ![t] = "none"]
           /\ job' = [job EXCEPT ![t] = NoJob] /\ body' = body
  <2>1. /\ t \in Slots /\ t \in Actors /\ body[t] = d /\ pc[t] # "bury"
    BY <1>2, <1>3, <1>6, ThreadOf
  <2>2. /\ thread'[t] = "dead" /\ \A u \in Slots \ {t} : thread'[u] = thread[u]
        /\ lost' = IF pc[t] = "idle" \/ pc[t] = "exit" THEN lost ELSE lost \cup {Remains(t)}
    BY <1>6, <2>1, DiedIs
  <2>3. /\ pc'[t] = "none" /\ job'[t] = NoJob
        /\ a # t => pc'[a] = "funeral" /\ job'[a] = job[a]
        /\ \A b \in Actors \ {a, t} : pc'[b] = pc[b] /\ job'[b] = job[b]
    BY <1>1, <1>6, <2>1 DEF ProcTypes
  <2>4. Untouched BY <1>4, AlikeSame DEF Untouched
  <2>5. Dying(a, t) BY <1>4, <1>6, <2>1, <2>2, <2>3, <2>4 DEF Dying
  <2> QED BY <1>4, <2>5, DyingBills
<1> QED BY <1>2, <1>3, <1>5, <1>6 DEF KillDone

LEMMA BillInvInit ==
  ASSUME Init
  PROVE  BillInv
<1>1. /\ \A d \in Descs : ~Paying(proc[d])
      /\ \A a \in Actors : pc[a] \in {"idle", "none"}
      /\ lost = {}
  BY ProcFacts DEF Init, Paying
<1>2. \A a \in Actors : ForksFor(a) BY <1>1 DEF ForksFor, Forking, Early
<1> QED BY <1>1, <1>2 DEF BillInv, PaysFor

LEMMA BillInvNext ==
  ASSUME ProcInv, ProcInv', BillInv, "bury" \notin FaultsAt, [Next]_vars
  PROVE  BillInv'
<1>1. ASSUME NEW a \in Actors, Step(a) PROVE BillInv'
  <2>1. ASSUME NEW m \in Mods, ForkCharged(a, m) PROVE BillInv' BY <2>1, ForkChargedBills
  <2>2. ASSUME NEW m \in Mods, ForkOverBudget(a, m) PROVE BillInv' BY <2>2, ForkOverBudgetBills
  <2>3. CASE ForkAdmitted(a) \/ ForkRefused(a) BY <2>3, ForkGoesOnBills
  <2>4. CASE Refuse(a) BY <2>4, RefuseBills
  <2>5. CASE Undo(a) \/ WaitWhy(a) BY <2>5, IdleBills
  <2>6. ASSUME NEW d \in Descs, ForkInserted(a, d) PROVE BillInv' BY <2>6, ForkInsertedBills
  <2>7. ASSUME NEW t \in Slots, ForkStarted(a, t) PROVE BillInv' BY <2>7, ForkStartedBills
  <2>8. CASE ForkNotStarted(a) BY <2>8, ForkNotStartedBills
  <2>9. CASE Collect(a) BY <2>9, CollectBills
  <2>10. CASE Reap(a) BY <2>10, ReapBills
  <2>11. ASSUME NEW d \in Descs, Wait(a, d) \/ Kill(a, d) PROVE BillInv'
    <3>1. d \in Listed /\ (Hold(a, d, "wait") \/ Hold(a, d, "kill"))
      BY <2>11 DEF Wait, Kill, Living
    <3> QED BY <3>1, HoldBills
  <2>12. CASE WaitAnswered(a) \/ WaitTimedOut(a) \/ KillGivesUp(a) \/ Killed(a)
    BY <2>12, DropBills
  <2>13. CASE KillDone(a) BY <2>13, KillDoneBills
  <2>14. CASE WaitCollects(a) \/ KillFuneral(a) BY <2>14, FuneralBills
  <2> QED
    BY <1>1, <2>1, <2>2, <2>3, <2>4, <2>5, <2>6, <2>7, <2>8, <2>9, <2>10, <2>11, <2>12, <2>13,
       <2>14 DEF Step
<1>2. ASSUME NEW t \in Slots, Body(t) PROVE BillInv'
  <2>1. CASE \/ \E m \in Mods : ChainLinked(t, m)
             \/ \E swapped \in ChainEnds : ChainRefused(t, swapped)
             \/ ChainSwapped(t) \/ Exit(t)
    BY <2>1, ThreadBills
  <2>2. CASE Chained(t) BY <2>2, ChainedBills
  <2>3. CASE Finish(t) BY <2>3, FinishBills
  <2>4. CASE Bury(t) BY <2>4, BuryBills
  <2>5. CASE Faults(t) BY <2>5, FaultsBills
  <2> QED BY <1>2, <2>1, <2>2, <2>3, <2>4, <2>5 DEF Body
<1>3. CASE UNCHANGED vars
  <2>1. /\ proc' = proc /\ pc' = pc /\ job' = job /\ lost' = lost /\ next_serial' = next_serial
    BY <1>3 DEF vars, table, issued, kernel
  <2>2. \A b \in Actors : SameFork(b) BY <2>1 DEF SameFork
  <2>3. Numbers BY <2>1, <2>2, NumbersKeep
  <2> QED BY <2>1, <2>2, <2>3, SameBillsAre, SteadyKeeps
<1> QED BY <1>1, <1>2, <1>3 DEF Next

\* What a process holds, from what it is charged for.
LEMMA ChargeIs ==
  ASSUME ProcInv, BillInv, NEW s
  PROVE  \E x, y, z \in Nat :
           /\ Charge(s) = x + y + z
           /\ x = SumFunction([e \in Heirs(s) |-> proc[e].foot])
           /\ y = SumFunction([a \in Bills(s) |-> Foot[job[a].mod]])
           /\ z = SumFunction([l \in LostBills(s) |-> Foot[l.job.mod]])
<1>1. PICK H, B, L : H = Heirs(s) /\ B = Bills(s) /\ L = LostBills(s) OBVIOUS
<1>2. PICK f, g, h : /\ f = [e \in H |-> proc[e].foot]
                     /\ g = [a \in B |-> Foot[job[a].mod]]
                     /\ h = [l \in L |-> Foot[l.job.mod]]
  OBVIOUS
<1>3. /\ H \subseteq Descs /\ B \subseteq Actors /\ L \subseteq lost
      /\ IsFiniteSet(Descs) /\ IsFiniteSet(Actors) /\ IsFiniteSet(lost)
  BY <1>1, LeftIs, ProcFacts DEF Heirs, Living, Listed, Bills, LostBills, LostAt
<1>4. SumFunctionOnSet(Share(s), Descs) = SumFunctionOnSet(f, H) /\ SumFunctionOnSet(f, H) \in Nat
  <2>1. PICK F : F = Share(s) OBVIOUS
  <2>2. \A e \in H : F[e] = f[e]
    BY <1>1, <1>2, <1>3, <2>1 DEF Share, Heirs, Living, Listed, Paying
  <2>3. \A e \in Descs \ H : F[e] = 0
    BY <1>1, <2>1 DEF Share, Heirs, Living, Listed, Paying
  <2>4. \A e \in Descs : F[e] \in Nat BY <2>1, ValuesAre DEF Values
  <2>5. \A e \in H : f[e] \in Nat /\ F[e] = f[e] BY <1>3, <2>2, <2>4
  <2>6. SumFunctionOnSet(f, H) \in Nat BY <1>3, <2>5, FS_Subset, SumOne
  <2> QED BY <1>3, <2>1, <2>3, <2>5, <2>6, SumWider
<1>5. SumFunctionOnSet(Owed(s), Actors) = SumFunctionOnSet(g, B) /\ SumFunctionOnSet(g, B) \in Nat
  <2>1. PICK F : F = Owed(s) OBVIOUS
  <2>2. \A a \in B : F[a] = g[a] BY <1>1, <1>2, <1>3, <2>1 DEF Owed, Bills
  <2>3. \A a \in Actors \ B : F[a] = 0 BY <1>1, <2>1 DEF Owed, Bills
  <2>4. \A a \in Actors : F[a] \in Nat BY <2>1, ValuesAre DEF Values
  <2>5. \A a \in B : g[a] \in Nat /\ F[a] = g[a] BY <1>3, <2>2, <2>4
  <2>6. SumFunctionOnSet(g, B) \in Nat BY <1>3, <2>5, FS_Subset, SumOne
  <2> QED BY <1>3, <2>1, <2>3, <2>5, <2>6, SumWider
<1>6. SumFunctionOnSet(Left(s), lost) = SumFunctionOnSet(h, L) /\ SumFunctionOnSet(h, L) \in Nat
  <2>1. PICK F : F = Left(s) OBVIOUS
  <2>2. \A l \in L : F[l] = h[l] BY <1>1, <1>2, <1>3, <2>1 DEF Left, LostBills, LostAt
  <2>3. \A l \in lost \ L : F[l] = 0 BY <1>1, <2>1 DEF Left, LostBills, LostAt
  <2>4. \A l \in lost : F[l] \in Nat BY <2>1, LeftIs
  <2>5. \A l \in L : h[l] \in Nat /\ F[l] = h[l] BY <1>3, <2>2, <2>4
  <2>6. SumFunctionOnSet(h, L) \in Nat BY <1>3, <2>5, FS_Subset, SumOne
  <2> QED BY <1>3, <2>1, <2>3, <2>5, <2>6, SumWider
<1>7. /\ SumFunction(f) = SumFunctionOnSet(f, H) /\ SumFunction(g) = SumFunctionOnSet(g, B)
      /\ SumFunction(h) = SumFunctionOnSet(h, L)
  BY <1>2 DEF SumFunction
<1>8. PICK x, y, z \in Nat : x = SumFunction(f) /\ y = SumFunction(g) /\ z = SumFunction(h)
  BY <1>4, <1>5, <1>6, <1>7
<1>9. Charge(s) = x + y + z BY <1>4, <1>5, <1>6, <1>7, <1>8 DEF Charge
<1> HIDE DEF Charge
<1> QED BY <1>1, <1>2, <1>8, <1>9

\* A process holds its own cost and that of every living process, every fork under
\* way and every fork abandoned by a stopped parent that is charged to it, and
\* never more than its budget, whoever was stopped where: what charge_ancestors
\* added uncharge_ancestors takes away once (proc.c).
THEOREM ChargesAccounted ==
  ASSUME MayAskUnborn = FALSE, "bury" \notin FaultsAt
  PROVE  Spec => []Accounted
<1>1. Init => ProcInv /\ BillInv BY ProcInvInit, BillInvInit
<1>2. ProcInv /\ BillInv /\ [Next]_vars => (ProcInv /\ BillInv)' BY ProcInvNext, BillInvNext
<1>3. ASSUME ProcInv, BillInv, NEW d \in Living, NEW s, s = proc[d].serial
      PROVE  /\ proc[d].held = proc[d].foot + SumFunction([e \in Heirs(s) |-> proc[e].foot])
                               + SumFunction([a \in Bills(s) |-> Foot[job[a].mod]])
                               + SumFunction([l \in LostBills(s) |-> Foot[l.job.mod]])
             /\ proc[d].held <= proc[d].budget
  <2>1. d \in Descs /\ Paying(proc[d]) BY <1>3 DEF Living, Listed, Paying
  <2>2. PICK c : c = Charge(s) OBVIOUS
  <2>3. PICK x, y, z \in Nat : /\ c = x + y + z
                               /\ x = SumFunction([e \in Heirs(s) |-> proc[e].foot])
                               /\ y = SumFunction([a \in Bills(s) |-> Foot[job[a].mod]])
                               /\ z = SumFunction([l \in LostBills(s) |-> Foot[l.job.mod]])
    BY <1>3, <2>2, ChargeIs
  <2>4. proc[d].foot \in Nat BY <1>3, <2>1 DEF Paying, ProcInv, ProcTypes, ProcTable, ProcRecord
  <2>5. proc[d].held = proc[d].foot + c /\ proc[d].held <= proc[d].budget
    BY <1>3, <2>1, <2>2 DEF BillInv, PaysFor, Balanced
  <2>6. proc[d].held = proc[d].foot + x + y + z BY <2>3, <2>4, <2>5
  <2> QED BY <2>3, <2>5, <2>6
<1>4. ProcInv /\ BillInv => Accounted BY <1>3 DEF Accounted
<1> QED BY <1>1, <1>2, <1>4, PTL DEF Spec
=============================================================================
