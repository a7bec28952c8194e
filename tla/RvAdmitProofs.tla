---------------------------- MODULE RvAdmitProofs ----------------------------
(***************************************************************************)
(* Proofs about real-time admission (RvAdmit): what has been admitted      *)
(* answers every release by its deadline.                                  *)
(*                                                                         *)
(* First the analysis: what a window can hold of a task, that response     *)
(* times and placement are what their iterations come to (the least turn   *)
(* that would not be contradicts itself), and when 64 turns, or as many as *)
(* there are, are enough.  Then the table (Book), and that a workload is   *)
(* the table's tasks, the newcomer last.  Last the window: while anything  *)
(* at a process's level is owed, the time since nothing was is less than   *)
(* the response time it was admitted with.                                 *)
(***************************************************************************)
EXTENDS RvAdmit, RvLemmas, FiniteSetTheorems, SequenceTheorems, WellFoundedInduction, TLAPS
(***************************************************************************)
(* Dividing.                                                               *)
(***************************************************************************)
LEMMA Products ==
  ASSUME NEW a \in Nat, NEW b \in Nat, NEW t \in Nat, a <= b
  PROVE  a * t \in Nat /\ a * t <= b * t /\ t * a <= t * b
  OBVIOUS

LEMMA OneMore ==
  ASSUME NEW n \in Nat, NEW t \in Nat
  PROVE  (n + 1) * t = n * t + t
  OBVIOUS

LEMMA Quotients ==
  ASSUME NEW n \in Nat, NEW t \in Nat \ {0}
  PROVE  /\ n \div t \in Nat
         /\ \A k \in Nat : k * t <= n => k <= n \div t
         /\ \A m \in Nat : n <= m => n \div t <= m \div t
<1>1. ASSUME NEW x \in Nat PROVE x \div t \in Nat /\ (x \div t) * t <= x /\ x < ((x \div t) + 1) * t
  OBVIOUS
<1>2. ASSUME NEW x \in Nat, NEW k \in Nat, k * t <= x PROVE k <= x \div t
  <2>1. PICK q \in Nat : q = x \div t /\ x < (q + 1) * t BY <1>1
  <2>2. ASSUME q + 1 <= k PROVE FALSE
    <3>1. (q + 1) * t <= k * t BY <2>2, Products
    <3>2. (q + 1) * t \in Nat /\ k * t \in Nat BY Products
    <3> QED BY <1>2, <2>1, <3>1, <3>2
  <2> QED BY <2>1, <2>2
<1>3. ASSUME NEW m \in Nat, n <= m PROVE n \div t <= m \div t
  <2>1. (n \div t) * t <= n /\ n \div t \in Nat BY <1>1
  <2>2. (n \div t) * t \in Nat BY <2>1, Products
  <2>3. (n \div t) * t <= m BY <1>3, <2>1, <2>2
  <2> QED BY <1>2, <2>1, <2>3
<1> QED BY <1>1, <1>2, <1>3

(***************************************************************************)
(* Admission: what a window of r units can hold of a task.                 *)
(***************************************************************************)
LEMMA ReleasesIs ==
  ASSUME NEW g, g.t \in Nat \ {0}, NEW r \in Nat
  PROVE  /\ Releases(g, r) \in Nat
         /\ \A s \in Nat : r <= s => Releases(g, r) <= Releases(g, s)
         /\ \A k \in Nat : k > 0 /\ (k - 1) * g.t + 1 <= r => k <= Releases(g, r)
<1>1. PICK t \in Nat \ {0} : t = g.t OBVIOUS
<1> DEFINE Room(x) == (IF x = 0 THEN 1 ELSE x) + t - 1
<1>2. \A x \in Nat : Room(x) \in Nat /\ Releases(g, x) = Room(x) \div t BY <1>1 DEF Releases
<1>3. ASSUME NEW s \in Nat, r <= s PROVE Releases(g, r) <= Releases(g, s)
  <2>1. PICK x \in Nat, y \in Nat : x = Room(r) /\ y = Room(s) /\ x <= y BY <1>3
  <2>2. x \div t <= y \div t BY <2>1, Quotients
  <2> HIDE DEF Room
  <2> QED BY <1>2, <2>1, <2>2
<1>4. ASSUME NEW k \in Nat, k > 0, (k - 1) * g.t + 1 <= r PROVE k <= Releases(g, r)
  <2>1. PICK j \in Nat : j = k - 1 BY <1>4
  <2>2. j * t \in Nat /\ j * t + 1 <= r BY <1>1, <1>4, <2>1, Products
  <2>3. k * t = j * t + t BY <2>1
  <2>4. k * t <= Room(r) BY <2>2, <2>3
  <2> HIDE DEF Room
  <2> QED BY <1>2, <2>4, Quotients
<1>5. Releases(g, r) \in Nat
  <2> HIDE DEF Room
  <2> QED BY <1>2, Quotients
<1> QED BY <1>3, <1>4, <1>5

(***************************************************************************)
(* Admission: the analysis.  Its workloads are of tasks that are bounded.  *)
(***************************************************************************)
TaskSet == {Task(g, TRUE) : g \in RtPrograms}
Workloads == {tasks \in Seq(TaskSet) : Len(tasks) <= Analysed}

\* A bound within the deadline is one the iteration has come to rest at.
Converges ==
  \A tasks \in Workloads : \A urgent \in SUBSET DOMAIN tasks : \A i \in DOMAIN tasks :
    LET r == Bound(tasks, urgent, i)
    IN r <= tasks[i].d => r \in Nat /\ Needed(tasks, urgent, i, r) <= r

LEMMA TaskIs ==
  ASSUME NEW tasks \in Workloads, NEW i \in DOMAIN tasks
  PROVE  /\ tasks[i].c \in Nat \ {0} /\ tasks[i].t \in Nat \ {0} /\ tasks[i].d \in Nat
         /\ tasks[i].bounded = TRUE /\ IsFiniteSet(DOMAIN tasks) /\ Len(tasks) \in Nat
         /\ DOMAIN tasks = 1..Len(tasks)
<1>1. tasks \in Seq(TaskSet) BY DEF Workloads
<1>2. Len(tasks) \in Nat /\ DOMAIN tasks = 1..Len(tasks) /\ tasks[i] \in TaskSet BY <1>1
<1>3. IsFiniteSet(DOMAIN tasks) BY <1>2, FS_Interval
<1>4. PICK g \in RtPrograms : tasks[i] = Task(g, TRUE) BY <1>2 DEF TaskSet
<1> QED BY <1>2, <1>3, <1>4, AdmitAssumption DEF Task

LEMMA NeededIs ==
  ASSUME NEW tasks \in Workloads, NEW urgent, NEW i \in DOMAIN tasks, NEW r \in Nat
  PROVE  /\ Needed(tasks, urgent, i, r) \in Nat /\ Needed(tasks, urgent, i, r) >= tasks[i].c
         /\ \A s \in Nat : r <= s => Needed(tasks, urgent, i, r) <= Needed(tasks, urgent, i, s)
<1> DEFINE Of(x) == [j \in DOMAIN tasks |-> Releases(tasks[j], x) * tasks[j].c]
<1>1. PICK A : A = Ahead(tasks, urgent, i) OBVIOUS
<1>2. A \subseteq DOMAIN tasks /\ IsFiniteSet(A)
  <2>1. A \subseteq DOMAIN tasks BY <1>1 DEF Ahead
  <2> QED BY <2>1, TaskIs, FS_Subset
<1>3. \A x \in Nat : Needed(tasks, urgent, i, x) = tasks[i].c + SumFunctionOnSet(Of(x), A)
  BY <1>1 DEF Needed
<1>4. ASSUME NEW x \in Nat, NEW j \in DOMAIN tasks
      PROVE  /\ Of(x)[j] \in Nat /\ Of(x)[j] = Releases(tasks[j], x) * tasks[j].c
             /\ Releases(tasks[j], x) \in Nat /\ tasks[j].c \in Nat
  <2>1. Releases(tasks[j], x) \in Nat /\ tasks[j].c \in Nat BY TaskIs, ReleasesIs
  <2>2. Of(x)[j] = Releases(tasks[j], x) * tasks[j].c OBVIOUS
  <2> HIDE DEF Of
  <2> QED BY <2>1, <2>2, Products
<1>5. ASSUME NEW s \in Nat, r <= s, NEW j \in DOMAIN tasks PROVE Of(r)[j] <= Of(s)[j]
  <2>1. Releases(tasks[j], r) <= Releases(tasks[j], s) BY <1>5, TaskIs, ReleasesIs
  <2>2. Releases(tasks[j], r) * tasks[j].c <= Releases(tasks[j], s) * tasks[j].c
    BY <1>4, <2>1, Products
  <2> HIDE DEF Of
  <2> QED BY <1>4, <2>2
<1>6. tasks[i].c \in Nat BY TaskIs
<1> HIDE DEF Of
<1>7. \A x \in Nat : SumFunctionOnSet(Of(x), A) \in Nat BY <1>2, <1>4, SumOne
<1>8. ASSUME NEW s \in Nat, r <= s PROVE SumFunctionOnSet(Of(r), A) <= SumFunctionOnSet(Of(s), A)
  BY <1>2, <1>4, <1>5, <1>8, SumMore
<1> QED BY <1>3, <1>6, <1>7, <1>8

Refines(R, tasks, urgent, i) ==
  R = [k \in 0..Rounds |->
        IF k = 0 THEN tasks[i].c
        ELSE LET r == R[k - 1]
             IN IF k > 1 /\ r > tasks[i].d THEN r ELSE Needed(tasks, urgent, i, r)]

\* There is such an iteration: of any that stops too soon there is a longer one.
LEMMA RefinesExists ==
  ASSUME NEW tasks, NEW urgent, NEW i
  PROVE  \E R : Refines(R, tasks, urgent, i)
<1> DEFINE Turn(k, r) == IF k > 1 /\ r > tasks[i].d THEN r ELSE Needed(tasks, urgent, i, r)
           Upto(g, n) == /\ DOMAIN g = 0..n
                         /\ g = [k \in 0..n |-> g[k]]
                         /\ \A k \in 0..n : g[k] = IF k = 0 THEN tasks[i].c ELSE Turn(k, g[k - 1])
           Short == {n \in 0..Rounds : \A g : ~Upto(g, n)}
<1>1. Rounds \in Nat /\ IsFiniteSet(0..Rounds) /\ 0..Rounds \subseteq Nat
  BY AdmitAssumption, FS_Interval
<1> HIDE DEF Turn
<1>2. Short = {}
  <2> SUFFICES ASSUME Short # {} PROVE FALSE OBVIOUS
  <2>1. PICK n \in Short : \A k \in Short : n <= k
    <3>1. Short \subseteq 0..Rounds OBVIOUS
    <3> HIDE DEF Short
    <3> QED BY <1>1, <3>1, FS_Subset, LeastExists
  <2>2. n \in 0..Rounds /\ \A g : ~Upto(g, n) BY <2>1
  <2>3. CASE n = 0
    <3>1. PICK g : g = [k \in 0..0 |-> tasks[i].c] OBVIOUS
    <3>2. Upto(g, 0) BY <3>1
    <3> QED BY <2>2, <2>3, <3>2
  <2>4. CASE n # 0
    <3>1. n - 1 \in 0..Rounds /\ ~(n <= n - 1) BY <1>1, <2>2, <2>4
    <3>2. n - 1 \notin Short BY <2>1, <3>1
    <3>3. PICK g : Upto(g, n - 1) BY <3>1, <3>2
    <3>4. PICK w : w = [k \in 0..n |-> IF k = n THEN Turn(n, g[n - 1]) ELSE g[k]] OBVIOUS
    <3>5. \A k \in 0..n : k = n \/ k \in 0..(n - 1) BY <1>1, <2>2, <2>4
    <3>6. w[n] = Turn(n, w[n - 1]) BY <1>1, <2>2, <2>4, <3>4
    <3>7. ASSUME NEW k \in 0..(n - 1)
          PROVE  w[k] = IF k = 0 THEN tasks[i].c ELSE Turn(k, w[k - 1])
      <4>1. w[k] = g[k] /\ (k # 0 => w[k - 1] = g[k - 1]) BY <1>1, <2>2, <2>4, <3>4
      <4> HIDE DEF Short
      <4> QED BY <3>3, <4>1
    <3>8. DOMAIN w = 0..n /\ w = [k \in 0..n |-> w[k]] BY <3>4
    <3>9. \A k \in 0..n : w[k] = IF k = 0 THEN tasks[i].c ELSE Turn(k, w[k - 1])
      BY <2>4, <3>5, <3>6, <3>7
    <3>10. Upto(w, n) BY <3>8, <3>9
    <3> QED BY <2>2, <3>10
  <2> QED BY <2>3, <2>4
<1>3. Rounds \in 0..Rounds BY <1>1
<1>4. PICK g : Upto(g, Rounds) BY <1>2, <1>3
<1>5. Refines(g, tasks, urgent, i) BY <1>4 DEF Refines, Turn
<1> QED BY <1>5

LEMMA BoundIs ==
  ASSUME NEW tasks, NEW urgent, NEW i
  PROVE  \E R : /\ Bound(tasks, urgent, i) = R[Rounds]
                /\ \A k \in 0..Rounds :
                     R[k] = IF k = 0 THEN tasks[i].c
                            ELSE IF k > 1 /\ R[k - 1] > tasks[i].d THEN R[k - 1]
                            ELSE Needed(tasks, urgent, i, R[k - 1])
<1>1. PICK R : R = CHOOSE h : Refines(h, tasks, urgent, i) OBVIOUS
<1>2. Refines(R, tasks, urgent, i) BY <1>1, RefinesExists, Zenon
<1>3. Bound(tasks, urgent, i) = R[Rounds] BY <1>1 DEF Bound, Refines
<1>4. PICK f : f = [k \in 0..Rounds |->
                      IF k = 0 THEN tasks[i].c
                      ELSE IF k > 1 /\ R[k - 1] > tasks[i].d THEN R[k - 1]
                      ELSE Needed(tasks, urgent, i, R[k - 1])]
  OBVIOUS
<1>5. R = f BY <1>2, <1>4 DEF Refines
<1> QED BY <1>3, <1>4, <1>5

\* A window of s units that holds more than one of r holds an execution more.
LEMMA NeededGap ==
  ASSUME NEW m \in Nat, \A g \in RtPrograms : m <= g.c,
         NEW tasks \in Workloads, NEW urgent, NEW i \in DOMAIN tasks, NEW r \in Nat
  PROVE  /\ \A s \in Nat : r <= s =>
              \/ Needed(tasks, urgent, i, s) = Needed(tasks, urgent, i, r)
              \/ Needed(tasks, urgent, i, r) + m <= Needed(tasks, urgent, i, s)
         /\ \/ Needed(tasks, urgent, i, r) = tasks[i].c
            \/ tasks[i].c + m <= Needed(tasks, urgent, i, r)
<1> DEFINE Of(x) == [j \in DOMAIN tasks |-> Releases(tasks[j], x) * tasks[j].c]
<1>1. PICK A : A = Ahead(tasks, urgent, i) OBVIOUS
<1>2. A \subseteq DOMAIN tasks /\ IsFiniteSet(A)
  <2>1. A \subseteq DOMAIN tasks BY <1>1 DEF Ahead
  <2> QED BY <2>1, TaskIs, FS_Subset
<1>3. \A x \in Nat : Needed(tasks, urgent, i, x) = tasks[i].c + SumFunctionOnSet(Of(x), A)
  BY <1>1 DEF Needed
<1>4. ASSUME NEW j \in DOMAIN tasks PROVE tasks[j].c \in Nat /\ m <= tasks[j].c
  <2>1. tasks[j] \in TaskSet BY DEF Workloads
  <2>2. PICK g \in RtPrograms : tasks[j] = Task(g, TRUE) BY <2>1 DEF TaskSet
  <2> QED BY <2>2, AdmitAssumption DEF Task
<1>5. ASSUME NEW x \in Nat, NEW j \in DOMAIN tasks
      PROVE  /\ Of(x)[j] \in Nat /\ Of(x)[j] = Releases(tasks[j], x) * tasks[j].c
             /\ Releases(tasks[j], x) \in Nat
  <2>1. Releases(tasks[j], x) \in Nat /\ tasks[j].c \in Nat BY TaskIs, ReleasesIs
  <2>2. Of(x)[j] = Releases(tasks[j], x) * tasks[j].c OBVIOUS
  <2> HIDE DEF Of
  <2> QED BY <2>1, <2>2, Products
<1>6. ASSUME NEW j \in DOMAIN tasks, NEW k \in Nat, NEW l \in Nat, k <= l
      PROVE  l * tasks[j].c = k * tasks[j].c \/ k * tasks[j].c + m <= l * tasks[j].c
  <2>1. PICK c \in Nat : c = tasks[j].c /\ m <= c BY <1>4
  <2>2. CASE k = l BY <2>2
  <2>3. CASE k # l
    <3>1. k + 1 <= l BY <1>6, <2>3
    <3>2. (k + 1) * c <= l * c /\ (k + 1) * c = k * c + c BY <3>1, OneMore, Products
    <3>3. k * c \in Nat /\ l * c \in Nat BY Products
    <3> QED BY <2>1, <3>2, <3>3
  <2> QED BY <2>2, <2>3
<1> HIDE DEF Of
<1>7. ASSUME NEW s \in Nat, r <= s
      PROVE  \/ SumFunctionOnSet(Of(s), A) = SumFunctionOnSet(Of(r), A)
             \/ SumFunctionOnSet(Of(r), A) + m <= SumFunctionOnSet(Of(s), A)
  <2>1. PICK f, h : f = Of(r) /\ h = Of(s) OBVIOUS
  <2>2. ASSUME NEW j \in A PROVE f[j] \in Nat /\ h[j] \in Nat /\ (h[j] = f[j] \/ f[j] + m <= h[j])
    <3>1. j \in DOMAIN tasks BY <1>2
    <3>2. Releases(tasks[j], r) <= Releases(tasks[j], s) BY <1>7, <3>1, TaskIs, ReleasesIs
    <3>3. /\ f[j] = Releases(tasks[j], r) * tasks[j].c /\ f[j] \in Nat
          /\ h[j] = Releases(tasks[j], s) * tasks[j].c /\ h[j] \in Nat
          /\ Releases(tasks[j], r) \in Nat /\ Releases(tasks[j], s) \in Nat
      BY <1>5, <2>1, <3>1
    <3>4. h[j] = f[j] \/ f[j] + m <= h[j] BY <1>6, <3>1, <3>2, <3>3
    <3> QED BY <3>3, <3>4
  <2> QED BY <1>2, <2>1, <2>2, SumGap
<1>8. SumFunctionOnSet(Of(r), A) = 0 \/ m <= SumFunctionOnSet(Of(r), A)
  <2>1. PICK f, h : f = [j \in A |-> 0] /\ h = Of(r) OBVIOUS
  <2>2. ASSUME NEW j \in A PROVE f[j] \in Nat /\ h[j] \in Nat /\ (h[j] = f[j] \/ f[j] + m <= h[j])
    <3>1. j \in DOMAIN tasks BY <1>2
    <3>2. PICK k \in Nat : k = Releases(tasks[j], r) BY <1>5, <3>1
    <3>3. h[j] = k * tasks[j].c /\ h[j] \in Nat BY <1>5, <2>1, <3>1, <3>2
    <3>4. 0 <= k /\ 0 * tasks[j].c = 0
      <4>1. tasks[j].c \in Nat BY <1>4, <3>1
      <4> QED BY <4>1
    <3>5. h[j] = 0 \/ m <= h[j] BY <1>6, <3>1, <3>3, <3>4
    <3>6. f[j] = 0 BY <2>1
    <3> QED BY <3>3, <3>5, <3>6
  <2>3. SumFunctionOnSet(h, A) = SumFunctionOnSet(f, A)
        \/ SumFunctionOnSet(f, A) + m <= SumFunctionOnSet(h, A)
    BY <1>2, <2>2, SumGap
  <2>4. SumFunctionOnSet(f, A) = 0
    <3>1. \A j \in A : f[j] = 0 /\ f[j] \in Nat BY <2>1
    <3> QED BY <1>2, <3>1, SumZero
  <2> QED BY <2>1, <2>3, <2>4
<1>9. \A x \in Nat : SumFunctionOnSet(Of(x), A) \in Nat BY <1>2, <1>5, SumOne
<1>10. tasks[i].c \in Nat BY TaskIs
<1>11. ASSUME NEW s \in Nat, r <= s
       PROVE  \/ Needed(tasks, urgent, i, s) = Needed(tasks, urgent, i, r)
              \/ Needed(tasks, urgent, i, r) + m <= Needed(tasks, urgent, i, s)
  BY <1>3, <1>7, <1>9, <1>10, <1>11
<1>12. \/ Needed(tasks, urgent, i, r) = tasks[i].c
       \/ tasks[i].c + m <= Needed(tasks, urgent, i, r)
  BY <1>3, <1>8, <1>9, <1>10
<1> QED BY <1>11, <1>12

\* Every turn that does not come to rest adds an execution at least: the turns
\* are enough when no deadline is longer than so many of the shortest.
THEOREM EnoughRounds ==
  ASSUME NEW m \in Nat, \A g \in RtPrograms : m <= g.c /\ g.d < (Rounds + 1) * m
  PROVE  Converges
<1> SUFFICES ASSUME NEW tasks \in Workloads, NEW urgent \in SUBSET DOMAIN tasks, NEW i \in DOMAIN tasks,
                    NEW b, b = Bound(tasks, urgent, i), b <= tasks[i].d
             PROVE  b \in Nat /\ Needed(tasks, urgent, i, b) <= b
  BY Zenon DEF Converges
<1> DEFINE N(r) == Needed(tasks, urgent, i, r)
<1>1. PICK R : /\ b = R[Rounds]
               /\ \A k \in 0..Rounds :
                    R[k] = IF k = 0 THEN tasks[i].c
                           ELSE IF k > 1 /\ R[k - 1] > tasks[i].d THEN R[k - 1] ELSE N(R[k - 1])
  BY BoundIs
<1>2. PICK c \in Nat \ {0}, d \in Nat : c = tasks[i].c /\ d = tasks[i].d BY TaskIs
<1>3. m <= c /\ d < (Rounds + 1) * m
  <2>1. tasks[i] \in TaskSet BY DEF Workloads
  <2>2. PICK g \in RtPrograms : tasks[i] = Task(g, TRUE) BY <2>1 DEF TaskSet
  <2>3. tasks[i].c = g.c /\ tasks[i].d = g.d BY <2>2 DEF Task
  <2> QED BY <1>2, <2>3
<1>4. \A r \in Nat : /\ N(r) \in Nat /\ (N(r) = c \/ c + m <= N(r))
                     /\ \A s \in Nat : r <= s => N(s) = N(r) \/ N(r) + m <= N(s)
  BY <1>2, NeededIs, NeededGap
<1> HIDE DEF N
<1> DEFINE Good(k) == /\ R[k] \in Nat /\ (N(R[k]) = R[k] \/ R[k] + m <= N(R[k]))
                      /\ R[k] <= d => (k + 1) * m <= R[k] \/ N(R[k]) = R[k]
           Bad == {k \in 0..Rounds : ~Good(k)}
<1>5. Rounds \in Nat \ {0} /\ IsFiniteSet(0..Rounds) /\ 0..Rounds \subseteq Nat
  BY AdmitAssumption, FS_Interval
<1>6. Bad = {}
  <2> SUFFICES ASSUME Bad # {} PROVE FALSE OBVIOUS
  <2>1. PICK n \in Bad : \A k \in Bad : n <= k
    <3>1. Bad \subseteq 0..Rounds OBVIOUS
    <3> HIDE DEF Bad
    <3> QED BY <1>5, <3>1, FS_Subset, LeastExists
  <2>2. n \in 0..Rounds /\ ~Good(n) BY <2>1
  <2>3. CASE n = 0
    <3>1. R[0] = c BY <1>1, <1>2, <1>5
    <3>2. N(c) = c \/ c + m <= N(c) BY <1>4
    <3>3. (n + 1) * m = m BY <2>3
    <3> QED BY <1>3, <2>2, <2>3, <3>1, <3>2, <3>3
  <2>4. CASE n # 0
    <3>1. n - 1 \in 0..Rounds /\ ~(n <= n - 1) BY <1>5, <2>2, <2>4
    <3>2. Good(n - 1) BY <2>1, <3>1
    <3>3. PICK x \in Nat : x = R[n - 1] BY <3>2
    <3>4. (n - 1) + 1 = n /\ n * m \in Nat /\ (n + 1) * m = n * m + m
      <4>1. n \in Nat BY <2>2
      <4> QED BY <4>1, OneMore, Products
    <3>5. N(x) = x \/ x + m <= N(x) BY <3>2, <3>3
    <3>6. x <= d => n * m <= x \/ N(x) = x BY <3>2, <3>3, <3>4
    <3>7. CASE R[n] = x
      <4>1. x > d \/ N(x) = x BY <1>1, <1>2, <2>2, <2>4, <3>3, <3>7
      <4>2. Good(n) BY <1>4, <3>5, <3>7, <4>1
      <4> QED BY <2>2, <4>2
    <3>8. CASE R[n] # x
      <4>1. R[n] = N(x) BY <1>1, <1>2, <2>2, <2>4, <3>3, <3>8
      <4>2. PICK y \in Nat : y = N(x) BY <1>4
      <4>3. x + m <= y /\ x <= y BY <3>5, <3>8, <4>1, <4>2
      <4>4. N(y) = y \/ y + m <= N(y) BY <1>4, <4>2, <4>3
      <4>5. y <= d => n * m + m <= y BY <3>4, <3>6, <3>8, <4>1, <4>2, <4>3
      <4>6. Good(n) BY <3>4, <4>1, <4>2, <4>4, <4>5
      <4> QED BY <2>2, <4>6
    <3> QED BY <3>7, <3>8
  <2> QED BY <2>3, <2>4
<1>7. Good(Rounds) BY <1>5, <1>6
<1>8. (Rounds + 1) * m \in Nat BY <1>5, Products
<1> QED BY <1>1, <1>2, <1>3, <1>5, <1>7, <1>8 DEF N

Leaves(L, tasks) ==
  L = [k \in 0..Len(tasks) |->
        IF k = 0 THEN {i \in DOMAIN tasks : tasks[i].pin # "routine"} ELSE Shed(tasks, L[k - 1])]

LEMMA LeavesExists ==
  ASSUME NEW tasks \in Workloads
  PROVE  \E L : Leaves(L, tasks)
<1> DEFINE Upto(g, n) == /\ DOMAIN g = 0..n
                         /\ g = [k \in 0..n |-> g[k]]
                         /\ \A k \in 0..n : g[k] = IF k = 0 THEN {i \in DOMAIN tasks : tasks[i].pin # "routine"}
                                                   ELSE Shed(tasks, g[k - 1])
           Short == {n \in 0..Len(tasks) : \A g : ~Upto(g, n)}
<1>1. PICK most \in Nat : most = Len(tasks) BY DEF Workloads
<1>2. IsFiniteSet(0..most) /\ 0..most \subseteq Nat BY FS_Interval
<1>3. Short = {}
  <2> SUFFICES ASSUME Short # {} PROVE FALSE OBVIOUS
  <2>1. PICK n \in Short : \A k \in Short : n <= k
    <3>1. Short \subseteq 0..most BY <1>1
    <3> HIDE DEF Short
    <3> QED BY <1>2, <3>1, FS_Subset, LeastExists
  <2>2. n \in 0..most /\ \A g : ~Upto(g, n) BY <1>1, <2>1
  <2>3. CASE n = 0
    <3>1. PICK g : g = [k \in 0..0 |-> {i \in DOMAIN tasks : tasks[i].pin # "routine"}] OBVIOUS
    <3>2. Upto(g, 0) BY <3>1
    <3> QED BY <2>2, <2>3, <3>2
  <2>4. CASE n # 0
    <3>1. n - 1 \in 0..most /\ ~(n <= n - 1) BY <2>2, <2>4
    <3>2. n - 1 \notin Short BY <2>1, <3>1
    <3>3. PICK g : Upto(g, n - 1) BY <1>1, <3>1, <3>2
    <3>4. PICK w : w = [k \in 0..n |-> IF k = n THEN Shed(tasks, g[n - 1]) ELSE g[k]] OBVIOUS
    <3>5. \A k \in 0..n : k = n \/ k \in 0..(n - 1) BY <2>2, <2>4
    <3>6. w[n] = Shed(tasks, w[n - 1]) BY <2>2, <2>4, <3>4
    <3>7. ASSUME NEW k \in 0..(n - 1)
          PROVE  w[k] = IF k = 0 THEN {i \in DOMAIN tasks : tasks[i].pin # "routine"}
                        ELSE Shed(tasks, w[k - 1])
      <4>1. w[k] = g[k] /\ (k # 0 => w[k - 1] = g[k - 1]) BY <2>2, <2>4, <3>4
      <4> HIDE DEF Short
      <4> QED BY <3>3, <4>1
    <3>8. DOMAIN w = 0..n /\ w = [k \in 0..n |-> w[k]] BY <3>4
    <3>9. \A k \in 0..n : w[k] = IF k = 0 THEN {i \in DOMAIN tasks : tasks[i].pin # "routine"}
                                 ELSE Shed(tasks, w[k - 1])
      BY <2>4, <3>5, <3>6, <3>7
    <3>10. Upto(w, n) BY <3>8, <3>9
    <3> QED BY <2>2, <3>10
  <2> QED BY <2>3, <2>4
<1>4. most \in 0..most OBVIOUS
<1>5. PICK g : Upto(g, most)
  <2>1. most \in 0..Len(tasks) BY <1>1, <1>4
  <2> HIDE DEF Upto
  <2> QED BY <1>3, <2>1
<1>6. Leaves(g, tasks) BY <1>1, <1>5 DEF Leaves
<1> QED BY <1>6

\* What is placed is of the workload, and meets its deadlines where it is.
LEMMA PlaceIs ==
  ASSUME NEW tasks \in Workloads
  PROVE  /\ Place(tasks).urgent \subseteq DOMAIN tasks
         /\ Place(tasks).ok => \A i \in DOMAIN tasks :
              Bound(tasks, Place(tasks).urgent, i) <= tasks[i].d
<1>1. PICK L : L = CHOOSE h : Leaves(h, tasks) OBVIOUS
<1>2. Leaves(L, tasks) BY <1>1, LeavesExists, Zenon
<1>3. PICK most \in Nat : most = Len(tasks) BY DEF Workloads
<1>4. IsFiniteSet(0..most) /\ 0..most \subseteq Nat /\ most \in 0..most BY FS_Interval
<1>5. PICK f : f = [k \in 0..most |->
                      IF k = 0 THEN {i \in DOMAIN tasks : tasks[i].pin # "routine"}
                      ELSE Shed(tasks, L[k - 1])]
  OBVIOUS
<1>6. L = f BY <1>2, <1>3, <1>5 DEF Leaves
<1>7. \A k \in 0..most : L[k] = IF k = 0 THEN {i \in DOMAIN tasks : tasks[i].pin # "routine"}
                                ELSE Shed(tasks, L[k - 1])
  BY <1>5, <1>6
<1>8. \A U : Shed(tasks, U) \subseteq U BY DEF Shed
<1>9. {k \in 0..most : ~(L[k] \subseteq DOMAIN tasks)} = {}
  <2> DEFINE Bad == {k \in 0..most : ~(L[k] \subseteq DOMAIN tasks)}
  <2> SUFFICES ASSUME Bad # {} PROVE FALSE OBVIOUS
  <2>1. PICK n \in Bad : \A k \in Bad : n <= k
    <3>1. Bad \subseteq 0..most OBVIOUS
    <3> HIDE DEF Bad
    <3> QED BY <1>4, <3>1, FS_Subset, LeastExists
  <2>2. n \in 0..most /\ ~(L[n] \subseteq DOMAIN tasks) BY <2>1
  <2>3. n # 0 BY <1>7, <2>2
  <2>4. n - 1 \in 0..most /\ n - 1 \notin Bad BY <2>1, <2>2, <2>3
  <2>5. L[n] \subseteq L[n - 1] BY <1>7, <1>8, <2>2, <2>3
  <2> QED BY <2>2, <2>4, <2>5
<1>10. PICK u : u = L[most] OBVIOUS
<1>11. u \subseteq DOMAIN tasks BY <1>4, <1>9, <1>10
<1>12. Place(tasks) = [ok |-> Meets(tasks, u, u) /\ Meets(tasks, u, DOMAIN tasks \ u), urgent |-> u]
  BY <1>1, <1>3, <1>10 DEF Place, Leaves
<1>13. /\ Place(tasks).urgent = u
       /\ Place(tasks).ok => Meets(tasks, u, u) /\ Meets(tasks, u, DOMAIN tasks \ u)
  <2>1. PICK p : p = (Meets(tasks, u, u) /\ Meets(tasks, u, DOMAIN tasks \ u)) OBVIOUS
  <2>2. Place(tasks) = [ok |-> p, urgent |-> u] BY <1>12, <2>1, Zenon
  <2>3. Place(tasks).urgent = u /\ Place(tasks).ok = p BY <2>2
  <2> QED BY <2>1, <2>3, Zenon
<1>14. ASSUME Meets(tasks, u, u), Meets(tasks, u, DOMAIN tasks \ u), NEW i \in DOMAIN tasks
       PROVE  Bound(tasks, u, i) <= tasks[i].d
  BY <1>14, TaskIs DEF Meets
<1> QED BY <1>11, <1>13, <1>14

(***************************************************************************)
(* Admission: from the fork to the end.                                    *)
(***************************************************************************)
Stages == {"none", "admitted", "entered", "declaring", "declared"}
RtRecord == [step : Stages, prog : RtPrograms \cup {NoProgram},
             urgent : BOOLEAN, seen : BOOLEAN, runs : BOOLEAN]
RtTypes ==
  /\ rt \in [RtIds -> RtRecord] /\ order \in Seq(RtIds)
  /\ owed \in [RtIds -> Nat] /\ released \in [RtIds -> Nat]

Urgent(p) == rt[p].urgent = TRUE
RtSound(p) ==
  /\ rt[p].step # "none" => rt[p].prog \in RtPrograms /\ rt[p].prog.d <= rt[p].prog.t
  /\ rt[p].step = "declaring" => rt[p].seen = rt[p].urgent
  /\ rt[p].step = "declared" => rt[p].runs = rt[p].urgent /\ released[p] <= rt[p].prog.t
  /\ rt[p].step # "declared" => owed[p] = 0

\* The table has each once, and one at most is on its way to its release.
InTable == {p \in RtIds : rt[p].step \in {"entered", "declaring", "declared"}}
TableSound ==
  /\ \A i, j \in DOMAIN order : order[i] = order[j] => i = j
  /\ \A i \in DOMAIN order : order[i] \in InTable
  /\ \A p \in InTable : \E i \in DOMAIN order : order[i] = p
Coming == {p \in RtIds : rt[p].step \in {"admitted", "entered", "declaring"}}
OneComes == \A p, q \in Coming : p = q

Book == RtTypes /\ TableSound /\ OneComes /\ \A p \in RtIds : RtSound(p)

LEMMA BookStarts == AdmitInit => Book
<1> SUFFICES ASSUME AdmitInit PROVE Book OBVIOUS
<1>1. PICK no \in BOOLEAN : no = FALSE OBVIOUS
<1>2. NoRt = [step |-> "none", prog |-> NoProgram, urgent |-> no, seen |-> no, runs |-> no]
  BY <1>1 DEF NoRt
<1>3. NoRt \in RtRecord /\ NoRt.step = "none" BY <1>2 DEF RtRecord, Stages
<1>4. RtTypes BY <1>3 DEF AdmitInit, RtTypes
<1>5. \A p \in RtIds : rt[p].step = "none" /\ owed[p] = 0 BY <1>3 DEF AdmitInit
<1>6. DOMAIN order = {} BY DEF AdmitInit
<1>7. \A p \in RtIds : RtSound(p) BY <1>5 DEF RtSound
<1>8. TableSound BY <1>5, <1>6 DEF TableSound, InTable
<1>9. OneComes BY <1>5 DEF OneComes, Coming
<1> QED BY <1>4, <1>7, <1>8, <1>9 DEF Book

\* A step of one process that stays in the table or out of it.
LEMMA BookOne ==
  ASSUME Book, NEW p \in RtIds, NEW r \in RtRecord, rt' = [rt EXCEPT ![p] = r],
         order' = order, owed' = owed, released' \in [RtIds -> Nat],
         \A q \in RtIds \ {p} : released'[q] = released[q], RtSound(p)',
         r.step \in {"entered", "declaring", "declared"} <=> p \in InTable,
         r.step \in {"admitted", "entered", "declaring"} => p \in Coming
  PROVE  Book'
<1>1. \A q \in RtIds : rt'[q] = IF q = p THEN r ELSE rt[q] BY DEF Book, RtTypes
<1>2. RtTypes' BY DEF Book, RtTypes
<1>3. InTable' = InTable BY <1>1 DEF InTable
<1>4. TableSound' BY <1>3 DEF Book, TableSound
<1>5. Coming' \subseteq Coming BY <1>1 DEF Coming
<1>6. ASSUME NEW q \in RtIds \ {p} PROVE RtSound(q)' BY <1>1 DEF Book, RtSound
<1>7. OneComes' BY <1>5 DEF Book, OneComes
<1> QED BY <1>2, <1>4, <1>6, <1>7 DEF Book

LEMMA EnterBooks == ASSUME Book, NEW p \in RtIds, Enter(p) PROVE Book'
<1>1. /\ rt[p].step = "admitted" /\ rt' = [rt EXCEPT ![p].step = "entered"]
      /\ order' = <<p>> \o order /\ owed' = owed /\ released' = released
  BY DEF Enter
<1>2. PICK r \in RtRecord : r = [rt[p] EXCEPT !.step = "entered"]
  BY DEF Book, RtTypes, RtRecord, Stages
<1>3. rt' = [rt EXCEPT ![p] = r] BY <1>1, <1>2
<1>4. /\ r.step = "entered" /\ r.prog = rt[p].prog /\ r.urgent = rt[p].urgent
  BY <1>2 DEF Book, RtTypes, RtRecord
<1>5. \A q \in RtIds : rt'[q] = IF q = p THEN r ELSE rt[q] BY <1>3 DEF Book, RtTypes
<1>6. order \in Seq(RtIds) /\ Len(order) \in Nat /\ DOMAIN order = 1..Len(order)
      /\ order' \in Seq(RtIds) /\ DOMAIN order' = 1..(Len(order) + 1)
      /\ order'[1] = p /\ \A i \in 2..(Len(order) + 1) : order'[i] = order[i - 1]
  BY <1>1 DEF Book, RtTypes
<1>7. PICK n \in Nat : n = Len(order) BY <1>6
<1>8. \A i \in 1..(n + 1) : i = 1 \/ (i \in 2..(n + 1) /\ i - 1 \in 1..n) OBVIOUS
<1>9. InTable' = InTable \cup {p} /\ p \notin InTable BY <1>1, <1>4, <1>5 DEF InTable
<1>10. RtTypes' BY <1>1, <1>3, <1>6 DEF Book, RtTypes
<1>11. \A i \in 1..n : order[i] \in InTable BY <1>6, <1>7 DEF Book, TableSound
<1>12. \A i \in DOMAIN order' : order'[i] \in InTable' BY <1>6, <1>7, <1>8, <1>9, <1>11
<1>13. ASSUME NEW i \in 1..(n + 1), NEW j \in 1..(n + 1), order'[i] = order'[j] PROVE i = j
  <2>1. CASE i = 1 /\ j = 1 BY <2>1
  <2>2. CASE i = 1 /\ j # 1 BY <1>6, <1>7, <1>8, <1>9, <1>11, <1>13, <2>2
  <2>3. CASE i # 1 /\ j = 1 BY <1>6, <1>7, <1>8, <1>9, <1>11, <1>13, <2>3
  <2>4. CASE i # 1 /\ j # 1
    <3>1. i - 1 \in 1..n /\ j - 1 \in 1..n /\ order[i - 1] = order[j - 1]
      BY <1>6, <1>7, <1>8, <1>13, <2>4
    <3>2. i - 1 = j - 1 BY <1>6, <1>7, <3>1 DEF Book, TableSound
    <3> QED BY <3>2
  <2> QED BY <2>1, <2>2, <2>3, <2>4
<1>14. ASSUME NEW q \in InTable' PROVE \E i \in DOMAIN order' : order'[i] = q
  <2>1. CASE q = p
    <3>1. 1 \in 1..(n + 1) OBVIOUS
    <3> QED BY <1>6, <1>7, <2>1, <3>1
  <2>2. CASE q # p
    <3>1. PICK i \in 1..n : order[i] = q BY <1>6, <1>7, <1>9, <2>2 DEF Book, TableSound
    <3>2. i + 1 \in 2..(n + 1) /\ (i + 1) - 1 = i /\ i + 1 \in 1..(n + 1) OBVIOUS
    <3>3. order'[i + 1] = q BY <1>6, <1>7, <3>1, <3>2
    <3> QED BY <1>6, <1>7, <3>2, <3>3
  <2> QED BY <2>1, <2>2
<1>15. TableSound' BY <1>6, <1>7, <1>12, <1>13, <1>14 DEF TableSound
<1>16. OneComes'
  <2>1. Coming' = Coming BY <1>1, <1>4, <1>5 DEF Coming
  <2> QED BY <2>1 DEF Book, OneComes
<1>17. ASSUME NEW q \in RtIds PROVE RtSound(q)' BY <1>1, <1>4, <1>5 DEF Book, RtSound
<1> QED BY <1>10, <1>15, <1>16, <1>17 DEF Book

LEMMA TurnedAwayBooks == ASSUME Book, NEW p \in RtIds, TurnedAway(p) PROVE Book'
<1>1. rt[p].step = "admitted" /\ rt' = [rt EXCEPT ![p] = NoRt] /\ UNCHANGED <<order, owed, released>>
  BY DEF TurnedAway
<1>2. PICK no \in BOOLEAN : no = FALSE OBVIOUS
<1>3. PICK r : r = [step |-> "none", prog |-> NoProgram, urgent |-> no, seen |-> no, runs |-> no]
  OBVIOUS
<1>4. r \in RtRecord /\ r.step = "none" BY <1>3 DEF RtRecord, Stages
<1>5. rt' = [rt EXCEPT ![p] = r] BY <1>1, <1>2, <1>3 DEF NoRt
<1>6. rt'[p] = r BY <1>5 DEF Book, RtTypes
<1>7. RtSound(p)' BY <1>1, <1>4, <1>6 DEF Book, RtSound
<1>8. p \notin InTable BY <1>1 DEF InTable
<1>9. released' \in [RtIds -> Nat] BY <1>1 DEF Book, RtTypes
<1> QED BY <1>1, <1>4, <1>5, <1>7, <1>8, <1>9, BookOne

LEMMA DeclaresBooks == ASSUME Book, NEW p \in RtIds, Declares(p) PROVE Book'
<1>1. /\ rt[p].step = "entered" /\ UNCHANGED <<order, owed, released>>
      /\ rt' = [rt EXCEPT ![p] = [rt[p] EXCEPT !.step = "declaring", !.seen = rt[p].urgent]]
  BY DEF Declares
<1>2. PICK g, u, s, w : g = rt[p].prog /\ u = rt[p].urgent /\ s = rt[p].seen /\ w = rt[p].runs OBVIOUS
<1>3. rt[p] \in RtRecord BY DEF Book, RtTypes
<1>4. rt[p] = [step |-> "entered", prog |-> g, urgent |-> u, seen |-> s, runs |-> w]
      /\ g \in RtPrograms \cup {NoProgram} /\ u \in BOOLEAN /\ s \in BOOLEAN /\ w \in BOOLEAN
  BY <1>1, <1>2, <1>3 DEF RtRecord
<1>5. PICK r : r = [step |-> "declaring", prog |-> g, urgent |-> u, seen |-> u, runs |-> w] OBVIOUS
<1>6. r \in RtRecord /\ r.step = "declaring" /\ r.prog = g /\ r.urgent = u /\ r.seen = u
  BY <1>4, <1>5 DEF RtRecord, Stages
<1>7. rt' = [rt EXCEPT ![p] = r]
  <2>1. PICK v : v = rt[p] OBVIOUS
  <2>2. PICK x : x = [v EXCEPT !.step = "declaring"] OBVIOUS
  <2>3. x = [step |-> "declaring", prog |-> g, urgent |-> u, seen |-> s, runs |-> w]
    BY <1>4, <2>1, <2>2
  <2>4. [x EXCEPT !.seen = u] = r BY <1>5, <2>3
  <2>5. [v EXCEPT !.step = "declaring", !.seen = u] = [x EXCEPT !.seen = u] BY <1>4, <2>1, <2>2
  <2> QED BY <1>1, <1>2, <2>1, <2>4, <2>5
<1>8. rt'[p] = r BY <1>7 DEF Book, RtTypes
<1>9. RtSound(p)' BY <1>1, <1>2, <1>6, <1>8 DEF Book, RtSound
<1>10. p \in InTable BY <1>1 DEF InTable
<1>11. released' \in [RtIds -> Nat] BY <1>1 DEF Book, RtTypes
<1>12. p \in Coming BY <1>1 DEF Coming
<1> QED BY <1>1, <1>6, <1>7, <1>9, <1>10, <1>11, <1>12, BookOne

LEMMA TakesSlotBooks == ASSUME Book, NEW p \in RtIds, TakesSlot(p) PROVE Book'
<1>1. /\ rt[p].step = "declaring" /\ UNCHANGED <<order, owed>>
      /\ rt' = [rt EXCEPT ![p] = [rt[p] EXCEPT !.step = "declared", !.runs = rt[p].seen, !.seen = FALSE]]
      /\ released' = [released EXCEPT ![p] = IF rt[p].prog.event THEN rt[p].prog.t ELSE 0]
  BY DEF TakesSlot
<1>2. PICK g, u, s, w : g = rt[p].prog /\ u = rt[p].urgent /\ s = rt[p].seen /\ w = rt[p].runs OBVIOUS
<1>3. rt[p] \in RtRecord /\ RtSound(p) BY DEF Book, RtTypes
<1>4. rt[p] = [step |-> "declaring", prog |-> g, urgent |-> u, seen |-> s, runs |-> w]
      /\ g \in RtPrograms \cup {NoProgram} /\ u \in BOOLEAN /\ s \in BOOLEAN /\ w \in BOOLEAN
  BY <1>1, <1>2, <1>3 DEF RtRecord
<1>5. PICK no \in BOOLEAN : no = FALSE OBVIOUS
<1>6. PICK r : r = [step |-> "declared", prog |-> g, urgent |-> u, seen |-> no, runs |-> s] OBVIOUS
<1>7. r \in RtRecord /\ r.step = "declared" /\ r.prog = g /\ r.urgent = u /\ r.runs = s
  BY <1>4, <1>6 DEF RtRecord, Stages
<1>8. rt' = [rt EXCEPT ![p] = r]
  <2>1. PICK v : v = rt[p] OBVIOUS
  <2>2. PICK x : x = [v EXCEPT !.step = "declared"] OBVIOUS
  <2>3. PICK y : y = [x EXCEPT !.runs = s] OBVIOUS
  <2>4. x = [step |-> "declared", prog |-> g, urgent |-> u, seen |-> s, runs |-> w]
    BY <1>4, <2>1, <2>2
  <2>5. y = [step |-> "declared", prog |-> g, urgent |-> u, seen |-> s, runs |-> s] BY <2>3, <2>4
  <2>6. [y EXCEPT !.seen = no] = r BY <1>6, <2>5
  <2>7. [v EXCEPT !.step = "declared", !.runs = s, !.seen = no] = [y EXCEPT !.seen = no]
    BY <1>4, <2>1, <2>2, <2>3
  <2> QED BY <1>1, <1>2, <1>5, <2>1, <2>6, <2>7
<1>9. rt'[p] = r BY <1>8 DEF Book, RtTypes
<1>10. g \in RtPrograms /\ g.d <= g.t /\ s = u /\ owed[p] = 0 BY <1>1, <1>2, <1>3 DEF RtSound
<1>11. PICK x : x = IF rt[p].prog.event THEN rt[p].prog.t ELSE 0 OBVIOUS
<1>12. x \in Nat /\ x <= g.t BY <1>2, <1>10, <1>11, AdmitAssumption
<1>13. released' = [released EXCEPT ![p] = x] BY <1>1, <1>11
<1>14. /\ released' \in [RtIds -> Nat] /\ released'[p] = x
       /\ \A q \in RtIds \ {p} : released'[q] = released[q]
  BY <1>12, <1>13 DEF Book, RtTypes
<1>15. RtSound(p)' BY <1>1, <1>7, <1>9, <1>10, <1>12, <1>14 DEF RtSound
<1>16. p \in InTable BY <1>1 DEF InTable
<1> QED BY <1>1, <1>7, <1>8, <1>14, <1>15, <1>16, BookOne

LEMMA PartIs ==
  ASSUME NEW S, NEW s \in Seq(S), NEW i \in 1..Len(s) + 1, NEW n \in 0..Len(s), i <= n + 1
  PROVE  /\ SubSeq(s, i, n) \in Seq(S) /\ Len(SubSeq(s, i, n)) = n - i + 1
         /\ \A j \in 1..(n - i + 1) : SubSeq(s, i, n)[j] = s[i + j - 1]
  OBVIOUS

LEMMA EndsBooks == ASSUME Book, NEW p \in RtIds, Ends(p) PROVE Book'
<1>1. PICK i \in DOMAIN order :
        order[i] = p /\ order' = SubSeq(order, 1, i - 1) \o SubSeq(order, i + 1, Len(order))
  BY DEF Ends
<1>2. /\ rt[p].step \in {"entered", "declaring", "declared"} /\ rt' = [rt EXCEPT ![p] = NoRt]
      /\ owed' = [owed EXCEPT ![p] = 0] /\ released' = [released EXCEPT ![p] = 0]
  BY DEF Ends
<1>3. PICK no \in BOOLEAN : no = FALSE OBVIOUS
<1>4. PICK r : r = [step |-> "none", prog |-> NoProgram, urgent |-> no, seen |-> no, runs |-> no]
  OBVIOUS
<1>5. r \in RtRecord /\ r.step = "none" BY <1>4 DEF RtRecord, Stages
<1>6. rt' = [rt EXCEPT ![p] = r] BY <1>2, <1>3, <1>4 DEF NoRt
<1>7. \A q \in RtIds : rt'[q] = IF q = p THEN r ELSE rt[q] BY <1>6 DEF Book, RtTypes
<1>8. PICK n \in Nat : n = Len(order) BY DEF Book, RtTypes
<1>9. order \in Seq(RtIds) /\ DOMAIN order = 1..n /\ i \in 1..n BY <1>8 DEF Book, RtTypes
<1>10. order' = SubSeq(order, 1, i - 1) \o SubSeq(order, i + 1, n) BY <1>1, <1>8
<1>11. PICK L, M : L = SubSeq(order, 1, i - 1) /\ M = SubSeq(order, i + 1, n) OBVIOUS
<1>12. /\ L \in Seq(RtIds) /\ Len(L) = i - 1 /\ \A j \in 1..(i - 1) : L[j] = order[j]
  <2>1. PICK k \in Nat : k = i - 1 /\ k \in 0..n /\ 1 <= k + 1 /\ k - 1 + 1 = k BY <1>9
  <2>2. /\ L \in Seq(RtIds) /\ Len(L) = k - 1 + 1
        /\ \A j \in 1..(k - 1 + 1) : L[j] = order[1 + j - 1]
    BY <1>8, <1>9, <1>11, <2>1, PartIs
  <2>3. \A j \in 1..k : 1 + j - 1 = j OBVIOUS
  <2> QED BY <2>1, <2>2, <2>3
<1>13. /\ M \in Seq(RtIds) /\ Len(M) = n - i /\ \A j \in 1..(n - i) : M[j] = order[i + j]
  <2>1. PICK k \in Nat : k = i + 1 /\ k \in 1..n + 1 /\ k <= n + 1
    <3>1. i \in Nat /\ 1 <= i /\ i <= n BY <1>9
    <3> QED BY <3>1
  <2>2. /\ M \in Seq(RtIds) /\ Len(M) = n - k + 1
        /\ \A j \in 1..(n - k + 1) : M[j] = order[k + j - 1]
    <3>1. n \in 0..n OBVIOUS
    <3>2. PICK w : w = SubSeq(order, k, n) OBVIOUS
    <3>3. w = M BY <1>11, <2>1, <3>2
    <3>4. k \in 1..Len(order) + 1 /\ n \in 0..Len(order) BY <1>8, <2>1, <3>1
    <3>5. /\ w \in Seq(RtIds) /\ Len(w) = n - k + 1
          /\ \A j \in 1..(n - k + 1) : w[j] = order[k + j - 1]
      BY <1>9, <2>1, <3>2, <3>4, PartIs
    <3> QED BY <3>3, <3>5
  <2>3. n - k + 1 = n - i /\ \A j \in 1..(n - i) : k + j - 1 = i + j BY <1>9, <2>1
  <2> QED BY <2>2, <2>3
<1>14. order' \in Seq(RtIds) /\ Len(order') = n - 1 /\ DOMAIN order' = 1..(n - 1)
  <2>1. PICK a \in Nat, b \in Nat : a = i - 1 /\ b = n - i /\ a + b = n - 1 BY <1>9
  <2>2. L \in Seq(RtIds) /\ M \in Seq(RtIds) /\ Len(L) = a /\ Len(M) = b BY <1>12, <1>13, <2>1
  <2>3. PICK w : w = L \o M OBVIOUS
  <2>4. w \in Seq(RtIds) /\ Len(w) = a + b
    <3>1. L \o M \in Seq(RtIds) /\ Len(L \o M) = a + b BY <2>2
    <3> QED BY <2>3, <3>1
  <2>5. Len(w) = n - 1 BY <2>1, <2>4
  <2>6. DOMAIN w = 1..Len(w) BY <2>4
  <2>7. order' = w BY <1>10, <1>11, <2>3
  <2> QED BY <2>4, <2>5, <2>6, <2>7
<1>15. \A j \in 1..(n - 1) : order'[j] = IF j < i THEN order[j] ELSE order[j + 1]
  <2> TAKE j \in 1..(n - 1)
  <2>1. order' = L \o M BY <1>10, <1>11
  <2>2. CASE j < i
    <3>1. j \in 1..Len(L) BY <1>9, <1>12, <2>2
    <3> QED BY <1>12, <1>13, <2>1, <2>2, <3>1
  <2>3. CASE ~(j < i)
    <3>1. PICK l \in Nat : l = Len(L) /\ l = i - 1 BY <1>9, <1>12
    <3>2. PICK k \in Nat : k = j - l BY <1>9, <2>3, <3>1
    <3>3. k \in 1..(n - i) /\ i + k = j + 1 /\ j = l + k
      <4>1. i \in Nat /\ j \in Nat /\ j <= n - 1 /\ i <= j /\ l = i - 1 BY <1>9, <2>3, <3>1
      <4>2. k = j - (i - 1) BY <3>2, <4>1
      <4> QED BY <4>1, <4>2
    <3>4. k \in 1..Len(M) BY <1>13, <3>3
    <3>5. (L \o M)[l + k] = M[k] BY <1>12, <1>13, <3>1, <3>4
    <3> QED BY <1>13, <2>1, <2>3, <3>3, <3>5
  <2> QED BY <2>2, <2>3
<1>16. /\ \A j, k \in 1..n : order[j] = order[k] => j = k
       /\ \A j \in 1..n : order[j] \in InTable
       /\ \A q \in InTable : \E j \in 1..n : order[j] = q
  BY <1>9 DEF Book, TableSound
<1>17. InTable' = InTable \ {p} BY <1>2, <1>5, <1>7 DEF InTable
<1>18. \A j \in 1..(n - 1) : /\ j < i => j \in 1..n /\ j # i
                             /\ ~(j < i) => j + 1 \in 1..n /\ j + 1 # i
  BY <1>9
<1>19. ASSUME NEW j \in 1..(n - 1), NEW k \in 1..(n - 1), order'[j] = order'[k] PROVE j = k
  <2>1. PICK u \in 1..n, v \in 1..n :
          /\ u = IF j < i THEN j ELSE j + 1
          /\ v = IF k < i THEN k ELSE k + 1
    BY <1>18
  <2>2. order'[j] = order[u] /\ order'[k] = order[v] BY <1>15, <2>1
  <2>3. u = v BY <1>16, <1>19, <2>2
  <2> QED BY <2>1, <2>3, <1>9
<1>20. ASSUME NEW j \in 1..(n - 1) PROVE order'[j] \in InTable'
  <2>1. PICK u \in 1..n : u = (IF j < i THEN j ELSE j + 1) /\ u # i BY <1>18
  <2>2. order'[j] = order[u] BY <1>15, <2>1
  <2>3. order[u] \in InTable /\ order[u] # order[i] BY <1>9, <1>16, <2>1
  <2>4. order[i] = p BY <1>1
  <2> QED BY <1>17, <2>2, <2>3, <2>4
<1>21. ASSUME NEW q \in InTable' PROVE \E j \in 1..(n - 1) : order'[j] = q
  <2>1. PICK k \in 1..n : order[k] = q BY <1>16, <1>17
  <2>2. k # i BY <1>1, <1>17, <2>1
  <2>3. CASE k < i
    <3>1. k \in 1..(n - 1) BY <1>9, <2>3
    <3> QED BY <1>15, <2>1, <2>3, <3>1
  <2>4. CASE ~(k < i)
    <3>1. k - 1 \in 1..(n - 1) /\ ~(k - 1 < i) /\ (k - 1) + 1 = k BY <1>9, <2>2, <2>4
    <3>2. order'[k - 1] = q BY <1>15, <2>1, <3>1
    <3> QED BY <3>1, <3>2
  <2> QED BY <2>3, <2>4
<1>22. TableSound' BY <1>14, <1>19, <1>20, <1>21 DEF TableSound
<1>23. RtTypes' BY <1>2, <1>5, <1>6, <1>14 DEF Book, RtTypes
<1>24. OneComes'
  <2>1. Coming' \subseteq Coming BY <1>5, <1>7 DEF Coming
  <2> QED BY <2>1 DEF Book, OneComes
<1>25. /\ owed'[p] = 0 /\ \A q \in RtIds \ {p} : owed'[q] = owed[q] /\ released'[q] = released[q]
  BY <1>2 DEF Book, RtTypes
<1>26. ASSUME NEW q \in RtIds PROVE RtSound(q)'
  <2>1. RtSound(q) BY DEF Book
  <2>2. CASE q = p BY <1>5, <1>7, <1>25, <2>2 DEF RtSound
  <2>3. CASE q # p BY <1>7, <1>25, <2>1, <2>3 DEF RtSound
  <2> QED BY <2>2, <2>3
<1> QED BY <1>22, <1>23, <1>24, <1>26 DEF Book

LEMMA ArrivesBooks ==
  ASSUME Book, NEW p \in RtIds, Arrives(p)
  PROVE  Book' /\ Serving' = Serving
<1>1. /\ rt[p].step = "declared" /\ rt' = rt /\ order' = order
      /\ owed' = [owed EXCEPT ![p] = rt[p].prog.c] /\ released' = [released EXCEPT ![p] = 0]
  BY DEF Arrives, Serving
<1>2. rt[p].prog \in RtPrograms /\ rt[p].prog.c \in Nat /\ rt[p].prog.t \in Nat
  BY <1>1, AdmitAssumption DEF Book, RtSound
<1>3. RtTypes' BY <1>1, <1>2 DEF Book, RtTypes
<1>4. TableSound' /\ OneComes' BY <1>1 DEF Book, TableSound, InTable, OneComes, Coming
<1>5. /\ released'[p] = 0
      /\ \A q \in RtIds \ {p} : owed'[q] = owed[q] /\ released'[q] = released[q]
  BY <1>1 DEF Book, RtTypes
<1>6. ASSUME NEW q \in RtIds PROVE RtSound(q)'
  <2>1. RtSound(q) BY DEF Book
  <2>2. CASE q = p BY <1>1, <1>2, <1>5, <2>1, <2>2 DEF RtSound
  <2>3. CASE q # p BY <1>1, <1>5, <2>1, <2>3 DEF RtSound
  <2> QED BY <2>2, <2>3
<1> QED BY <1>1, <1>3, <1>4, <1>6 DEF Book, Serving

LEMMA ElapseBooks ==
  ASSUME Book, Elapse
  PROVE  /\ Book' /\ Serving' = Serving /\ rt' = rt
         /\ \A q \in RtIds : released'[q] <= released[q] + 1
         /\ \A q \in Serving : released'[q] >= 1
         /\ Answering = {} => owed' = owed
         /\ Answering # {} => \E p \in Highest : /\ owed' = [owed EXCEPT ![p] = owed[p] - 1]
                                                 /\ owed[p] > 0 /\ p \in RtIds
<1>1. /\ rt' = rt /\ order' = order
      /\ released' = [p \in RtIds |-> IF p \in Serving THEN Min({released[p] + 1, rt[p].prog.t})
                                      ELSE released[p]]
  BY DEF Elapse
<1>2. \A q \in RtIds : RtSound(q) /\ released[q] \in Nat /\ owed[q] \in Nat BY DEF Book, RtTypes
<1>3. ASSUME NEW q \in Serving
      PROVE  /\ released'[q] \in Nat /\ released'[q] <= rt[q].prog.t /\ released'[q] >= 1
             /\ released'[q] <= released[q] + 1
  <2>1. q \in RtIds /\ rt[q].step = "declared" BY DEF Serving
  <2>2. rt[q].prog \in RtPrograms /\ released[q] \in Nat BY <1>2, <2>1 DEF RtSound
  <2>3. PICK m \in Nat, t \in Nat \ {0} : m = released[q] + 1 /\ t = rt[q].prog.t
    BY <2>2, AdmitAssumption
  <2>4. Min({m, t}) = IF m <= t THEN m ELSE t BY <2>3, LeastOfTwo
  <2>5. released'[q] = Min({m, t}) BY <1>1, <2>1, <2>3
  <2> QED BY <2>2, <2>3, <2>4, <2>5
<1>4. \A q \in RtIds \ Serving : released'[q] = released[q] BY <1>1
<1>5. /\ Answering = {} => owed' = owed
      /\ Answering # {} => \E p \in Highest : owed' = [owed EXCEPT ![p] = owed[p] - 1]
  BY DEF Elapse
<1>6. Highest \subseteq Answering BY DEF Highest
<1>7. \A p \in Answering : p \in RtIds /\ owed[p] > 0 /\ owed[p] - 1 \in Nat /\ rt[p].step = "declared"
  BY <1>2 DEF Answering, RtSound
<1>8. owed' \in [RtIds -> Nat] /\ \A q \in RtIds : owed[q] = 0 => owed'[q] = 0
  <2>1. CASE Answering = {} BY <1>5, <2>1 DEF Book, RtTypes
  <2>2. CASE Answering # {}
    <3>1. PICK p \in Highest : owed' = [owed EXCEPT ![p] = owed[p] - 1] BY <1>5, <2>2
    <3> QED BY <1>6, <1>7, <3>1 DEF Book, RtTypes
  <2> QED BY <2>1, <2>2
<1>9. released' \in [RtIds -> Nat]
  <2>1. \A q \in RtIds : released'[q] \in Nat BY <1>2, <1>3, <1>4
  <2>2. PICK f : f = released' OBVIOUS
  <2>3. f = [q \in RtIds |-> f[q]] BY <1>1, <2>2
  <2>4. \A q \in RtIds : f[q] \in Nat BY <2>1, <2>2
  <2>5. f \in [RtIds -> Nat] BY <2>3, <2>4
  <2> QED BY <2>2, <2>5
<1>10. RtTypes' BY <1>1, <1>8, <1>9 DEF Book, RtTypes
<1>11. TableSound' /\ OneComes' BY <1>1 DEF Book, TableSound, InTable, OneComes, Coming
<1>12. ASSUME NEW q \in RtIds PROVE RtSound(q)'
  <2>1. RtSound(q) BY DEF Book
  <2>2. q \in Serving <=> rt[q].step = "declared" BY DEF Serving
  <2> QED BY <1>1, <1>3, <1>8, <2>1, <2>2 DEF RtSound
<1>13. \A q \in RtIds : released'[q] <= released[q] + 1 BY <1>2, <1>3, <1>4
<1>14. Serving' = Serving BY <1>1 DEF Serving
<1>15. Book' BY <1>10, <1>11, <1>12 DEF Book
<1>16. \A q \in Serving : released'[q] >= 1 BY <1>3
<1>17. Answering # {} => \E p \in Highest : /\ owed' = [owed EXCEPT ![p] = owed[p] - 1]
                                            /\ owed[p] > 0 /\ p \in RtIds
  BY <1>5, <1>6, <1>7
<1> QED BY <1>1, <1>5, <1>13, <1>14, <1>15, <1>16, <1>17

(***************************************************************************)
(* Admission: what is admitted.                                            *)
(***************************************************************************)
\* What a task takes of a window of r units, and who may delay it in one.
Live == {p \in RtIds : rt[p].step # "none"}
Takes(r) == [q \in RtIds |-> IF q \in Live THEN Releases(rt[q].prog, r) * rt[q].prog.c ELSE 0]
Delays(p) == {q \in Live \ {p} : Urgent(p) => Urgent(q)}
Answered(p, r) ==
  r <= rt[p].prog.d /\ rt[p].prog.c + SumFunctionOnSet(Takes(r), Delays(p)) <= r

LEMMA TableCount ==
  ASSUME Book
  PROVE  Len(order) \in Nat /\ DOMAIN order = 1..Len(order) /\ Cardinality(InTable) = Len(order)
<1>1. PICK n \in Nat : n = Len(order) BY DEF Book, RtTypes
<1>2. order \in Seq(RtIds) /\ DOMAIN order = 1..n BY <1>1 DEF Book, RtTypes
<1>3. PICK f : f = [i \in 1..n |-> order[i]] OBVIOUS
<1>4. f \in Bijection(1..n, InTable)
  BY <1>2, <1>3 DEF Book, TableSound, Bijection, Injection, Surjection, IsInjective
<1>5. ExistsBijection(1..n, InTable) BY <1>4 DEF ExistsBijection
<1> QED BY <1>1, <1>2, <1>5, FS_CountingElements

LEMMA NoneIs == NoRt.step = "none"
<1>1. PICK no \in BOOLEAN : no = FALSE OBVIOUS
<1>2. NoRt = [step |-> "none", prog |-> NoProgram, urgent |-> no, seen |-> no, runs |-> no]
  BY <1>1 DEF NoRt
<1> QED BY <1>2

LEMMA KnownIsAll ==
  ASSUME Book, OneByOne, RtSlots <= Analysed, NEW p \in RtIds, NEW g \in RtPrograms, AdmitRt(p, g)
  PROVE  /\ Known = order /\ Len(order) < Analysed
         /\ InTable = Serving /\ p \notin InTable /\ rt[p].step = "none"
         /\ \A q \in RtIds : rt[q].step \in {"none", "declared"}
<1>1. \A q \in RtIds : rt[q].step \in {"none", "declared"} BY DEF AdmitRt
<1>2. InTable = Serving BY <1>1 DEF InTable, Serving
<1>3. rt[p].step = "none"
  <2>1. rt[p] = NoRt BY DEF AdmitRt
  <2> QED BY <2>1, NoneIs
<1>4. Cardinality(Serving) < RtSlots BY DEF AdmitRt
<1>5. PICK n \in Nat, m \in Nat : n = Len(order) /\ m = Analysed - 1 /\ n <= m
  <2>1. PICK n \in Nat : n = Len(order) /\ Cardinality(InTable) = n BY TableCount
  <2>2. n < RtSlots BY <1>2, <1>4, <2>1
  <2>3. PICK m \in Nat : m = Analysed - 1 /\ n <= m BY <2>2, AdmitAssumption
  <2> QED BY <2>1, <2>3
<1>6. Min({n, m}) = n BY <1>5, LeastOfTwo
<1>7. Known = SubSeq(order, 1, n) BY <1>5, <1>6 DEF Known
<1>8. order \in Seq(RtIds) BY DEF Book, RtTypes
<1>9. SubSeq(order, 1, n) = order BY <1>5, <1>8
<1>10. p \notin InTable BY <1>3 DEF InTable
<1>11. Len(order) < Analysed BY <1>5, AdmitAssumption
<1> QED BY <1>1, <1>2, <1>3, <1>7, <1>9, <1>10, <1>11

\* The workload, in the table's order with the newcomer last.
Analyses(tasks, p, g) ==
  /\ tasks \in Workloads /\ DOMAIN tasks = 1..(Len(order) + 1)
  /\ \A i \in 1..Len(order) : tasks[i] = Task(rt[order[i]].prog, TRUE)
  /\ tasks[Len(order) + 1] = Task(g, TRUE)

LEMMA WorkloadIs ==
  ASSUME Book, OneByOne, RtSlots <= Analysed, NEW p \in RtIds, NEW g \in RtPrograms, AdmitRt(p, g)
  PROVE  Analyses(Workload(g), p, g)
<1>1. PICK n \in Nat : n = Len(order) BY TableCount
<1>2. Known = order /\ n < Analysed /\ InTable = Serving BY <1>1, KnownIsAll
<1>3. DOMAIN order = 1..n BY <1>1, TableCount
<1>4. ASSUME NEW i \in 1..n
      PROVE  rt[order[i]].prog \in RtPrograms /\ Counted(order[i]) = TRUE
  <2>1. order[i] \in RtIds /\ rt[order[i]].step = "declared"
    BY <1>2, <1>3 DEF Book, TableSound, Serving
  <2>2. Counted(order[i]) BY <2>1 DEF Counted
  <2>3. Counted(order[i]) = TRUE BY <2>2, Zenon DEF Counted
  <2> QED BY <2>1, <2>3 DEF Book, RtSound
<1>5. PICK s : s = [i \in 1..n |-> Task(rt[order[i]].prog, TRUE)] OBVIOUS
<1>6. s \in Seq(TaskSet) /\ Len(s) = n /\ DOMAIN s = 1..n
  <2>1. \A i \in 1..n : Task(rt[order[i]].prog, TRUE) \in TaskSet BY <1>4 DEF TaskSet
  <2> HIDE DEF TaskSet
  <2>2. s \in [1..n -> TaskSet] BY <1>5, <2>1
  <2> QED BY <2>2
<1>7. [i \in DOMAIN Known |-> Task(rt[Known[i]].prog, Counted(Known[i]))] = s
  BY <1>2, <1>3, <1>4, <1>5
<1>8. PICK last \in TaskSet : last = Task(g, TRUE) BY DEF TaskSet
<1>9. Workload(g) = s \o <<last>> BY <1>7, <1>8 DEF Workload
<1>10. PICK w : w = s \o <<last>> OBVIOUS
<1>11. /\ w \in Seq(TaskSet) /\ Len(w) = n + 1 /\ DOMAIN w = 1..(n + 1) /\ w[n + 1] = last
       /\ \A i \in 1..n : w[i] = s[i]
  BY <1>6, <1>10
<1>12. n + 1 <= Analysed BY <1>2, AdmitAssumption
<1>13. w \in Workloads BY <1>11, <1>12 DEF Workloads
<1>14. \A i \in 1..n : w[i] = Task(rt[order[i]].prog, TRUE) BY <1>5, <1>11
<1> QED BY <1>1, <1>8, <1>9, <1>10, <1>11, <1>13, <1>14 DEF Analyses

At(s, q) == CHOOSE i \in DOMAIN s : s[i] = q
Moved(p, g, s, u, q) ==
  IF q = p THEN [step |-> "admitted", prog |-> g, urgent |-> (Len(s) + 1) \in u, seen |-> FALSE,
                 runs |-> (Len(s) + 1) \in u]
  ELSE IF q \in Range(s) THEN [rt[q] EXCEPT !.urgent = At(s, q) \in u, !.runs = At(s, q) \in u]
  ELSE rt[q]

\* Who is where, once it is admitted.
Admitted(p, g, u, tasks) ==
  /\ Analyses(tasks, p, g) /\ u \subseteq DOMAIN tasks
  /\ \A i \in DOMAIN tasks : Bound(tasks, u, i) <= tasks[i].d
  /\ rt'[p].step = "admitted" /\ rt'[p].prog = g
  /\ rt'[p].urgent = TRUE <=> Len(order) + 1 \in u
  /\ \A i \in 1..Len(order) :
       /\ rt'[order[i]].step = "declared" /\ rt'[order[i]].prog = rt[order[i]].prog
       /\ rt'[order[i]].urgent = TRUE <=> i \in u
       /\ rt'[order[i]].runs = rt'[order[i]].urgent
  /\ \A q \in RtIds \ (InTable \cup {p}) : rt'[q] = rt[q] /\ rt'[q].step = "none"
  /\ rt' \in [RtIds -> RtRecord]

LEMMA AdmitIs ==
  ASSUME Book, OneByOne, RtSlots <= Analysed, NEW p \in RtIds, NEW g \in RtPrograms, AdmitRt(p, g)
  PROVE  \E u, tasks : Admitted(p, g, u, tasks)
<1>1. PICK n \in Nat : n = Len(order) /\ DOMAIN order = 1..n BY TableCount
<1>2. PICK tasks : tasks = Workload(g) OBVIOUS
<1>3. PICK u : u = Place(tasks).urgent OBVIOUS
<1>4. Analyses(tasks, p, g) /\ tasks \in Workloads /\ DOMAIN tasks = 1..(n + 1)
  BY <1>1, <1>2, WorkloadIs DEF Analyses
<1>5. Place(tasks).ok BY <1>2 DEF AdmitRt
<1>6. u \subseteq DOMAIN tasks /\ \A i \in DOMAIN tasks : Bound(tasks, u, i) <= tasks[i].d
  BY <1>3, <1>4, <1>5, PlaceIs
<1>7. PICK b : b = [i \in 1..(n + 1) |-> i \in u] OBVIOUS
<1>8. \A i \in 1..(n + 1) : b[i] = (i \in u) /\ b[i] \in BOOLEAN /\ (b[i] = TRUE <=> i \in u)
  <2> TAKE i \in 1..(n + 1)
  <2>1. PICK x : x = b[i] OBVIOUS
  <2>2. x = (i \in u) BY <1>7, <2>1
  <2>3. x \in BOOLEAN BY <2>2
  <2>4. x = TRUE <=> i \in u BY <2>2
  <2> QED BY <2>1, <2>2, <2>3, <2>4
<1>9. Known = order /\ p \notin InTable /\ InTable = Serving
      /\ \A q \in RtIds : rt[q].step \in {"none", "declared"}
  BY KnownIsAll
<1>10. PICK no \in BOOLEAN : no = FALSE OBVIOUS
<1>11. /\ rt' = [q \in RtIds |-> rt'[q]]
       /\ \A q \in RtIds : rt'[q] = Moved(p, g, order, u, q)
  <2>1. rt' = [q \in RtIds |-> Moved(p, g, Known, Place(Workload(g)).urgent, q)]
    BY Zenon DEF AdmitRt, Moved, At
  <2>2. Known = order /\ Place(Workload(g)).urgent = u BY <1>2, <1>3, <1>9
  <2>3. \A q \in RtIds : rt'[q] = Moved(p, g, order, u, q) BY <2>1, <2>2
  <2> QED BY <2>1, <2>3
<1>12. rt'[p] = [step |-> "admitted", prog |-> g, urgent |-> b[n + 1], seen |-> no, runs |-> b[n + 1]]
  <2>1. rt'[p] = [step |-> "admitted", prog |-> g, urgent |-> (n + 1) \in u, seen |-> FALSE,
                  runs |-> (n + 1) \in u]
    BY <1>1, <1>11, Zenon DEF Moved
  <2>2. n + 1 \in 1..(n + 1) OBVIOUS
  <2>3. b[n + 1] = ((n + 1) \in u) BY <1>8, <2>2, Zenon
  <2> QED BY <1>10, <2>1, <2>3, Zenon
<1>13. rt'[p] \in RtRecord /\ rt'[p].step = "admitted" /\ rt'[p].prog = g /\ rt'[p].urgent = b[n + 1]
  <2>1. PICK x \in BOOLEAN : x = b[n + 1] BY <1>8
  <2> QED BY <1>12, <2>1 DEF RtRecord, Stages
<1>14. Range(order) = InTable /\ DOMAIN order = 1..n
  BY <1>1 DEF Book, TableSound, Range
<1>15. ASSUME NEW i \in 1..n
       PROVE  /\ rt'[order[i]] \in RtRecord /\ rt'[order[i]].step = "declared"
              /\ rt'[order[i]].prog = rt[order[i]].prog /\ rt'[order[i]].urgent = b[i]
              /\ rt'[order[i]].runs = b[i]
  <2>1. PICK q \in RtIds : q = order[i] BY <1>1 DEF Book, RtTypes
  <2>2. q \in Range(order) /\ q # p /\ q \in Serving BY <1>1, <1>9, <1>14, <2>1 DEF Range
  <2>3. At(order, q) = i BY <1>1, <2>1 DEF Book, TableSound, At
  <2>4. rt'[q] = [rt[q] EXCEPT !.urgent = i \in u, !.runs = i \in u]
    <3>1. rt'[q] = [rt[q] EXCEPT !.urgent = At(order, q) \in u, !.runs = At(order, q) \in u]
      BY <1>11, <2>2, Zenon DEF Moved
    <3> QED BY <2>3, <3>1, Zenon
  <2>5. i \in 1..(n + 1) OBVIOUS
  <2>16. b[i] = (i \in u) BY <1>8, <2>5, Zenon
  <2>6. PICK x \in BOOLEAN : x = b[i] BY <1>8
  <2>7. rt'[q] = [rt[q] EXCEPT !.urgent = x, !.runs = x] BY <2>4, <2>6, <2>16, Zenon
  <2>8. rt[q] \in RtRecord /\ rt[q].step = "declared" BY <2>2 DEF Book, RtTypes, Serving
  <2>9. PICK v, y : v = rt[q] /\ y = [v EXCEPT !.urgent = x] OBVIOUS
  <2>10. PICK c, s, r : c = v.prog /\ s = v.seen /\ r = v.runs OBVIOUS
  <2>11. /\ y = [step |-> "declared", prog |-> c, urgent |-> x, seen |-> s, runs |-> r]
         /\ c \in RtPrograms \cup {NoProgram} /\ s \in BOOLEAN
    BY <2>8, <2>9, <2>10 DEF RtRecord
  <2>12. [y EXCEPT !.runs = x] = [step |-> "declared", prog |-> c, urgent |-> x, seen |-> s, runs |-> x]
    BY <2>11
  <2>13. [v EXCEPT !.urgent = x, !.runs = x] = [y EXCEPT !.runs = x]
    BY <2>8, <2>9 DEF RtRecord
  <2>14. rt'[q] = [step |-> "declared", prog |-> c, urgent |-> x, seen |-> s, runs |-> x]
    BY <2>7, <2>9, <2>12, <2>13
  <2>15. rt'[q] \in RtRecord /\ rt'[q].step = "declared" /\ rt'[q].prog = c /\ rt'[q].urgent = x
         /\ rt'[q].runs = x
    BY <2>11, <2>14 DEF RtRecord, Stages
  <2> QED BY <2>1, <2>6, <2>9, <2>10, <2>15
<1>16. ASSUME NEW q \in RtIds \ (InTable \cup {p}) PROVE rt'[q] = rt[q] /\ rt'[q].step = "none"
  <2>1. rt'[q] = rt[q] BY <1>11, <1>14, Zenon DEF Moved
  <2>2. rt[q].step = "none" BY <1>9 DEF Serving
  <2> QED BY <2>1, <2>2
<1>17. rt' \in [RtIds -> RtRecord]
  <2>1. ASSUME NEW q \in RtIds PROVE rt'[q] \in RtRecord
    <3>1. CASE q = p BY <1>13, <3>1
    <3>2. CASE q \in InTable
      <4>1. PICK i \in 1..n : order[i] = q BY <1>14, <3>2 DEF Range
      <4> QED BY <1>15, <4>1
    <3>3. CASE q \notin InTable \cup {p} BY <1>16, <3>3 DEF Book, RtTypes
    <3> QED BY <3>1, <3>2, <3>3
  <2>2. PICK f : f = rt' OBVIOUS
  <2>3. f = [q \in RtIds |-> f[q]] BY <1>11, <2>2, Zenon
  <2>4. f \in [RtIds -> RtRecord] BY <2>1, <2>2, <2>3
  <2> QED BY <2>2, <2>4
<1>18. n + 1 \in 1..(n + 1) /\ 1..n \subseteq 1..(n + 1) OBVIOUS
<1>19. \A i \in 1..n : /\ rt'[order[i]].urgent = TRUE <=> i \in u
                       /\ rt'[order[i]].runs = rt'[order[i]].urgent
  BY <1>8, <1>15, <1>18
<1>20. rt'[p].urgent = TRUE <=> n + 1 \in u BY <1>8, <1>13, <1>18
<1>21. Admitted(p, g, u, tasks)
  BY <1>1, <1>4, <1>6, <1>13, <1>15, <1>16, <1>17, <1>19, <1>20 DEF Admitted
<1> QED BY <1>21

LEMMA AdmitBooks ==
  ASSUME Book, OneByOne, RtSlots <= Analysed, NEW p \in RtIds, NEW g \in RtPrograms, AdmitRt(p, g)
  PROVE  Book'
<1>1. PICK n \in Nat : n = Len(order) /\ DOMAIN order = 1..n BY TableCount
<1>2. /\ rt'[p].step = "admitted" /\ rt'[p].prog = g
      /\ \A i \in 1..n : /\ rt'[order[i]].step = "declared"
                         /\ rt'[order[i]].prog = rt[order[i]].prog
                         /\ rt'[order[i]].runs = rt'[order[i]].urgent
      /\ \A q \in RtIds \ (InTable \cup {p}) : rt'[q] = rt[q] /\ rt'[q].step = "none"
      /\ rt' \in [RtIds -> RtRecord]
  <2>1. PICK u, tasks : Admitted(p, g, u, tasks) BY AdmitIs
  <2> QED BY <1>1, <2>1 DEF Admitted
<1>3. order' = order /\ owed' = owed /\ released' = released BY DEF AdmitRt
<1>4. p \notin InTable /\ InTable = Serving /\ rt[p].step = "none" BY KnownIsAll
<1>5. ASSUME NEW q \in InTable
      PROVE  /\ rt'[q].step = "declared" /\ rt'[q].prog = rt[q].prog
             /\ rt'[q].runs = rt'[q].urgent
  <2>1. PICK i \in 1..n : order[i] = q BY <1>1 DEF Book, TableSound
  <2> QED BY <1>2, <2>1
<1>6. InTable' = InTable BY <1>2, <1>4, <1>5 DEF InTable
<1>7. TableSound' BY <1>3, <1>6 DEF Book, TableSound
<1>8. RtTypes' BY <1>2, <1>3 DEF Book, RtTypes
<1>9. Coming' \subseteq {p}
  <2>1. ASSUME NEW q \in RtIds, q # p PROVE rt'[q].step \in {"none", "declared"}
    BY <1>2, <1>5, <2>1
  <2> QED BY <2>1 DEF Coming
<1>10. OneComes' BY <1>9 DEF OneComes
<1>11. RtSound(p)'
  <2>1. g.d <= g.t BY DEF AdmitRt
  <2>2. owed[p] = 0 BY <1>4 DEF Book, RtSound
  <2> QED BY <1>2, <1>3, <2>1, <2>2 DEF RtSound
<1>12. ASSUME NEW q \in InTable PROVE RtSound(q)'
  <2>1. rt[q].step = "declared" BY <1>4 DEF Serving
  <2>2. RtSound(q) BY <1>4 DEF Book, Serving
  <2> QED BY <1>3, <1>5, <2>1, <2>2 DEF RtSound
<1>13. ASSUME NEW q \in RtIds \ (InTable \cup {p}) PROVE RtSound(q)'
  <2>1. RtSound(q) BY DEF Book
  <2> QED BY <1>2, <1>3, <2>1 DEF RtSound
<1>14. \A q \in RtIds : RtSound(q)' BY <1>11, <1>12, <1>13
<1> QED BY <1>7, <1>8, <1>10, <1>14 DEF Book

\* What was analysed is what is there, the names of the tasks apart.
LEMMA AnsweredAnew ==
  ASSUME Book, OneByOne, RtSlots <= Analysed, Converges,
         NEW p \in RtIds, NEW g \in RtPrograms, AdmitRt(p, g), NEW q \in Live'
  PROVE  \E r \in Nat : Answered(q, r)'
<1>1. PICK n \in Nat : n = Len(order) /\ DOMAIN order = 1..n BY TableCount
<1>2. PICK u, tasks : Admitted(p, g, u, tasks) BY AdmitIs
<1>3. PICK D : D = 1..(n + 1) OBVIOUS
<1>4. /\ DOMAIN tasks = D /\ tasks \in Workloads /\ n + 1 \in D /\ 1..n \subseteq D
      /\ \A i \in D : i = n + 1 \/ i \in 1..n
  BY <1>1, <1>2, <1>3 DEF Analyses, Admitted
<1>5. PICK id : id = [j \in D |-> IF j = n + 1 THEN p ELSE order[j]] OBVIOUS
<1>6. id[n + 1] = p /\ \A j \in 1..n : id[j] = order[j] BY <1>3, <1>5
<1>7. \A j \in D : tasks[j] = Task(rt'[id[j]].prog, TRUE)
  <2>1. tasks[n + 1] = Task(rt'[id[n + 1]].prog, TRUE) BY <1>1, <1>2, <1>6 DEF Analyses, Admitted
  <2>2. ASSUME NEW j \in 1..n PROVE tasks[j] = Task(rt'[id[j]].prog, TRUE)
    <3>1. tasks[j] = Task(rt[order[j]].prog, TRUE) BY <1>1, <1>2 DEF Analyses, Admitted
    <3>2. rt'[order[j]].prog = rt[order[j]].prog BY <1>1, <1>2 DEF Admitted
    <3> QED BY <1>6, <3>1, <3>2
  <2> QED BY <1>4, <2>1, <2>2
<1>8. \A j \in D : Urgent(id[j])' <=> j \in u
  <2>1. Urgent(id[n + 1])' <=> n + 1 \in u BY <1>1, <1>2, <1>6 DEF Urgent, Admitted
  <2>2. \A j \in 1..n : Urgent(id[j])' <=> j \in u BY <1>1, <1>2, <1>6 DEF Urgent, Admitted
  <2> QED BY <1>4, <2>1, <2>2
<1>9. p \notin InTable BY KnownIsAll
<1>10. /\ \A j \in D : id[j] \in Live'
       /\ \A i, j \in D : id[i] = id[j] => i = j
       /\ \A x \in Live' : \E j \in D : id[j] = x
  <2>1. \A j \in 1..n : order[j] \in InTable /\ order[j] \in RtIds
    BY <1>1 DEF Book, TableSound, RtTypes
  <2>2. \A j \in D : id[j] \in Live'
    <3>1. id[n + 1] \in Live' BY <1>2, <1>6 DEF Live, Admitted
    <3>2. \A j \in 1..n : id[j] \in Live' BY <1>1, <1>2, <1>6, <2>1 DEF Live, Admitted
    <3> QED BY <1>4, <3>1, <3>2
  <2>3. ASSUME NEW i \in D, NEW j \in D, id[i] = id[j] PROVE i = j
    <3>1. CASE i = n + 1 /\ j = n + 1 BY <3>1
    <3>2. CASE i = n + 1 /\ j # n + 1 BY <1>4, <1>6, <1>9, <2>1, <2>3, <3>2
    <3>3. CASE i # n + 1 /\ j = n + 1 BY <1>4, <1>6, <1>9, <2>1, <2>3, <3>3
    <3>4. CASE i # n + 1 /\ j # n + 1
      <4>1. i \in 1..n /\ j \in 1..n /\ order[i] = order[j] BY <1>4, <1>6, <2>3, <3>4
      <4> QED BY <1>1, <4>1 DEF Book, TableSound
    <3> QED BY <3>1, <3>2, <3>3, <3>4
  <2>4. ASSUME NEW x \in Live' PROVE \E j \in D : id[j] = x
    <3>1. x \in RtIds /\ x \in InTable \cup {p} BY <1>2 DEF Live, Admitted
    <3>2. CASE x = p BY <1>4, <1>6, <3>2
    <3>3. CASE x \in InTable
      <4>1. PICK j \in 1..n : order[j] = x BY <1>1, <3>3 DEF Book, TableSound
      <4> QED BY <1>4, <1>6, <4>1
    <3> QED BY <3>1, <3>2, <3>3
  <2> QED BY <2>2, <2>3, <2>4
<1>11. PICK i \in D : id[i] = q BY <1>10
<1>12. PICK r \in Nat : /\ r = Bound(tasks, u, i) /\ r <= tasks[i].d
                        /\ Needed(tasks, u, i, r) <= r
  <2>1. PICK r : r = Bound(tasks, u, i) OBVIOUS
  <2>2. r <= tasks[i].d BY <1>2, <1>4, <2>1 DEF Admitted
  <2>3. u \in SUBSET DOMAIN tasks BY <1>2 DEF Admitted
  <2>4. r \in Nat /\ Needed(tasks, u, i, r) <= r BY <1>4, <2>1, <2>2, <2>3, Zenon DEF Converges
  <2> QED BY <2>1, <2>2, <2>4
<1>13. PICK A : A = Ahead(tasks, u, i) OBVIOUS
<1>14. A = {j \in D \ {i} : i \in u => j \in u}
  <2>1. \A j \in D : tasks[j].bounded = TRUE BY <1>4, TaskIs
  <2> QED BY <1>4, <1>13, <2>1 DEF Ahead
<1>15. PICK B : B = Delays(q)' OBVIOUS
<1>16. B = {x \in Live' \ {q} : Urgent(q)' => Urgent(x)'} BY <1>15 DEF Delays
<1>17. PICK b : b = [j \in A |-> id[j]] OBVIOUS
<1>18. b \in Bijection(A, B)
  <2>1. \A j \in A : b[j] \in B BY <1>8, <1>10, <1>11, <1>14, <1>16, <1>17
  <2>2. \A j, k \in A : b[j] = b[k] => j = k BY <1>10, <1>14, <1>17
  <2>3. ASSUME NEW x \in B PROVE \E j \in A : b[j] = x
    <3>1. PICK j \in D : id[j] = x BY <1>10, <1>16
    <3>2. j \in A BY <1>8, <1>11, <1>14, <1>16, <3>1
    <3> QED BY <1>17, <3>1, <3>2
  <2> QED BY <1>17, <2>1, <2>2, <2>3 DEF Bijection, Injection, Surjection, IsInjective
<1>19. PICK f : f = [j \in DOMAIN tasks |-> Releases(tasks[j], r) * tasks[j].c] OBVIOUS
<1>20. PICK h : h = Takes(r)' OBVIOUS
<1>21. ASSUME NEW j \in A PROVE f[j] \in Nat /\ h[b[j]] = f[j]
  <2>1. j \in D /\ b[j] = id[j] /\ id[j] \in Live' BY <1>10, <1>14, <1>17
  <2>2. tasks[j].c \in Nat /\ tasks[j].t \in Nat \ {0} BY <1>4, <2>1, TaskIs
  <2>3. Releases(tasks[j], r) \in Nat BY <2>2, ReleasesIs
  <2>4. PICK v : v = rt'[id[j]].prog OBVIOUS
  <2>5. tasks[j] = Task(v, TRUE) BY <1>7, <2>1, <2>4
  <2>6. tasks[j].t = v.t /\ tasks[j].c = v.c BY <2>5 DEF Task
  <2>7. Releases(tasks[j], r) = Releases(v, r) BY <2>6 DEF Releases
  <2>8. h[id[j]] = Releases(v, r) * v.c BY <1>20, <2>1, <2>4 DEF Takes, Live
  <2>9. f[j] = Releases(tasks[j], r) * tasks[j].c BY <1>4, <1>19, <2>1
  <2>10. f[j] \in Nat BY <2>2, <2>3, <2>9, Products
  <2> QED BY <2>1, <2>6, <2>7, <2>8, <2>9, <2>10
<1>22. IsFiniteSet(A)
  <2>1. A \subseteq D /\ IsFiniteSet(D) BY <1>3, <1>14, FS_Interval
  <2> QED BY <2>1, FS_Subset
<1>23. SumFunctionOnSet(h, B) = SumFunctionOnSet(f, A) BY <1>18, <1>21, <1>22, SumRenamed
<1>24. Needed(tasks, u, i, r) = tasks[i].c + SumFunctionOnSet(f, A) BY <1>13, <1>19 DEF Needed
<1>25. tasks[i].c = rt'[q].prog.c /\ tasks[i].d = rt'[q].prog.d
  <2>1. PICK v : v = rt'[q].prog OBVIOUS
  <2>2. tasks[i] = Task(v, TRUE) BY <1>7, <1>11, <2>1
  <2> QED BY <2>1, <2>2 DEF Task
<1>26. rt'[q].prog.c + SumFunctionOnSet(h, B) <= r BY <1>12, <1>23, <1>24, <1>25
<1>27. r <= rt'[q].prog.d BY <1>12, <1>25
<1>28. Answered(q, r)' BY <1>15, <1>20, <1>26, <1>27 DEF Answered
<1> QED BY <1>28

(***************************************************************************)
(* Admission: the window.  Of what runs for a process - itself, its peers  *)
(* and all above it - the processor has been serving something without a   *)
(* break for a units, since when it has been released k[q] times.          *)
(***************************************************************************)
Level(p) == {q \in Serving : Urgent(p) => Urgent(q)}
Did(k) == [q \in RtIds |-> IF q \in Live THEN k[q] * rt[q].prog.c ELSE 0]
Began(q, n, a) == n > 0 => released[q] + (n - 1) * rt[q].prog.t <= a
InWindow(p, a, k) ==
  /\ k \in [RtIds -> Nat]
  /\ SumFunctionOnSet(owed, Level(p)) + a = SumFunctionOnSet(Did(k), Level(p))
  /\ \A q \in Level(p) : Began(q, k[q], a) /\ (owed[q] > 0 => k[q] > 0)
  /\ \A q \in RtIds \ Level(p) : k[q] = 0
Within(p, r) == \E a \in Nat : a < r /\ \E k : InWindow(p, a, k)
InTime(p) == \E r \in Nat : Answered(p, r) /\ Within(p, r)

LEMMA LiveIs ==
  ASSUME Book, NEW q \in Live
  PROVE  /\ rt[q].prog \in RtPrograms /\ rt[q].prog.c \in Nat \ {0} /\ rt[q].prog.t \in Nat \ {0}
         /\ rt[q].prog.d \in Nat /\ rt[q].prog.d <= rt[q].prog.t /\ q \in RtIds
<1>1. rt[q].step # "none" /\ q \in RtIds BY DEF Live
<1>2. rt[q].prog \in RtPrograms /\ rt[q].prog.d <= rt[q].prog.t BY <1>1 DEF Book, RtSound
<1> QED BY <1>1, <1>2, AdmitAssumption

LEMMA LevelIs ==
  ASSUME Book, NEW p
  PROVE  /\ Level(p) \subseteq Serving /\ Serving \subseteq Live /\ Live \subseteq RtIds
         /\ IsFiniteSet(Level(p)) /\ IsFiniteSet(Live)
         /\ \A q \in RtIds : owed[q] \in Nat /\ released[q] \in Nat /\ (owed[q] > 0 => q \in Serving)
<1>1. Level(p) \subseteq Serving BY DEF Level
<1>2. Serving \subseteq Live BY DEF Serving, Live
<1>3. Live \subseteq RtIds BY DEF Live
<1>4. IsFiniteSet(Live) /\ IsFiniteSet(Level(p)) BY <1>1, <1>2, <1>3, AdmitAssumption, FS_Subset
<1>5. ASSUME NEW q \in RtIds
      PROVE  owed[q] \in Nat /\ released[q] \in Nat /\ (owed[q] > 0 => q \in Serving)
  BY DEF Book, RtTypes, RtSound, Serving
<1> QED BY <1>1, <1>2, <1>3, <1>4, <1>5

LEMMA DidIs ==
  ASSUME Book, NEW k \in [RtIds -> Nat]
  PROVE  /\ \A q \in RtIds : Did(k)[q] \in Nat
         /\ \A q \in Live : Did(k)[q] = k[q] * rt[q].prog.c
<1>1. ASSUME NEW q \in Live PROVE Did(k)[q] = k[q] * rt[q].prog.c /\ Did(k)[q] \in Nat
  <2>1. rt[q].prog.c \in Nat /\ q \in RtIds BY LiveIs
  <2>2. Did(k)[q] = k[q] * rt[q].prog.c BY <2>1 DEF Did
  <2>3. k[q] \in Nat BY <2>1
  <2>4. k[q] * rt[q].prog.c \in Nat BY <2>1, <2>3, Products
  <2> QED BY <2>2, <2>4
<1>2. ASSUME NEW q \in RtIds \ Live PROVE Did(k)[q] = 0 BY DEF Did
<1> QED BY <1>1, <1>2

LEMMA TakesIs ==
  ASSUME Book, NEW r \in Nat
  PROVE  /\ \A q \in RtIds : Takes(r)[q] \in Nat
         /\ \A q \in Live : Takes(r)[q] = Releases(rt[q].prog, r) * rt[q].prog.c
                            /\ Releases(rt[q].prog, r) \in Nat
<1>1. ASSUME NEW q \in Live
      PROVE  /\ Takes(r)[q] = Releases(rt[q].prog, r) * rt[q].prog.c /\ Takes(r)[q] \in Nat
             /\ Releases(rt[q].prog, r) \in Nat
  <2>1. rt[q].prog.c \in Nat /\ q \in RtIds /\ rt[q].prog.t \in Nat \ {0} BY LiveIs
  <2>2. Takes(r)[q] = Releases(rt[q].prog, r) * rt[q].prog.c BY <2>1 DEF Takes
  <2>3. Releases(rt[q].prog, r) \in Nat BY <2>1, ReleasesIs
  <2>4. Releases(rt[q].prog, r) * rt[q].prog.c \in Nat BY <2>1, <2>3, Products
  <2> QED BY <2>2, <2>3, <2>4
<1>2. ASSUME NEW q \in RtIds \ Live PROVE Takes(r)[q] = 0 BY DEF Takes
<1> QED BY <1>1, <1>2

LEMMA DelaysIs ==
  ASSUME Book, NEW p \in Live, NEW r \in Nat
  PROVE  /\ Delays(p) \subseteq Live /\ IsFiniteSet(Delays(p)) /\ Level(p) \subseteq Delays(p) \cup {p}
         /\ SumFunctionOnSet(Takes(r), Delays(p)) \in Nat /\ p \notin Delays(p)
<1>1. Delays(p) \subseteq Live /\ p \notin Delays(p) BY DEF Delays
<1>2. Live \subseteq RtIds /\ IsFiniteSet(Live) /\ Serving \subseteq Live BY LevelIs
<1>3. IsFiniteSet(Delays(p)) BY <1>1, <1>2, FS_Subset
<1>4. Level(p) \subseteq Delays(p) \cup {p} BY <1>2 DEF Level, Delays
<1>5. \A q \in Delays(p) : Takes(r)[q] \in Nat BY <1>1, <1>2, TakesIs
<1>6. SumFunctionOnSet(Takes(r), Delays(p)) \in Nat BY <1>3, <1>5, SumOne
<1> QED BY <1>1, <1>3, <1>4, <1>6

\* Where nothing is owed, a window begins.
LEMMA FreshWindow ==
  ASSUME Book, NEW p \in Live, NEW r \in Nat, Answered(p, r), \A q \in Level(p) : owed[q] = 0
  PROVE  Within(p, r)
<1>1. /\ Level(p) \subseteq RtIds /\ IsFiniteSet(Level(p)) /\ Level(p) \subseteq Live
      /\ \A q \in RtIds : owed[q] \in Nat
  BY LevelIs
<1>2. PICK k : k = [q \in RtIds |-> 0] OBVIOUS
<1>3. k \in [RtIds -> Nat] /\ \A q \in RtIds : k[q] = 0 BY <1>2
<1>4. ASSUME NEW q \in Level(p) PROVE Did(k)[q] = 0 /\ Did(k)[q] \in Nat
  <2>1. rt[q].prog.c \in Nat /\ q \in Live /\ k[q] = 0 BY <1>1, <1>3, LiveIs
  <2>2. Did(k)[q] = k[q] * rt[q].prog.c BY <1>3, <2>1, DidIs
  <2> QED BY <2>1, <2>2
<1>5. SumFunctionOnSet(Did(k), Level(p)) = 0 BY <1>1, <1>4, SumZero
<1>6. SumFunctionOnSet(owed, Level(p)) = 0 BY <1>1, SumZero
<1>7. \A q \in Level(p) : Began(q, k[q], 0) /\ (owed[q] > 0 => k[q] > 0) BY <1>1, <1>3 DEF Began
<1>8. InWindow(p, 0, k) BY <1>3, <1>5, <1>6, <1>7 DEF InWindow
<1>9. 0 < r
  <2>1. rt[p].prog.c \in Nat \ {0} BY LiveIs
  <2>2. SumFunctionOnSet(Takes(r), Delays(p)) \in Nat BY DelaysIs
  <2> QED BY <2>1, <2>2 DEF Answered
<1> QED BY <1>8, <1>9 DEF Within

\* A window of r units holds what was reckoned with, so that at its end nothing
\* is owed.
LEMMA WindowHolds ==
  ASSUME Book, NEW p \in Live, NEW r \in Nat, Answered(p, r), NEW a \in Nat, a < r,
         NEW k, InWindow(p, a, k)
  PROVE  SumFunctionOnSet(Did(k), Level(p)) <= r
<1>1. /\ Level(p) \subseteq RtIds /\ IsFiniteSet(Level(p)) /\ Level(p) \subseteq Live
      /\ Live \subseteq RtIds /\ \A q \in RtIds : released[q] \in Nat
  BY LevelIs
<1>2. k \in [RtIds -> Nat] /\ \A q \in Level(p) : Began(q, k[q], a) BY DEF InWindow
<1>3. \A q \in RtIds \ Level(p) : k[q] = 0 BY DEF InWindow
<1>4. PICK D : D = Delays(p) OBVIOUS
<1>5. D \subseteq Live /\ IsFiniteSet(D) /\ Level(p) \subseteq D \cup {p} /\ p \notin D
  BY <1>4, DelaysIs
<1>6. ASSUME NEW q \in Level(p), k[q] > 0 PROVE (k[q] - 1) * rt[q].prog.t <= a
  <2>1. PICK t \in Nat \ {0}, m \in Nat, y \in Nat : t = rt[q].prog.t /\ m = k[q] - 1 /\ y = released[q]
    BY <1>1, <1>2, <1>6, LiveIs
  <2>2. y + m * t <= a BY <1>2, <1>6, <2>1 DEF Began
  <2>3. m * t \in Nat BY <2>1, Products
  <2> QED BY <2>1, <2>2, <2>3
<1>7. ASSUME NEW q \in D PROVE Did(k)[q] \in Nat /\ Did(k)[q] <= Takes(r)[q] /\ Takes(r)[q] \in Nat
  <2>1. q \in Live /\ q \in RtIds /\ rt[q].prog.c \in Nat /\ rt[q].prog.t \in Nat \ {0}
    BY <1>1, <1>5, LiveIs
  <2>2. PICK n \in Nat, c \in Nat, x \in Nat : /\ n = k[q] /\ c = rt[q].prog.c
                                               /\ x = Releases(rt[q].prog, r)
    BY <1>2, <2>1, ReleasesIs
  <2>3. n <= x
    <3>1. CASE n = 0 BY <2>2, <3>1
    <3>2. CASE n > 0
      <4>1. q \in Level(p) BY <1>3, <2>1, <2>2, <3>2
      <4>2. (n - 1) * rt[q].prog.t <= a BY <1>6, <2>2, <3>2, <4>1
      <4>3. PICK m \in Nat, t \in Nat \ {0} : m = n - 1 /\ t = rt[q].prog.t BY <2>1, <3>2
      <4>4. m * t \in Nat /\ m * t <= a BY <4>2, <4>3, Products
      <4>5. (n - 1) * rt[q].prog.t + 1 <= r BY <4>3, <4>4
      <4> QED BY <2>1, <2>2, <3>2, <4>5, ReleasesIs
    <3> QED BY <3>1, <3>2
  <2>4. Did(k)[q] = n * c /\ Did(k)[q] \in Nat BY <1>2, <2>1, <2>2, DidIs
  <2>5. Takes(r)[q] = x * c /\ Takes(r)[q] \in Nat BY <2>1, <2>2, TakesIs
  <2>6. n * c <= x * c BY <2>2, <2>3, Products
  <2> QED BY <2>4, <2>5, <2>6
<1>8. SumFunctionOnSet(Did(k), D) <= SumFunctionOnSet(Takes(r), D)
  BY <1>5, <1>7, SumMore
<1>9. Did(k)[p] \in Nat /\ Did(k)[p] <= rt[p].prog.c
  <2>1. PICK c \in Nat, d \in Nat, t \in Nat, n \in Nat :
          /\ c = rt[p].prog.c /\ d = rt[p].prog.d /\ t = rt[p].prog.t /\ n = k[p] /\ d <= t
    BY <1>2, LiveIs
  <2>2. Did(k)[p] = n * c /\ Did(k)[p] \in Nat BY <1>1, <1>2, <2>1, DidIs
  <2>3. r <= d BY <2>1 DEF Answered
  <2>4. n <= 1
    <3>1. CASE p \notin Level(p) BY <1>1, <1>3, <2>1, <3>1
    <3>2. CASE p \in Level(p)
      <4>1. SUFFICES ASSUME n >= 2 PROVE FALSE BY <2>1
      <4>2. PICK m \in Nat : m = n - 1 /\ 1 <= m BY <4>1
      <4>3. m * t <= a BY <1>6, <2>1, <3>2, <4>1, <4>2
      <4>4. 1 * t <= m * t /\ m * t \in Nat BY <2>1, <4>2, Products
      <4> QED BY <2>1, <2>3, <4>3, <4>4
    <3> QED BY <3>1, <3>2
  <2>5. n * c <= 1 * c BY <2>1, <2>4, Products
  <2> QED BY <2>1, <2>2, <2>5
<1>10. ASSUME NEW q \in D \cup {p} PROVE Did(k)[q] \in Nat BY <1>7, <1>9
<1>11. SumFunctionOnSet(Did(k), D \cup {p}) = SumFunctionOnSet(Did(k), D) + Did(k)[p]
  BY <1>5, <1>10, SumAdd
<1>12. IsFiniteSet(D \cup {p}) BY <1>5, FS_AddElement
<1>13. SumFunctionOnSet(Did(k), Level(p)) <= SumFunctionOnSet(Did(k), D \cup {p})
  <2>1. \A q \in Level(p) : Did(k)[q] \in Nat /\ Did(k)[q] <= Did(k)[q] BY <1>5, <1>10
  <2> QED BY <1>5, <1>10, <1>12, <2>1, SumMore
<1>14. /\ SumFunctionOnSet(Did(k), D) \in Nat /\ SumFunctionOnSet(Takes(r), D) \in Nat
       /\ SumFunctionOnSet(Did(k), Level(p)) \in Nat
  <2>1. \A q \in Level(p) : Did(k)[q] \in Nat BY <1>5, <1>10
  <2> QED BY <1>1, <1>5, <1>7, <2>1, SumOne
<1>15. rt[p].prog.c + SumFunctionOnSet(Takes(r), D) <= r BY <1>4 DEF Answered
<1>16. rt[p].prog.c \in Nat BY LiveIs
<1> QED BY <1>8, <1>9, <1>11, <1>13, <1>14, <1>15, <1>16

\* The same of the state a step leads to.
FreshFor(p, r) == Answered(p, r) /\ (\A q \in Level(p) : owed[q] = 0) => Within(p, r)
Freshens == Book => \A p \in Live : \A r \in Nat : FreshFor(p, r)

LEMMA FreshNext == Freshens'
<1>1. Freshens BY FreshWindow DEF Freshens, FreshFor
<1> QED BY <1>1, PTL

LEMMA LevelNext ==
  ASSUME Book', NEW p
  PROVE  /\ Level(p)' \subseteq Serving' /\ Serving' \subseteq Live' /\ Live' \subseteq RtIds
         /\ IsFiniteSet(Level(p)') /\ IsFiniteSet(Live')
<1>1. Level(p)' \subseteq Serving' BY DEF Level
<1>2. Serving' \subseteq Live' BY DEF Serving, Live
<1>3. Live' \subseteq RtIds BY DEF Live
<1>4. IsFiniteSet(Live') /\ IsFiniteSet(Level(p)') BY <1>1, <1>2, <1>3, AdmitAssumption, FS_Subset
<1> QED BY <1>1, <1>2, <1>3, <1>4

\* Whoever is left is delayed by no more than before.
LEMMA StillAnswered ==
  ASSUME Book, Live' \subseteq Live,
         \A q \in Live' : rt'[q].prog = rt[q].prog /\ rt'[q].urgent = rt[q].urgent,
         NEW p \in Live', NEW r \in Nat, Answered(p, r)
  PROVE  Answered(p, r)'
<1>1. p \in Live BY DEF Live
<1>2. PICK D, E : D = Delays(p) /\ E = Delays(p)' OBVIOUS
<1>3. E \subseteq D BY <1>2 DEF Delays, Urgent
<1>4. D \subseteq Live /\ IsFiniteSet(D) /\ Live \subseteq RtIds BY <1>1, <1>2, DelaysIs, LevelIs
<1>5. PICK f, h : f = Takes(r)' /\ h = Takes(r) OBVIOUS
<1>6. \A q \in D : h[q] \in Nat BY <1>4, <1>5, TakesIs
<1>7. E \subseteq Live' BY <1>2 DEF Delays
<1>8. ASSUME NEW q \in E PROVE f[q] \in Nat /\ f[q] <= h[q]
  <2>1. q \in Live' /\ q \in RtIds /\ q \in Live BY <1>3, <1>4, <1>7
  <2>2. f[q] = Releases(rt'[q].prog, r) * rt'[q].prog.c BY <1>5, <2>1 DEF Takes
  <2>3. h[q] = Releases(rt[q].prog, r) * rt[q].prog.c BY <1>5, <2>1 DEF Takes
  <2>4. f[q] = h[q] BY <2>1, <2>2, <2>3
  <2> QED BY <1>3, <1>6, <2>4
<1>9. PICK x, y : x = SumFunctionOnSet(f, E) /\ y = SumFunctionOnSet(h, D) OBVIOUS
<1>10. x <= y BY <1>3, <1>4, <1>6, <1>8, <1>9, SumMore
<1>11. x \in Nat /\ y \in Nat
  <2>1. IsFiniteSet(E) BY <1>3, <1>4, FS_Subset
  <2> QED BY <1>4, <1>6, <1>8, <1>9, <2>1, SumOne
<1>12. PICK c \in Nat, d \in Nat : c = rt[p].prog.c /\ d = rt[p].prog.d BY <1>1, LiveIs
<1>13. r <= d /\ c + y <= r BY <1>2, <1>5, <1>9, <1>12 DEF Answered
<1>14. c + x <= r BY <1>10, <1>11, <1>13
<1>15. rt'[p].prog.c = c /\ rt'[p].prog.d = d BY <1>12
<1> QED BY <1>2, <1>5, <1>9, <1>13, <1>14, <1>15 DEF Answered

\* A step that only lets others in, who owe nothing yet.
LEMMA WindowStays ==
  ASSUME Book, Book', Serving \subseteq Serving', Live' \subseteq Live,
         \A q \in Live' : rt'[q].prog = rt[q].prog /\ rt'[q].urgent = rt[q].urgent,
         \A q \in Serving : owed'[q] = owed[q] /\ released'[q] = released[q],
         \A q \in Serving' \ Serving : owed'[q] = 0,
         NEW p \in Live', InTime(p)
  PROVE  InTime(p)'
<1>1. PICK r \in Nat : Answered(p, r) /\ Within(p, r) BY DEF InTime
<1>2. PICK a \in Nat : a < r /\ \E k : InWindow(p, a, k) BY <1>1 DEF Within
<1>3. PICK k : InWindow(p, a, k) BY <1>2
<1>4. /\ Level(p) \subseteq Serving /\ Serving \subseteq Live /\ Live \subseteq RtIds
      /\ IsFiniteSet(Level(p)) /\ \A q \in RtIds : owed[q] \in Nat
  BY LevelIs
<1>5. PICK L, M : L = Level(p) /\ M = Level(p)' OBVIOUS
<1>6. M \subseteq Serving' /\ Serving' \subseteq Live' /\ Live' \subseteq RtIds /\ IsFiniteSet(M)
  BY <1>5, LevelNext
<1>7. L \subseteq M /\ M \ L \subseteq Serving' \ Serving
  BY <1>4, <1>5, <1>6 DEF Level, Urgent
<1>8. /\ k \in [RtIds -> Nat] /\ \A q \in RtIds \ L : k[q] = 0
      /\ \A q \in L : Began(q, k[q], a) /\ (owed[q] > 0 => k[q] > 0)
      /\ SumFunctionOnSet(owed, L) + a = SumFunctionOnSet(Did(k), L)
  BY <1>3, <1>5 DEF InWindow
<1>9. PICK f, h : f = owed /\ h = owed' OBVIOUS
<1>10. SumFunctionOnSet(h, M) = SumFunctionOnSet(f, L)
  <2>1. \A q \in L : f[q] \in Nat /\ h[q] = f[q] BY <1>4, <1>5, <1>9
  <2>2. \A q \in M \ L : h[q] = 0 BY <1>7, <1>9
  <2> QED BY <1>6, <1>7, <2>1, <2>2, SumWider
<1>11. PICK u, v : u = Did(k) /\ v = Did(k)' OBVIOUS
<1>12. SumFunctionOnSet(v, M) = SumFunctionOnSet(u, L)
  <2>1. ASSUME NEW q \in L PROVE u[q] \in Nat /\ v[q] = u[q]
    <3>1. q \in RtIds /\ q \in Live /\ q \in Live' BY <1>4, <1>5, <1>6, <1>7
    <3>2. u[q] \in Nat BY <1>8, <1>11, <3>1, DidIs
    <3>3. u[q] = k[q] * rt[q].prog.c BY <1>11, <3>1 DEF Did
    <3>4. v[q] = k[q] * rt'[q].prog.c BY <1>11, <3>1 DEF Did
    <3> QED BY <3>1, <3>2, <3>3, <3>4
  <2>2. ASSUME NEW q \in M \ L PROVE v[q] = 0
    <3>1. q \in Live' /\ q \in RtIds /\ q \in Live BY <1>6
    <3>2. k[q] = 0 /\ rt'[q].prog.c \in Nat BY <1>8, <3>1, LiveIs
    <3>3. v[q] = k[q] * rt'[q].prog.c BY <1>11, <3>1 DEF Did
    <3> QED BY <3>2, <3>3
  <2> QED BY <1>6, <1>7, <2>1, <2>2, SumWider
<1>13. ASSUME NEW q \in M PROVE Began(q, k[q], a)' /\ (owed'[q] > 0 => k[q] > 0)
  <2>1. CASE q \in L
    <3>1. /\ Began(q, k[q], a) /\ (owed[q] > 0 => k[q] > 0) /\ q \in Serving /\ q \in Live'
      BY <1>4, <1>5, <1>6, <1>8, <2>1
    <3>2. owed'[q] = owed[q] /\ released'[q] = released[q] /\ rt'[q].prog = rt[q].prog BY <3>1
    <3> QED BY <3>1, <3>2 DEF Began
  <2>2. CASE q \notin L
    <3>1. q \in RtIds /\ k[q] = 0 /\ owed'[q] = 0 BY <1>6, <1>7, <1>8, <2>2
    <3> QED BY <3>1 DEF Began
  <2> QED BY <2>1, <2>2
<1>14. \A q \in RtIds \ M : k[q] = 0 BY <1>7, <1>8
<1>15. SumFunctionOnSet(h, M) + a = SumFunctionOnSet(v, M) BY <1>8, <1>9, <1>10, <1>11, <1>12
<1>16. InWindow(p, a, k)' BY <1>5, <1>8, <1>9, <1>11, <1>13, <1>14, <1>15 DEF InWindow
<1>17. Answered(p, r)' BY <1>1, StillAnswered
<1> QED BY <1>2, <1>16, <1>17 DEF InTime, Within

\* Nobody comes or goes.
LEMMA SameLevels ==
  ASSUME Book, rt' = rt, NEW p \in Live, NEW r \in Nat, Answered(p, r)
  PROVE  /\ Serving' = Serving /\ Live' = Live /\ Level(p)' = Level(p) /\ Answered(p, r)'
         /\ \A k : Did(k)' = Did(k)
<1>1. Live' = Live /\ Serving' = Serving BY DEF Live, Serving
<1>2. Level(p)' = Level(p) BY <1>1 DEF Level, Urgent
<1>3. \A q \in Live' : rt'[q].prog = rt[q].prog /\ rt'[q].urgent = rt[q].urgent OBVIOUS
<1>4. p \in Live' /\ Live' \subseteq Live BY <1>1
<1>5. Answered(p, r)' BY <1>3, <1>4, StillAnswered
<1>6. \A k : Did(k)' = Did(k) BY <1>1 DEF Did
<1> QED BY <1>1, <1>2, <1>5, <1>6

LEMMA ArrivesInTime ==
  ASSUME Book, NEW x \in RtIds, Arrives(x), NEW p \in Live, InTime(p)
  PROVE  InTime(p)'
<1>1. /\ x \in Serving /\ owed[x] = 0 /\ released[x] = rt[x].prog.t /\ rt' = rt
      /\ owed' = [owed EXCEPT ![x] = rt[x].prog.c] /\ released' = [released EXCEPT ![x] = 0]
  BY DEF Arrives
<1>2. PICK r \in Nat : Answered(p, r) /\ Within(p, r) BY DEF InTime
<1>3. PICK a \in Nat : a < r /\ \E k : InWindow(p, a, k) BY <1>2 DEF Within
<1>4. PICK k : InWindow(p, a, k) BY <1>3
<1>5. /\ Level(p) \subseteq Serving /\ Serving \subseteq Live /\ Live \subseteq RtIds
      /\ IsFiniteSet(Level(p)) /\ \A q \in RtIds : owed[q] \in Nat
  BY LevelIs
<1>6. PICK c \in Nat, t \in Nat : c = rt[x].prog.c /\ t = rt[x].prog.t BY <1>1, <1>5, LiveIs
<1>7. /\ owed'[x] = c /\ released'[x] = 0
      /\ \A q \in RtIds \ {x} : owed'[q] = owed[q] /\ released'[q] = released[q]
  BY <1>1, <1>6 DEF Book, RtTypes
<1>8. PICK L : L = Level(p) OBVIOUS
<1>9. /\ k \in [RtIds -> Nat] /\ \A q \in RtIds \ L : k[q] = 0
      /\ \A q \in L : Began(q, k[q], a) /\ (owed[q] > 0 => k[q] > 0)
      /\ SumFunctionOnSet(owed, L) + a = SumFunctionOnSet(Did(k), L)
  BY <1>4, <1>8 DEF InWindow
<1>10. /\ Live' = Live /\ Level(p)' = L /\ Answered(p, r)' /\ \A m : Did(m)' = Did(m)
  BY <1>1, <1>2, <1>8, SameLevels
<1>11. CASE x \notin L
  <2>1. PICK f, h : f = owed /\ h = owed' OBVIOUS
  <2>2. \A q \in L : f[q] \in Nat /\ h[q] = f[q] BY <1>5, <1>7, <1>8, <1>11, <2>1
  <2>3. SumFunctionOnSet(h, L) = SumFunctionOnSet(f, L) BY <1>5, <1>8, <2>2, SumSame
  <2>4. ASSUME NEW q \in L PROVE Began(q, k[q], a)' /\ (owed'[q] > 0 => k[q] > 0)
    <3>1. owed'[q] = owed[q] /\ released'[q] = released[q] BY <1>5, <1>7, <1>8, <1>11
    <3> QED BY <1>1, <1>9, <3>1 DEF Began
  <2>5. SumFunctionOnSet(owed', L) + a = SumFunctionOnSet(Did(k), L) BY <1>9, <2>1, <2>3
  <2>6. InWindow(p, a, k)' BY <1>9, <1>10, <2>4, <2>5 DEF InWindow
  <2> QED BY <1>3, <1>10, <2>6 DEF InTime, Within
<1>12. CASE x \in L
  <2>1. PICK n \in Nat : n = k[x] BY <1>5, <1>8, <1>9, <1>12
  <2>2. PICK m : m = [k EXCEPT ![x] = n + 1] OBVIOUS
  <2>3. m \in [RtIds -> Nat] /\ m[x] = n + 1 /\ \A q \in RtIds \ {x} : m[q] = k[q]
    BY <1>9, <2>2
  <2>4. PICK f, h : f = owed /\ h = owed' OBVIOUS
  <2>5. SumFunctionOnSet(h, L) = SumFunctionOnSet(f, L) - f[x] + h[x]
    <3>1. \A q \in L : f[q] \in Nat BY <1>5, <1>8, <2>4
    <3>2. h[x] \in Nat /\ \A q \in L \ {x} : h[q] = f[q] BY <1>5, <1>7, <1>8, <2>4
    <3> QED BY <1>5, <1>8, <1>12, <3>1, <3>2, SumChange
  <2>6. PICK u, v : u = Did(k) /\ v = Did(m) OBVIOUS
  <2>7. \A q \in L : u[q] \in Nat /\ u[q] = k[q] * rt[q].prog.c
    BY <1>5, <1>8, <1>9, <2>6, DidIs
  <2>8. \A q \in L : v[q] \in Nat /\ v[q] = m[q] * rt[q].prog.c
    BY <1>5, <1>8, <2>3, <2>6, DidIs
  <2>9. SumFunctionOnSet(v, L) = SumFunctionOnSet(u, L) - u[x] + v[x]
    <3>1. \A q \in L \ {x} : v[q] = u[q] BY <1>5, <1>8, <2>3, <2>7, <2>8
    <3> QED BY <1>5, <1>8, <1>12, <2>7, <2>8, <3>1, SumChange
  <2>10. v[x] = u[x] + c
    <3>1. u[x] = n * c /\ v[x] = (n + 1) * c BY <1>6, <1>12, <2>1, <2>3, <2>7, <2>8
    <3>2. (n + 1) * c = n * c + c BY OneMore
    <3> QED BY <3>1, <3>2
  <2>11. SumFunctionOnSet(owed', L) + a = SumFunctionOnSet(Did(m), L)
    <3>1. PICK A \in Nat, B \in Nat, y \in Nat :
            A = SumFunctionOnSet(f, L) /\ B = SumFunctionOnSet(u, L) /\ y = u[x]
      <4>1. \A q \in L : f[q] \in Nat BY <1>5, <1>8, <2>4
      <4>2. SumFunctionOnSet(f, L) \in Nat BY <1>5, <1>8, <4>1, SumOne
      <4>3. SumFunctionOnSet(u, L) \in Nat BY <1>5, <1>8, <2>7, SumOne
      <4> QED BY <1>12, <2>7, <4>2, <4>3
    <3>2. A + a = B BY <1>9, <2>4, <2>6, <3>1
    <3>3. f[x] = 0 /\ h[x] = c BY <1>1, <1>7, <2>4
    <3>4. SumFunctionOnSet(h, L) = A + c BY <2>5, <3>1, <3>3
    <3>5. SumFunctionOnSet(v, L) = B + c BY <2>9, <2>10, <3>1
    <3> QED BY <2>4, <2>6, <3>2, <3>4, <3>5
  <2>12. ASSUME NEW q \in L PROVE Began(q, m[q], a)' /\ (owed'[q] > 0 => m[q] > 0)
    <3>1. CASE q = x
      <4>1. n * t <= a
        <5>1. CASE n = 0
          <6>1. n * t = 0 BY <5>1
          <6> QED BY <6>1
        <5>2. CASE n > 0
          <6>1. released[x] + (n - 1) * t <= a BY <1>6, <1>9, <1>12, <2>1, <5>2 DEF Began
          <6>2. PICK j \in Nat : j = n - 1 /\ n = j + 1 BY <5>2
          <6>3. n * t = j * t + t /\ j * t \in Nat BY <6>2, OneMore, Products
          <6> QED BY <1>1, <1>6, <6>1, <6>2, <6>3
        <5> QED BY <5>1, <5>2
      <4>2. m[q] = n + 1 /\ (n + 1) - 1 = n BY <2>3, <3>1
      <4>3. n * t \in Nat BY Products
      <4>4. released'[q] + (m[q] - 1) * rt'[q].prog.t <= a
        BY <1>1, <1>6, <1>7, <3>1, <4>1, <4>2, <4>3
      <4> QED BY <4>2, <4>4 DEF Began
    <3>2. CASE q # x
      <4>1. owed'[q] = owed[q] /\ released'[q] = released[q] /\ m[q] = k[q]
        BY <1>5, <1>7, <1>8, <2>3, <3>2
      <4> QED BY <1>1, <1>9, <4>1 DEF Began
    <3> QED BY <3>1, <3>2
  <2>13. \A q \in RtIds \ L : m[q] = 0 BY <1>9, <1>12, <2>3
  <2>14. InWindow(p, a, m)' BY <1>10, <2>3, <2>11, <2>12, <2>13 DEF InWindow
  <2> QED BY <1>3, <1>10, <2>14 DEF InTime, Within
<1> QED BY <1>11, <1>12

LEMMA ElapseInTime ==
  ASSUME Book, Elapse, NEW p \in Live, InTime(p)
  PROVE  InTime(p)'
<1>1. /\ Book' /\ rt' = rt
      /\ \A q \in RtIds : released'[q] <= released[q] + 1
      /\ Answering = {} => owed' = owed
      /\ Answering # {} => \E z \in Highest : /\ owed' = [owed EXCEPT ![z] = owed[z] - 1]
                                              /\ owed[z] > 0 /\ z \in RtIds
  BY ElapseBooks
<1>2. PICK r \in Nat : Answered(p, r) /\ Within(p, r) BY DEF InTime
<1>3. PICK a \in Nat : a < r /\ \E k : InWindow(p, a, k) BY <1>2 DEF Within
<1>4. PICK k : InWindow(p, a, k) BY <1>3
<1>5. /\ Level(p) \subseteq Serving /\ Serving \subseteq Live /\ Live \subseteq RtIds
      /\ IsFiniteSet(Level(p))
      /\ \A q \in RtIds : owed[q] \in Nat /\ released[q] \in Nat /\ (owed[q] > 0 => q \in Serving)
  BY LevelIs
<1>6. PICK L : L = Level(p) OBVIOUS
<1>7. /\ k \in [RtIds -> Nat] /\ \A q \in RtIds \ L : k[q] = 0
      /\ \A q \in L : Began(q, k[q], a) /\ (owed[q] > 0 => k[q] > 0)
      /\ SumFunctionOnSet(owed, L) + a = SumFunctionOnSet(Did(k), L)
  BY <1>4, <1>6 DEF InWindow
<1>8. /\ Live' = Live /\ Level(p)' = L /\ Answered(p, r)' /\ \A m : Did(m)' = Did(m)
  BY <1>1, <1>2, <1>6, SameLevels
<1>9. CASE \A q \in L : owed'[q] = 0
  <2>1. p \in Live' /\ \A q \in Level(p)' : owed'[q] = 0 BY <1>8, <1>9
  <2>2. FreshFor(p, r)' BY <1>1, <2>1, FreshNext DEF Freshens
  <2>3. Within(p, r)' BY <1>8, <2>1, <2>2 DEF FreshFor
  <2> QED BY <1>8, <2>3 DEF InTime
<1>10. CASE ~\A q \in L : owed'[q] = 0
  <2>1. PICK y \in L : owed'[y] # 0 BY <1>10
  <2>2. y \in RtIds /\ y \in Serving BY <1>5, <1>6, <2>1
  <2>3. owed'[y] # 0 => owed[y] > 0
    <3>1. CASE Answering = {} BY <1>1, <1>5, <2>2, <3>1
    <3>2. CASE Answering # {}
      <4>1. PICK z \in Highest : /\ owed' = [owed EXCEPT ![z] = owed[z] - 1]
                                 /\ owed[z] > 0 /\ z \in RtIds
        BY <1>1, <3>2
      <4>2. CASE y = z BY <4>1, <4>2
      <4>3. CASE y # z
        <5>1. owed'[y] = owed[y] BY <2>2, <4>1, <4>3 DEF Book, RtTypes
        <5> QED BY <1>5, <2>2, <5>1
      <4> QED BY <4>2, <4>3
    <3> QED BY <3>1, <3>2
  <2>4. y \in Answering BY <2>1, <2>2, <2>3 DEF Answering
  <2>5. PICK z \in Highest : /\ owed' = [owed EXCEPT ![z] = owed[z] - 1]
                             /\ owed[z] > 0 /\ z \in RtIds
    BY <1>1, <2>4
  <2>6. z \in L
    <3>1. \A q \in Serving : rt[q].runs = rt[q].urgent BY DEF Book, RtSound, Serving
    <3>2. z \in Serving BY <1>5, <2>5
    <3>3. CASE ~Urgent(p) BY <1>6, <3>2, <3>3 DEF Level
    <3>4. CASE Urgent(p)
      <4>1. rt[y].urgent = TRUE BY <1>6, <2>1, <3>4 DEF Level, Urgent
      <4>2. rt[y].runs = TRUE BY <2>2, <3>1, <4>1
      <4>3. y \in {q \in Answering : rt[q].runs} BY <2>4, <4>2
      <4>4. z \in {q \in Answering : rt[q].runs} BY <2>5, <4>3 DEF Highest
      <4>5. rt[z].runs BY <4>4
      <4>6. rt[z].runs = TRUE
        <5>1. rt[z].runs \in BOOLEAN BY <2>5 DEF Book, RtTypes, RtRecord
        <5> QED BY <4>5, <5>1
      <4>7. Urgent(z) BY <3>1, <3>2, <4>6 DEF Urgent
      <4> QED BY <1>6, <3>2, <4>7 DEF Level
    <3> QED BY <3>3, <3>4
  <2>7. /\ owed'[z] = owed[z] - 1 /\ owed'[z] \in Nat
        /\ \A q \in RtIds \ {z} : owed'[q] = owed[q]
    BY <1>5, <2>5 DEF Book, RtTypes
  <2>8. PICK f, h : f = owed /\ h = owed' OBVIOUS
  <2>9. \A q \in L : f[q] \in Nat BY <1>5, <1>6, <2>8
  <2>10. SumFunctionOnSet(h, L) = SumFunctionOnSet(f, L) - f[z] + h[z]
    <3>1. h[z] \in Nat /\ \A q \in L \ {z} : h[q] = f[q] BY <1>5, <1>6, <2>7, <2>8
    <3> QED BY <1>5, <1>6, <2>6, <2>9, <3>1, SumChange
  <2>11. PICK A \in Nat, B \in Nat : /\ A = SumFunctionOnSet(f, L)
                                     /\ B = SumFunctionOnSet(Did(k), L) /\ A + a = B
    <3>1. SumFunctionOnSet(f, L) \in Nat BY <1>5, <1>6, <2>9, SumOne
    <3>2. \A q \in L : Did(k)[q] \in Nat BY <1>5, <1>6, <1>7, DidIs
    <3>3. SumFunctionOnSet(Did(k), L) \in Nat BY <1>5, <1>6, <3>2, SumOne
    <3> QED BY <1>7, <2>8, <3>1, <3>3
  <2>12. PICK o \in Nat : o = f[z] /\ o > 0 /\ h[z] = o - 1 BY <1>5, <2>5, <2>7, <2>8
  <2>13. SumFunctionOnSet(h, L) = A - 1 BY <2>10, <2>11, <2>12
  <2>14. SumFunctionOnSet(owed', L) + (a + 1) = SumFunctionOnSet(Did(k), L)
    BY <2>8, <2>11, <2>13
  <2>15. B <= r BY <1>2, <1>3, <1>4, <1>6, <2>11, WindowHolds
  <2>16. A > 1
    <3>1. \A q \in L : h[q] \in Nat BY <1>5, <1>6, <2>7, <2>8, <2>9
    <3>2. y \in L /\ h[y] # 0 BY <2>1, <2>8
    <3>3. SumFunctionOnSet(h, L) # 0 BY <1>5, <1>6, <3>1, <3>2, SumZero
    <3>4. SumFunctionOnSet(h, L) \in Nat BY <1>5, <1>6, <3>1, SumOne
    <3> QED BY <2>11, <2>13, <3>3, <3>4
  <2>17. a + 1 < r /\ a + 1 \in Nat BY <2>11, <2>15, <2>16
  <2>18. ASSUME NEW q \in L PROVE Began(q, k[q], a + 1)' /\ (owed'[q] > 0 => k[q] > 0)
    <3>1. PICK n \in Nat, t \in Nat, x \in Nat, w \in Nat :
            n = k[q] /\ t = rt[q].prog.t /\ x = released[q] /\ w = released'[q] /\ w <= x + 1
      <4>1. q \in RtIds /\ q \in Live BY <1>5, <1>6
      <4>2. k[q] \in Nat /\ rt[q].prog.t \in Nat /\ released[q] \in Nat BY <1>5, <1>7, <4>1, LiveIs
      <4>3. released'[q] \in Nat BY <1>1, <4>1 DEF Book, RtTypes
      <4> QED BY <1>1, <4>1, <4>2, <4>3
    <3>2. ASSUME n > 0 PROVE w + (n - 1) * t <= a + 1
      <4>1. PICK j \in Nat : j = n - 1 BY <3>2
      <4>2. x + j * t <= a BY <1>7, <3>1, <3>2, <4>1 DEF Began
      <4>3. j * t \in Nat BY <4>1, Products
      <4>4. w + j * t <= a + 1 BY <3>1, <4>2, <4>3
      <4> QED BY <4>1, <4>4
    <3>3. Began(q, k[q], a + 1)' BY <1>1, <3>1, <3>2 DEF Began
    <3>4. owed'[q] > 0 => owed[q] > 0
      <4>1. CASE q = z BY <2>5, <4>1
      <4>2. CASE q # z BY <1>5, <1>6, <2>7, <4>2
      <4> QED BY <4>1, <4>2
    <3> QED BY <1>7, <3>3, <3>4
  <2>19. InWindow(p, a + 1, k)' BY <1>7, <1>8, <2>14, <2>18 DEF InWindow
  <2> QED BY <1>8, <2>17, <2>19 DEF InTime, Within
<1> QED BY <1>9, <1>10

LEMMA EndsInTime ==
  ASSUME Book, Quiet, NEW x \in RtIds, Ends(x), NEW p \in Live', InTime(p)
  PROVE  InTime(p)'
<1>1. PICK r \in Nat : Answered(p, r) BY DEF InTime
<1>2. Book' BY EndsBooks
<1>3. /\ rt' = [rt EXCEPT ![x] = NoRt] /\ owed' = [owed EXCEPT ![x] = 0]
      /\ \A q \in RtIds : owed[q] = 0
  BY DEF Ends, Settled
<1>4. \A q \in RtIds : owed'[q] = 0 BY <1>3 DEF Book, RtTypes
<1>5. \A q \in RtIds : q # x => rt'[q] = rt[q] BY <1>3 DEF Book, RtTypes
<1>6. rt'[x] = NoRt BY <1>3 DEF Book, RtTypes
<1>7. Live' \subseteq Live /\ x \notin Live' BY <1>5, <1>6, NoneIs DEF Live
<1>8. \A q \in Live' : rt'[q].prog = rt[q].prog /\ rt'[q].urgent = rt[q].urgent
  BY <1>5, <1>7 DEF Live
<1>9. Answered(p, r)' BY <1>1, <1>7, <1>8, StillAnswered
<1>10. \A q \in Level(p)' : owed'[q] = 0 BY <1>2, <1>4, LevelNext
<1>11. FreshFor(p, r)' BY <1>2, FreshNext DEF Freshens
<1>12. Within(p, r)' BY <1>9, <1>10, <1>11 DEF FreshFor
<1> QED BY <1>9, <1>12 DEF InTime

LEMMA AdmitInTime ==
  ASSUME Book, OneByOne, Quiet, RtSlots <= Analysed, Converges,
         NEW x \in RtIds, NEW g \in RtPrograms, AdmitRt(x, g), NEW p \in Live'
  PROVE  InTime(p)'
<1>1. Book' BY AdmitBooks
<1>2. PICK r \in Nat : Answered(p, r)' BY AnsweredAnew
<1>3. owed' = owed /\ \A q \in RtIds : owed[q] = 0 BY DEF AdmitRt, Settled
<1>4. \A q \in Level(p)' : owed'[q] = 0 BY <1>1, <1>3, LevelNext
<1>5. FreshFor(p, r)' BY <1>1, FreshNext DEF Freshens
<1>6. Within(p, r)' BY <1>2, <1>4, <1>5 DEF FreshFor
<1> QED BY <1>2, <1>6 DEF InTime

\* A step of one process on its way.
LEMMA ComingInTime ==
  ASSUME Book, Book', NEW x \in RtIds, rt[x].step # "declared", owed' = owed,
         \A q \in RtIds \ {x} : rt'[q] = rt[q] /\ released'[q] = released[q],
         rt'[x].step # "none" =>
           rt[x].step # "none" /\ rt'[x].prog = rt[x].prog /\ rt'[x].urgent = rt[x].urgent,
         NEW p \in Live', \A q \in Live : InTime(q)
  PROVE  InTime(p)'
<1>1. x \notin Serving BY DEF Serving
<1>2. Live' \subseteq Live BY DEF Live
<1>3. \A q \in Live' : rt'[q].prog = rt[q].prog /\ rt'[q].urgent = rt[q].urgent BY DEF Live
<1>4. Serving \subseteq Serving' /\ Serving' \ Serving \subseteq {x} BY <1>1 DEF Serving
<1>5. \A q \in Serving : owed'[q] = owed[q] /\ released'[q] = released[q] BY <1>1 DEF Serving
<1>6. owed[x] = 0 BY DEF Book, RtSound
<1>7. \A q \in Serving' \ Serving : owed'[q] = 0 BY <1>4, <1>6
<1>8. InTime(p) BY <1>2
<1> QED BY <1>2, <1>3, <1>4, <1>5, <1>7, <1>8, WindowStays

LEMMA ComingBooks ==
  ASSUME Book, NEW x \in RtIds, Enter(x) \/ TurnedAway(x) \/ Declares(x) \/ TakesSlot(x)
  PROVE  /\ Book' /\ rt[x].step # "declared" /\ owed' = owed
         /\ \A q \in RtIds \ {x} : rt'[q] = rt[q] /\ released'[q] = released[q]
         /\ rt'[x].step # "none" =>
              rt[x].step # "none" /\ rt'[x].prog = rt[x].prog /\ rt'[x].urgent = rt[x].urgent
<1>1. rt \in [RtIds -> RtRecord] /\ released \in [RtIds -> Nat] BY DEF Book, RtTypes
<1>2. CASE Enter(x)
  <2>1. /\ rt[x].step = "admitted" /\ rt' = [rt EXCEPT ![x].step = "entered"]
        /\ owed' = owed /\ released' = released
    BY <1>2 DEF Enter
  <2>2. rt'[x] = [rt[x] EXCEPT !.step = "entered"] /\ \A q \in RtIds \ {x} : rt'[q] = rt[q]
    BY <1>1, <2>1
  <2>3. rt'[x].prog = rt[x].prog /\ rt'[x].urgent = rt[x].urgent BY <1>1, <2>2 DEF RtRecord
  <2> QED BY <1>2, <2>1, <2>2, <2>3, EnterBooks
<1>3. CASE TurnedAway(x)
  <2>1. /\ rt[x].step = "admitted" /\ rt' = [rt EXCEPT ![x] = NoRt]
        /\ owed' = owed /\ released' = released
    BY <1>3 DEF TurnedAway
  <2>2. rt'[x] = NoRt /\ \A q \in RtIds \ {x} : rt'[q] = rt[q] BY <1>1, <2>1
  <2>3. rt'[x].step = "none" BY <2>2, NoneIs
  <2> QED BY <1>3, <2>1, <2>2, <2>3, TurnedAwayBooks
<1>4. CASE Declares(x)
  <2>1. /\ rt[x].step = "entered" /\ owed' = owed /\ released' = released
        /\ rt' = [rt EXCEPT ![x] = [rt[x] EXCEPT !.step = "declaring", !.seen = rt[x].urgent]]
    BY <1>4 DEF Declares
  <2>2. /\ rt'[x] = [rt[x] EXCEPT !.step = "declaring", !.seen = rt[x].urgent]
        /\ \A q \in RtIds \ {x} : rt'[q] = rt[q]
    BY <1>1, <2>1
  <2>3. rt'[x].prog = rt[x].prog /\ rt'[x].urgent = rt[x].urgent BY <1>1, <2>2 DEF RtRecord
  <2> QED BY <1>4, <2>1, <2>2, <2>3, DeclaresBooks
<1>5. CASE TakesSlot(x)
  <2>1. /\ rt[x].step = "declaring" /\ owed' = owed
        /\ rt' = [rt EXCEPT ![x] = [rt[x] EXCEPT !.step = "declared", !.runs = rt[x].seen,
                                                 !.seen = FALSE]]
        /\ released' = [released EXCEPT ![x] = IF rt[x].prog.event THEN rt[x].prog.t ELSE 0]
    BY <1>5 DEF TakesSlot
  <2>2. PICK no : no = FALSE OBVIOUS
  <2>3. /\ rt'[x] = [rt[x] EXCEPT !.step = "declared", !.runs = rt[x].seen, !.seen = no]
        /\ \A q \in RtIds \ {x} : rt'[q] = rt[q]
    BY <1>1, <2>1, <2>2
  <2>4. rt'[x].prog = rt[x].prog /\ rt'[x].urgent = rt[x].urgent BY <1>1, <2>3 DEF RtRecord
  <2>5. \A q \in RtIds \ {x} : released'[q] = released[q] BY <1>1, <2>1
  <2> QED BY <1>5, <2>1, <2>3, <2>4, <2>5, TakesSlotBooks
<1> QED BY <1>2, <1>3, <1>4, <1>5

AdmitInv == Book /\ \A p \in Live : InTime(p)

LEMMA AdmitStep ==
  ASSUME OneByOne, Quiet, RtSlots <= Analysed, Converges, AdmitInv, [AdmitNext]_admitVars
  PROVE  AdmitInv'
<1>1. Book /\ \A p \in Live : InTime(p) BY DEF AdmitInv
<1>2. CASE UNCHANGED admitVars
  <2>1. rt' = rt /\ order' = order /\ owed' = owed /\ released' = released BY <1>2 DEF admitVars
  <2>2. Book' BY <1>1, <2>1 DEF Book, RtTypes, TableSound, InTable, OneComes, Coming, RtSound
  <2>3. Live' = Live /\ Serving' = Serving BY <2>1 DEF Live, Serving
  <2>4. ASSUME NEW p \in Live' PROVE InTime(p)'
    <3>1. \A q \in Live' : rt'[q].prog = rt[q].prog /\ rt'[q].urgent = rt[q].urgent BY <2>1
    <3>2. \A q \in Serving : owed'[q] = owed[q] /\ released'[q] = released[q] BY <2>1
    <3>3. InTime(p) BY <1>1, <2>3
    <3>4. Live' \subseteq Live /\ Serving \subseteq Serving' BY <2>3
    <3>5. \A q \in Serving' \ Serving : owed'[q] = 0 BY <2>3
    <3> QED BY <1>1, <2>2, <3>1, <3>2, <3>3, <3>4, <3>5, WindowStays
  <2> QED BY <2>2, <2>4 DEF AdmitInv
<1>3. CASE Elapse
  <2>1. Book' /\ rt' = rt BY <1>1, <1>3, ElapseBooks
  <2>2. Live' = Live BY <2>1 DEF Live
  <2>3. \A p \in Live' : InTime(p)' BY <1>1, <1>3, <2>2, ElapseInTime
  <2> QED BY <2>1, <2>3 DEF AdmitInv
<1>4. ASSUME NEW x \in RtIds, Enter(x) \/ TurnedAway(x) \/ Declares(x) \/ TakesSlot(x)
      PROVE  AdmitInv'
  <2>1. /\ Book' /\ rt[x].step # "declared" /\ owed' = owed
        /\ \A q \in RtIds \ {x} : rt'[q] = rt[q] /\ released'[q] = released[q]
        /\ rt'[x].step # "none" =>
             rt[x].step # "none" /\ rt'[x].prog = rt[x].prog /\ rt'[x].urgent = rt[x].urgent
    BY <1>1, <1>4, ComingBooks
  <2>2. \A p \in Live' : InTime(p)' BY <1>1, <2>1, ComingInTime
  <2> QED BY <2>1, <2>2 DEF AdmitInv
<1>5. ASSUME NEW x \in RtIds, Ends(x) PROVE AdmitInv'
  <2>1. Book' BY <1>1, <1>5, EndsBooks
  <2>2. rt' = [rt EXCEPT ![x] = NoRt] BY <1>5 DEF Ends
  <2>3. \A q \in RtIds : q # x => rt'[q] = rt[q] BY <1>1, <2>2 DEF Book, RtTypes
  <2>4. rt'[x].step = "none" BY <1>1, <2>2, NoneIs DEF Book, RtTypes
  <2>5. Live' \subseteq Live BY <2>3, <2>4 DEF Live
  <2>6. \A p \in Live' : InTime(p)' BY <1>1, <1>5, <2>5, EndsInTime
  <2> QED BY <2>1, <2>6 DEF AdmitInv
<1>6. ASSUME NEW x \in RtIds, Arrives(x) PROVE AdmitInv'
  <2>1. Book' BY <1>1, <1>6, ArrivesBooks
  <2>2. rt' = rt BY <1>6 DEF Arrives
  <2>3. Live' = Live BY <2>2 DEF Live
  <2>4. \A p \in Live' : InTime(p)' BY <1>1, <1>6, <2>3, ArrivesInTime
  <2> QED BY <2>1, <2>4 DEF AdmitInv
<1>7. ASSUME NEW x \in RtIds, NEW g \in RtPrograms, AdmitRt(x, g) PROVE AdmitInv'
  <2>1. Book' BY <1>1, <1>7, AdmitBooks
  <2>2. \A p \in Live' : InTime(p)' BY <1>1, <1>7, AdmitInTime
  <2> QED BY <2>1, <2>2 DEF AdmitInv
<1> QED BY <1>2, <1>3, <1>4, <1>5, <1>6, <1>7 DEF AdmitNext

\* Whoever owes anything has been released within a window that has not yet
\* lasted as long as its deadline.
LEMMA InTimeMeets == AdmitInv => DeadlinesAreMet
<1> SUFFICES ASSUME AdmitInv, NEW p \in RtIds, owed[p] > 0 PROVE released[p] < rt[p].prog.d
  BY DEF DeadlinesAreMet
<1>1. Book BY DEF AdmitInv
<1>2. p \in Serving /\ p \in Live /\ owed[p] \in Nat /\ released[p] \in Nat BY <1>1, LevelIs
<1>3. PICK r \in Nat : Answered(p, r) /\ Within(p, r) BY <1>2 DEF AdmitInv, InTime
<1>4. PICK a \in Nat : a < r /\ \E k : InWindow(p, a, k) BY <1>3 DEF Within
<1>5. PICK k : InWindow(p, a, k) BY <1>4
<1>6. p \in Level(p) BY <1>2 DEF Level
<1>7. k[p] > 0 /\ Began(p, k[p], a) /\ k[p] \in Nat BY <1>2, <1>5, <1>6 DEF InWindow
<1>8. PICK d \in Nat, t \in Nat, m \in Nat, x \in Nat :
        d = rt[p].prog.d /\ t = rt[p].prog.t /\ m = k[p] - 1 /\ x = released[p]
  BY <1>1, <1>2, <1>7, LiveIs
<1>9. x + m * t <= a BY <1>7, <1>8 DEF Began
<1>10. m * t \in Nat BY <1>8, Products
<1>11. r <= d BY <1>3, <1>8 DEF Answered
<1>12. x < d BY <1>4, <1>8, <1>9, <1>10, <1>11
<1> QED BY <1>8, <1>12

\* However many processes, of whatever programs, come and go, those admitted
\* answer every release by its deadline, if one is admitted only once the one
\* before has declared its release, if they come and go while nothing is owed,
\* if the analysis has room for all the release table can hold, and if what it
\* finds to be within a deadline is where it came to rest.
THEOREM DeadlinesMet ==
  ASSUME OneByOne, Quiet, RtSlots <= Analysed, Converges
  PROVE  AdmitSpec => []DeadlinesAreMet
<1>1. AdmitInit => AdmitInv
  <2>1. ASSUME AdmitInit PROVE Live = {}
    <3>1. \A p \in RtIds : rt[p] = NoRt BY <2>1 DEF AdmitInit
    <3> QED BY <3>1, NoneIs DEF Live
  <2> QED BY <2>1, BookStarts DEF AdmitInv
<1>2. AdmitInv /\ [AdmitNext]_admitVars => AdmitInv' BY AdmitStep
<1> QED BY <1>1, <1>2, InTimeMeets, PTL DEF AdmitSpec
=============================================================================
