---------------------------- MODULE RvPipeProofs ----------------------------
(***************************************************************************)
(* For any number of paths, names and pipes: the counts that decide who    *)
(* hears the end of the file, and who a broken pipe, are those of the      *)
(* paths that are open; and the rings are the channels RvChannel promises. *)
(***************************************************************************)
EXTENDS RvPipe, FiniteSetTheorems, SequenceTheorems, TLAPS

\* As much of the types as the counts need.
EndTypes ==
  /\ name \in [Pipes -> Names \cup {NoName}]
  /\ readers \in [Pipes -> Nat] /\ writers \in [Pipes -> Nat] /\ seen \in [Pipes -> BOOLEAN]
  /\ pipe \in [Ends -> Pipes \cup {NoPipe}] /\ mode \in [Ends -> SUBSET {"r", "w"}]

EndInv == EndTypes /\ PipesHaveEnds

LEMMA EndsOfFinite ==
  ASSUME NEW p, NEW m PROVE IsFiniteSet(EndsOf(p, m)) /\ Cardinality(EndsOf(p, m)) \in Nat
<1>1. EndsOf(p, m) \subseteq Ends
  BY DEF EndsOf
<1> QED BY <1>1, PipeAssumption, FS_Subset, FS_CardinalityType

LEMMA InitEnds == Init => EndInv
<1> SUFFICES ASSUME Init PROVE EndInv
  OBVIOUS
<1>1. EndTypes
  BY PipeAssumption DEF Init, EndTypes
<1>2. \A p \in Pipes : \A m : EndsOf(p, m) = {}
  BY PipeAssumption DEF Init, EndsOf, Pipes
<1>3. \A p \in Pipes : \A m : Cardinality(EndsOf(p, m)) = 0
  BY <1>2, FS_EmptySet
<1>4. \A p \in Pipes : ~ \E e \in Ends : pipe[e] = p
  BY PipeAssumption DEF Init, Pipes
<1>5. /\ \A p \in Pipes : readers[p] = 0 /\ writers[p] = 0 /\ name[p] = NoName
      /\ \A e \in Ends : pipe[e] = NoPipe /\ mode[e] = {}
  BY DEF Init
<1> QED BY <1>1, <1>3, <1>4, <1>5 DEF EndInv, PipesHaveEnds

LEMMA OpenEnds ==
  ASSUME EndInv, NEW e \in Ends, NEW n \in Names, NEW m \in OpenModes, OpenPipe(e, n, m)
  PROVE  EndInv'
<1> USE DEF EndInv, EndTypes
<1>1. PICK p \in Chosen(n) :
        /\ pipe[e] = NoPipe
        /\ name' = [name EXCEPT ![p] = n]
        /\ readers' = [readers EXCEPT ![p] = IF "r" \in m THEN @ + 1 ELSE @]
        /\ writers' = [writers EXCEPT ![p] = IF "w" \in m THEN @ + 1 ELSE @]
        /\ seen' = [seen EXCEPT ![p] = @ \/ "w" \in m]
        /\ pipe' = [pipe EXCEPT ![e] = p] /\ mode' = [mode EXCEPT ![e] = m]
  BY DEF OpenPipe
<1>2. p \in Pipes /\ (name[p] = n \/ (name[p] = NoName /\ \A q \in Pipes : name[q] # n))
  BY DEF Chosen, Found, Unused
<1>3. m # {} /\ m \in SUBSET {"r", "w"} /\ p # NoPipe /\ n # NoName
  BY <1>2, PipeAssumption DEF Pipes
<1>4. EndTypes'
  <2>1. name' \in [Pipes -> Names \cup {NoName}] /\ seen' \in [Pipes -> BOOLEAN]
    BY <1>1, <1>2
  <2>2. readers' \in [Pipes -> Nat] /\ writers' \in [Pipes -> Nat]
    BY <1>1, <1>2
  <2>3. pipe' \in [Ends -> Pipes \cup {NoPipe}] /\ mode' \in [Ends -> SUBSET {"r", "w"}]
    BY <1>1, <1>2, <1>3
  <2> QED BY <2>1, <2>2, <2>3
<1>5. \A x \in {"r", "w"} : e \notin EndsOf(p, x)
  BY <1>1, <1>3 DEF EndsOf
<1>6. \A q \in Pipes, x \in {"r", "w"} :
        EndsOf(q, x)' = IF q = p /\ x \in m THEN EndsOf(q, x) \cup {e} ELSE EndsOf(q, x)
  BY <1>1, <1>2, <1>3, PipeAssumption DEF EndsOf, Pipes
<1>7. \A q \in Pipes, x \in {"r", "w"} :
        Cardinality(EndsOf(q, x))' =
          IF q = p /\ x \in m THEN Cardinality(EndsOf(q, x)) + 1 ELSE Cardinality(EndsOf(q, x))
  <2> SUFFICES ASSUME NEW q \in Pipes, NEW x \in {"r", "w"}
      PROVE Cardinality(EndsOf(q, x))' =
              IF q = p /\ x \in m THEN Cardinality(EndsOf(q, x)) + 1 ELSE Cardinality(EndsOf(q, x))
    OBVIOUS
  <2>1. CASE q = p /\ x \in m
    <3>1. EndsOf(q, x)' = EndsOf(q, x) \cup {e} /\ e \notin EndsOf(q, x)
      BY <1>5, <1>6, <2>1
    <3>2. Cardinality(EndsOf(q, x) \cup {e}) = Cardinality(EndsOf(q, x)) + 1
      BY <3>1, EndsOfFinite, FS_AddElement
    <3> QED BY <2>1, <3>1, <3>2
  <2>2. CASE ~(q = p /\ x \in m)
    <3>1. EndsOf(q, x)' = EndsOf(q, x)
      BY <1>6, <2>2
    <3> QED BY <2>2, <3>1
  <2> QED BY <2>1, <2>2
<1>8. \A q \in Pipes : readers'[q] = Cardinality(EndsOf(q, "r"))' /\ writers'[q] = Cardinality(EndsOf(q, "w"))'
  <2>1. \A q \in Pipes : /\ readers'[q] = IF q = p /\ "r" \in m THEN readers[q] + 1 ELSE readers[q]
                         /\ writers'[q] = IF q = p /\ "w" \in m THEN writers[q] + 1 ELSE writers[q]
    BY <1>1, <1>2
  <2>2. \A q \in Pipes : readers[q] = Cardinality(EndsOf(q, "r")) /\ writers[q] = Cardinality(EndsOf(q, "w"))
    BY DEF PipesHaveEnds
  <2> QED BY <1>7, <2>1, <2>2
<1>9. \A q \in Pipes : name'[q] # NoName <=> \E f \in Ends : pipe'[f] = q
  <2>1. name'[p] # NoName /\ pipe'[e] = p
    BY <1>1, <1>2, <1>3
  <2>2. \A q \in Pipes : q # p =>
          name'[q] = name[q] /\ \A f \in Ends : pipe'[f] = q <=> pipe[f] = q
    BY <1>1, <1>2, PipeAssumption DEF Pipes
  <2> QED BY <2>1, <2>2 DEF PipesHaveEnds
<1>10. \A f \in Ends : pipe'[f] # NoPipe <=> mode'[f] # {}
  BY <1>1, <1>3 DEF PipesHaveEnds
<1>11. \A q, r \in Pipes : name'[q] = name'[r] /\ name'[q] # NoName => q = r
  BY <1>1, <1>2, <1>3 DEF PipesHaveEnds
<1> QED BY <1>4, <1>8, <1>9, <1>10, <1>11 DEF PipesHaveEnds

LEMMA CloseEnds ==
  ASSUME EndInv, NEW e \in Ends, ClosePipe(e)
  PROVE  EndInv'
<1> USE DEF EndInv, EndTypes
<1>0. PICK p \in Pipes : p = pipe[e]
  BY DEF ClosePipe
<1>1. /\ p \in Pipes /\ p # NoPipe
      /\ readers' = Without(readers, e, "r") /\ writers' = Without(writers, e, "w")
      /\ pipe' = [pipe EXCEPT ![e] = NoPipe] /\ mode' = [mode EXCEPT ![e] = {}]
  BY <1>0, PipeAssumption DEF ClosePipe, Pipes
<1>2. IF readers'[p] = 0 /\ writers'[p] = 0
      THEN name' = [name EXCEPT ![p] = NoName] /\ seen' = [seen EXCEPT ![p] = FALSE]
      ELSE UNCHANGED <<name, seen>>
  BY <1>0 DEF ClosePipe, Emptied
<1>3. EndTypes'
  <2>1. name' \in [Pipes -> Names \cup {NoName}] /\ seen' \in [Pipes -> BOOLEAN]
    BY <1>2
  <2>2. readers' \in [Pipes -> Nat] /\ writers' \in [Pipes -> Nat]
    <3>1. /\ readers' = [readers EXCEPT ![p] = IF "r" \in mode[e] /\ @ > 0 THEN @ - 1 ELSE @]
          /\ writers' = [writers EXCEPT ![p] = IF "w" \in mode[e] /\ @ > 0 THEN @ - 1 ELSE @]
      BY <1>0, <1>1 DEF Without
    <3>2. \A k \in Nat : k > 0 => k - 1 \in Nat
      OBVIOUS
    <3> QED BY <3>1, <3>2
  <2>3. pipe' \in [Ends -> Pipes \cup {NoPipe}] /\ mode' \in [Ends -> SUBSET {"r", "w"}]
    BY <1>1
  <2> QED BY <2>1, <2>2, <2>3
<1>4. \A q \in Pipes, x \in {"r", "w"} : EndsOf(q, x)' = IF q = p THEN EndsOf(q, x) \ {e} ELSE EndsOf(q, x)
  BY <1>0, <1>1, PipeAssumption DEF EndsOf, Pipes
<1>5. \A x \in {"r", "w"} : e \in EndsOf(p, x) <=> x \in mode[e]
  BY <1>0 DEF EndsOf
<1>6. \A x \in {"r", "w"} :
        Cardinality(EndsOf(p, x))' =
          IF x \in mode[e] THEN Cardinality(EndsOf(p, x)) - 1 ELSE Cardinality(EndsOf(p, x))
  <2> SUFFICES ASSUME NEW x \in {"r", "w"}
      PROVE Cardinality(EndsOf(p, x))' =
              IF x \in mode[e] THEN Cardinality(EndsOf(p, x)) - 1 ELSE Cardinality(EndsOf(p, x))
    OBVIOUS
  <2>1. CASE x \in mode[e]
    BY <1>1, <1>4, <1>5, <2>1, EndsOfFinite, FS_RemoveElement
  <2>2. CASE x \notin mode[e]
    <3>1. e \notin EndsOf(p, x) BY <1>5, <2>2
    <3>2. EndsOf(p, x)' = EndsOf(p, x) \ {e} BY <1>1, <1>4
    <3>3. EndsOf(p, x) \ {e} = EndsOf(p, x) BY <3>1
    <3> QED BY <2>2, <3>2, <3>3
  <2> QED BY <2>1, <2>2
<1>7. \A x \in {"r", "w"} : x \in mode[e] => Cardinality(EndsOf(p, x)) > 0
  BY <1>5, EndsOfFinite, FS_EmptySet
<1>8. \A q \in Pipes : readers'[q] = Cardinality(EndsOf(q, "r"))' /\ writers'[q] = Cardinality(EndsOf(q, "w"))'
  <2> SUFFICES ASSUME NEW q \in Pipes
      PROVE readers'[q] = Cardinality(EndsOf(q, "r"))' /\ writers'[q] = Cardinality(EndsOf(q, "w"))'
    OBVIOUS
  <2>1. readers[q] = Cardinality(EndsOf(q, "r")) /\ writers[q] = Cardinality(EndsOf(q, "w"))
    BY DEF PipesHaveEnds
  <2>2. CASE q = p
    <3>1. /\ readers'[p] = IF "r" \in mode[e] /\ readers[p] > 0 THEN readers[p] - 1 ELSE readers[p]
          /\ writers'[p] = IF "w" \in mode[e] /\ writers[p] > 0 THEN writers[p] - 1 ELSE writers[p]
      BY <1>0, <1>1 DEF Without
    <3> QED BY <1>6, <1>7, <2>1, <2>2, <3>1
  <2>3. CASE q # p
    <3>1. readers'[q] = readers[q] /\ writers'[q] = writers[q]
      BY <1>0, <1>1, <2>3 DEF Without
    <3>2. EndsOf(q, "r")' = EndsOf(q, "r") /\ EndsOf(q, "w")' = EndsOf(q, "w")
      BY <1>4, <2>3
    <3> QED BY <2>1, <3>1, <3>2
  <2> QED BY <2>2, <2>3
<1>9. \A f \in Ends : pipe'[f] # NoPipe <=> mode'[f] # {}
  BY <1>1 DEF PipesHaveEnds
<1>10. \A q \in Pipes : name'[q] # NoName <=> \E f \in Ends : pipe'[f] = q
  <2>1. (\E f \in Ends : pipe'[f] = p) <=> readers'[p] # 0 \/ writers'[p] # 0
    <3>1. (\E f \in Ends : pipe[f] = p)'
            <=> (Cardinality(EndsOf(p, "r")) # 0 \/ Cardinality(EndsOf(p, "w")) # 0)'
      <4>1. ASSUME NEW f \in Ends, pipe'[f] = p PROVE f \in EndsOf(p, "r")' \cup EndsOf(p, "w")'
        <5>1. mode'[f] # {} /\ mode'[f] \in SUBSET {"r", "w"}
          BY <1>1, <1>3, <1>9, <4>1
        <5> QED BY <4>1, <5>1 DEF EndsOf
      <4>2. \A x : EndsOf(p, x)' # {} => \E f \in Ends : pipe'[f] = p
        BY DEF EndsOf
      <4>3. \A x \in {"r", "w"} : EndsOf(p, x)' = {} <=> Cardinality(EndsOf(p, x))' = 0
        <5>1. \A x \in {"r", "w"} : IsFiniteSet(EndsOf(p, x)')
          BY <1>1, <1>4, EndsOfFinite, FS_Subset
        <5> QED BY <5>1, FS_EmptySet
      <4> QED BY <4>1, <4>2, <4>3
    <3> QED BY <1>1, <1>8, <3>1
  <2>2. name'[p] # NoName <=> readers'[p] # 0 \/ writers'[p] # 0
    <3>1. name[p] # NoName
      BY <1>0, <1>1 DEF PipesHaveEnds
    <3> QED BY <1>1, <1>2, <3>1
  <2>3. \A q \in Pipes : q # p =>
          name'[q] = name[q] /\ \A f \in Ends : pipe'[f] = q <=> pipe[f] = q
    BY <1>0, <1>1, <1>2, PipeAssumption DEF Pipes
  <2> QED BY <2>1, <2>2, <2>3 DEF PipesHaveEnds
<1>11. \A q, r \in Pipes : name'[q] = name'[r] /\ name'[q] # NoName => q = r
  BY <1>1, <1>2 DEF PipesHaveEnds
<1> QED BY <1>3, <1>8, <1>9, <1>10, <1>11 DEF PipesHaveEnds

LEMMA EndsStand ==
  ASSUME EndInv, UNCHANGED <<name, readers, writers, seen, pipe, mode>> PROVE EndInv'
<1>1. \A p, m : EndsOf(p, m)' = EndsOf(p, m) BY DEF EndsOf
<1> QED BY <1>1 DEF EndInv, EndTypes, PipesHaveEnds

\* Calls leave names, counts and ends alone.
LEMMA StepEnds == EndInv /\ [Next]_vars => EndInv'
<1> SUFFICES ASSUME EndInv, [Next]_vars PROVE EndInv'
  OBVIOUS
<1>1. ASSUME UNCHANGED <<name, readers, writers, seen, pipe, mode>> PROVE EndInv'
  BY <1>1, EndsStand
<1>2. ASSUME NEW e \in Ends, Look(e) PROVE EndInv'
  BY <1>1, <1>2 DEF Look, ReadSome, ReadEnd, WriteSome, WriteBroken, GiveUp
<1>3. ASSUME NEW e \in Ends, Use(e) PROVE EndInv'
  <2>1. ASSUME NEW len \in Lengths, CallRead(e, len) \/ CallWrite(e, len) PROVE EndInv'
    BY <1>1, <2>1 DEF CallRead, CallWrite, Call
  <2>2. CASE Cancel(e)
    BY <1>1, <2>2 DEF Cancel
  <2> QED BY <1>3, <2>1, <2>2, OpenEnds, CloseEnds DEF Use
<1>4. CASE UNCHANGED vars
  BY <1>1, <1>4 DEF vars
<1> QED BY <1>2, <1>3, <1>4 DEF Next

\* However opens, closes, calls and kills interleave, the counts of a pipe are
\* those of the paths open on it, and a name is one pipe while it is open.
THEOREM PipesCounted == Spec => []PipesHaveEnds
<1>1. EndInv => PipesHaveEnds
  BY DEF EndInv
<1> QED BY <1>1, InitEnds, StepEnds, PTL DEF Spec
(***************************************************************************)
(* The ring, as the sequence that is in it.                                *)
(***************************************************************************)
Bits == Bytes \cup {Blank}
At(h, i) == (h + i - 1) % Capacity
Ring(h, c, d) == [i \in 1..c |-> d[(h + i - 1) % Capacity]]

LEMMA Wraps ==
  ASSUME NEW a \in Nat, a < 2 * Capacity
  PROVE  a % Capacity = IF a < Capacity THEN a ELSE a - Capacity
<1>1. CASE a < Capacity BY <1>1, PipeAssumption
<1>2. CASE a >= Capacity
  <2>1. a - Capacity \in Nat /\ a - Capacity < Capacity BY <1>2, PipeAssumption
  <2>2. a % Capacity = (a - Capacity) % Capacity BY <1>2, PipeAssumption
  <2> QED BY <1>2, <2>1, <2>2, PipeAssumption
<1> QED BY <1>1, <1>2, PipeAssumption

\* The i-th place from a head, up to once round.
LEMMA AtIs ==
  ASSUME NEW h \in Cells, NEW i \in 1..(Capacity + 1)
  PROVE  /\ At(h, i) = IF h + i - 1 < Capacity THEN h + i - 1 ELSE h + i - 1 - Capacity
         /\ At(h, i) \in Cells
<1>1. h \in Nat /\ h < Capacity BY PipeAssumption DEF Cells
<1>2. h + i - 1 \in Nat /\ h + i - 1 < 2 * Capacity BY <1>1, PipeAssumption
<1>3. At(h, i) = IF h + i - 1 < Capacity THEN h + i - 1 ELSE h + i - 1 - Capacity
  BY <1>1, <1>2, Wraps, PipeAssumption DEF At
<1> QED BY <1>1, <1>3, PipeAssumption DEF Cells

\* Places up to once round are places of their own.
LEMMA AtOnce ==
  ASSUME NEW h \in Cells, NEW i \in 1..Capacity, NEW j \in 1..Capacity, At(h, i) = At(h, j)
  PROVE  i = j
<1>1. i \in 1..(Capacity + 1) /\ j \in 1..(Capacity + 1) BY PipeAssumption
<1>2. /\ At(h, i) = IF h + i - 1 < Capacity THEN h + i - 1 ELSE h + i - 1 - Capacity
      /\ At(h, j) = IF h + j - 1 < Capacity THEN h + j - 1 ELSE h + j - 1 - Capacity
  BY <1>1, AtIs
<1>3. h \in Nat /\ h < Capacity BY PipeAssumption DEF Cells
<1>4. At(h, i) \in Nat /\ At(h, j) \in Nat /\ i \in Nat /\ j \in Nat BY <1>1, AtIs DEF Cells
<1>5. At(h, i) = h + i - 1 \/ At(h, i) = h + i - 1 - Capacity BY <1>2
<1>6. At(h, j) = h + j - 1 \/ At(h, j) = h + j - 1 - Capacity BY <1>2
<1> QED BY <1>3, <1>4, <1>5, <1>6, PipeAssumption

\* The j-th place from the i-th is the one j further.
LEMMA AtFrom ==
  ASSUME NEW h \in Cells, NEW i \in 1..(Capacity + 1), NEW j \in 1..(Capacity + 1),
         i + j - 1 <= Capacity + 1
  PROVE  At(At(h, i), j) = At(h, i + j - 1)
<1>1. At(h, i) \in Cells /\ i + j - 1 \in 1..(Capacity + 1) BY AtIs, PipeAssumption
<1>2. At(h, i) = IF h + i - 1 < Capacity THEN h + i - 1 ELSE h + i - 1 - Capacity BY AtIs
<1>3. At(At(h, i), j) =
        IF At(h, i) + j - 1 < Capacity THEN At(h, i) + j - 1 ELSE At(h, i) + j - 1 - Capacity
  <2> DEFINE x == At(h, i)
  <2>1. x \in Cells BY <1>1
  <2> HIDE DEF x
  <2>2. At(x, j) = IF x + j - 1 < Capacity THEN x + j - 1 ELSE x + j - 1 - Capacity
    BY <2>1, AtIs, PipeAssumption
  <2> QED BY <2>2 DEF x
<1>4. At(h, i + j - 1) = IF h + (i + j - 1) - 1 < Capacity THEN h + (i + j - 1) - 1
                         ELSE h + (i + j - 1) - 1 - Capacity
  BY <1>1, AtIs
<1> QED BY <1>1, <1>2, <1>3, <1>4, PipeAssumption DEF Cells

\* A function over 1..n is a sequence of that length.
LEMMA IsSequence ==
  ASSUME NEW S, NEW n \in Nat, NEW s \in [1..n -> S]
  PROVE  s \in Seq(S) /\ Len(s) = n
<1>1. s \in Seq(S) BY SeqDef
<1>2. Len(s) \in Nat /\ DOMAIN s = 1..Len(s) BY <1>1, LenProperties
<1>3. 1..n = 1..Len(s) BY <1>2
<1> QED BY <1>1, <1>2, <1>3

LEMMA RingIs ==
  ASSUME NEW h \in Cells, NEW c \in 0..Capacity, NEW d \in [Cells -> Bits]
  PROVE  /\ Ring(h, c, d) \in Seq(Bits) /\ Len(Ring(h, c, d)) = c
         /\ \A i \in 1..c : Ring(h, c, d)[i] = d[At(h, i)] /\ At(h, i) \in Cells
<1>1. \A i \in 1..c : At(h, i) \in Cells
  <2> TAKE i \in 1..c
  <2>1. i \in 1..(Capacity + 1) BY PipeAssumption
  <2> QED BY <2>1, AtIs
<1>2. Ring(h, c, d) \in [1..c -> Bits] BY <1>1 DEF Ring, At
<1>3. \A i \in 1..c : Ring(h, c, d)[i] = d[At(h, i)] BY DEF Ring, At
<1>4. c \in Nat BY PipeAssumption
<1> QED BY <1>1, <1>2, <1>3, <1>4, IsSequence

\* What is taken from the head is the first of it, and leaves the rest.
LEMMA TakenFromRing ==
  ASSUME NEW h \in Cells, NEW c \in 0..Capacity, NEW d \in [Cells -> Bits], NEW k \in 1..c
  PROVE  /\ Ring(h, k, d) = SubSeq(Ring(h, c, d), 1, k)
         /\ Ring((h + k) % Capacity, c - k, d) = SubSeq(Ring(h, c, d), k + 1, c)
<1> DEFINE s == Ring(h, c, d)
           g == At(h, k + 1)
           rest == Ring(g, c - k, d)
           first == Ring(h, k, d)
<1>1. k \in 0..Capacity /\ c - k \in 0..Capacity /\ k + 1 \in 1..(Capacity + 1) /\ k \in Nat
      /\ c \in Nat
  BY PipeAssumption
<1>2. (h + k) % Capacity = g
  <2>1. h + (k + 1) - 1 = h + k BY <1>1, PipeAssumption DEF Cells
  <2> QED BY <2>1 DEF At
<1>3. g \in Cells BY <1>1, AtIs
<1>4. /\ s \in Seq(Bits) /\ Len(s) = c
      /\ \A i \in 1..c : s[i] = d[At(h, i)]
  BY RingIs
<1>5. /\ first \in Seq(Bits) /\ Len(first) = k
      /\ \A i \in 1..k : first[i] = d[At(h, i)]
  BY <1>1, RingIs
<1> HIDE DEF g
<1>6. /\ rest \in Seq(Bits) /\ Len(rest) = c - k
      /\ \A i \in 1..(c - k) : rest[i] = d[At(g, i)]
  <2> DEFINE n == c - k
  <2>1. n \in 0..Capacity BY <1>1
  <2> HIDE DEF n
  <2>2. /\ Ring(g, n, d) \in Seq(Bits) /\ Len(Ring(g, n, d)) = n
        /\ \A i \in 1..n : Ring(g, n, d)[i] = d[At(g, i)]
    BY <1>3, <2>1, RingIs
  <2> QED BY <2>2 DEF n
<1>7. \A i \in 1..(c - k) : At(g, i) = At(h, k + i)
  <2> SUFFICES ASSUME NEW i \in 1..(c - k) PROVE At(g, i) = At(h, k + i) OBVIOUS
  <2>1. i \in 1..(Capacity + 1) /\ (k + 1) + i - 1 <= Capacity + 1 /\ (k + 1) + i - 1 = k + i
    BY <1>1, PipeAssumption
  <2> QED BY <1>1, <2>1, AtFrom DEF g
<1> HIDE DEF s, first, rest
<1>8. first = SubSeq(s, 1, k)
  <2>1. \A i \in 1..k : s[i] \in Bits
    <3> TAKE i \in 1..k
    <3>1. i \in 1..Len(s) BY <1>1, <1>4
    <3> QED BY <1>4, <3>1, ElementOfSeq
  <2>2. /\ SubSeq(s, 1, k) \in Seq(Bits) /\ Len(SubSeq(s, 1, k)) = k
        /\ \A i \in 1..k : SubSeq(s, 1, k)[i] = s[i]
    <3>1. 1 \in Int /\ k \in Int /\ 1 <= k /\ k - 1 + 1 = k BY <1>1
    <3>2. /\ SubSeq(s, 1, k) \in Seq(Bits) /\ Len(SubSeq(s, 1, k)) = k - 1 + 1
          /\ \A i \in 1..(k - 1 + 1) : SubSeq(s, 1, k)[i] = s[1 + i - 1]
      BY <2>1, <3>1, SubSeqProperties
    <3>3. \A i \in 1..k : 1 + i - 1 = i BY <1>1
    <3> QED BY <3>1, <3>2, <3>3
  <2>3. \A i \in 1..k : first[i] = SubSeq(s, 1, k)[i] BY <1>1, <1>4, <1>5, <2>2
  <2> QED BY <1>5, <2>2, <2>3, SeqEqual
<1>9. rest = SubSeq(s, k + 1, c)
  <2>1. \A i \in (k + 1)..c : s[i] \in Bits
    <3> TAKE i \in (k + 1)..c
    <3>1. i \in 1..Len(s) BY <1>1, <1>4
    <3> QED BY <1>4, <3>1, ElementOfSeq
  <2>2. /\ SubSeq(s, k + 1, c) \in Seq(Bits) /\ Len(SubSeq(s, k + 1, c)) = c - k
        /\ \A i \in 1..(c - k) : SubSeq(s, k + 1, c)[i] = s[k + i]
    <3>1. k + 1 \in Int /\ c \in Int /\ (k + 1 > c => c - k = 0) /\ c - (k + 1) + 1 = c - k BY <1>1
    <3>2. /\ SubSeq(s, k + 1, c) \in Seq(Bits)
          /\ Len(SubSeq(s, k + 1, c)) = IF k + 1 <= c THEN c - (k + 1) + 1 ELSE 0
          /\ \A i \in 1..(c - (k + 1) + 1) : SubSeq(s, k + 1, c)[i] = s[(k + 1) + i - 1]
      BY <2>1, <3>1, SubSeqProperties
    <3>3. \A i \in 1..(c - k) : (k + 1) + i - 1 = k + i BY <1>1
    <3> QED BY <3>1, <3>2, <3>3
  <2>3. \A i \in 1..(c - k) : k + i \in 1..c BY <1>1
  <2>4. \A i \in 1..(c - k) : rest[i] = SubSeq(s, k + 1, c)[i] BY <1>4, <1>6, <1>7, <2>2, <2>3
  <2> QED BY <1>6, <2>2, <2>4, SeqEqual
<1> QED BY <1>2, <1>8, <1>9 DEF s, first, rest, g

\* What a copy at t of k bytes writes, and what it leaves.
LEMMA Written ==
  ASSUME NEW d \in [Cells -> Bits], NEW k \in 0..Capacity, NEW new \in [1..k -> Bits],
         NEW t \in Cells
  PROVE  LET d2 == Filled(d, t, k, new)
         IN  /\ d2 \in [Cells -> Bits]
             /\ \A i \in 1..k : d2[At(t, i)] = new[i]
             /\ \A x \in Cells : (\A i \in 1..k : x # At(t, i)) => d2[x] = d[x]
<1> DEFINE Which(x) == CHOOSE i \in 1..k : x = At(t, i)
           Hit(x) == \E i \in 1..k : x = At(t, i)
           d2 == [x \in Cells |-> IF Hit(x) THEN new[Which(x)] ELSE d[x]]
<1>1. \A x : Hit(x) => Which(x) \in 1..k /\ x = At(t, Which(x)) OBVIOUS
<1>2. \A i \in 1..k : i \in 1..Capacity /\ At(t, i) \in Cells
  <2> TAKE i \in 1..k
  <2>1. i \in 1..Capacity /\ i \in 1..(Capacity + 1) BY PipeAssumption
  <2> QED BY <2>1, AtIs
<1>3. \A i, j \in 1..k : At(t, i) = At(t, j) => i = j BY <1>2, AtOnce
<1>4. \A i \in 1..k : Hit(At(t, i)) OBVIOUS
<1> HIDE DEF Which, Hit
<1>5. \A i \in 1..k : Which(At(t, i)) = i BY <1>1, <1>3, <1>4
<1>6. d2 \in [Cells -> Bits] BY <1>1
<1>7. \A i \in 1..k : d2[At(t, i)] = new[i] BY <1>2, <1>4, <1>5
<1>8. \A x \in Cells : (\A i \in 1..k : x # At(t, i)) => d2[x] = d[x] BY DEF Hit
<1>9. d2 = Filled(d, t, k, new) BY DEF Which, Hit, At, Filled
<1> HIDE DEF d2
<1> QED BY <1>6, <1>7, <1>8, <1>9

\* What is put at the tail comes after what is there.
LEMMA PutIntoRing ==
  ASSUME NEW h \in Cells, NEW c \in 0..Capacity, NEW d \in [Cells -> Bits],
         NEW k \in 0..Capacity, c + k <= Capacity, NEW new \in [1..k -> Bits],
         NEW t \in Cells, t = At(h, c + 1), NEW d2 \in [Cells -> Bits],
         \A i \in 1..k : d2[At(t, i)] = new[i],
         \A x \in Cells : (\A i \in 1..k : x # At(t, i)) => d2[x] = d[x]
  PROVE  /\ Ring(h, c + k, d2) = Ring(h, c, d) \o new
         /\ (t + k) % Capacity = At(h, c + k + 1)
<1>1. c \in Nat /\ k \in Nat /\ c + k \in 0..Capacity /\ c + 1 \in 1..(Capacity + 1) BY PipeAssumption
<1>3. \A i \in 1..k : i \in 1..Capacity /\ c + i \in 1..Capacity /\ (c + 1) + i - 1 = c + i
  BY <1>1, PipeAssumption
<1>4. \A i \in 1..k : At(t, i) = At(h, c + i)
  <2> SUFFICES ASSUME NEW i \in 1..k PROVE At(t, i) = At(h, c + i) OBVIOUS
  <2>1. At(At(h, c + 1), i) = At(h, (c + 1) + i - 1) BY <1>1, <1>3, AtFrom, PipeAssumption
  <2> QED BY <1>3, <2>1
<1>6. \A i \in 1..k : d2[At(h, c + i)] = new[i] BY <1>4
<1>7. \A i \in 1..c : d2[At(h, i)] = d[At(h, i)]
  <2> SUFFICES ASSUME NEW i \in 1..c PROVE d2[At(h, i)] = d[At(h, i)] OBVIOUS
  <2>1. i \in 1..(Capacity + 1) /\ i \in 1..Capacity BY PipeAssumption
  <2>2. At(h, i) \in Cells BY <2>1, AtIs
  <2>3. ASSUME NEW j \in 1..k, At(h, i) = At(t, j) PROVE FALSE
    <3>1. At(h, i) = At(h, c + j) BY <1>4, <2>3
    <3>2. i = c + j BY <1>3, <2>1, <3>1, AtOnce
    <3> QED BY <1>1, <3>2
  <2> QED BY <2>2, <2>3
<1>9. Ring(h, c + k, d2) = Ring(h, c, d) \o new
  <2> DEFINE s == Ring(h, c, d)
             u == Ring(h, c + k, d2)
  <2>1. /\ s \in Seq(Bits) /\ Len(s) = c
        /\ \A i \in 1..c : s[i] = d[At(h, i)]
    BY RingIs DEF s
  <2>2. /\ u \in Seq(Bits) /\ Len(u) = c + k
        /\ \A i \in 1..(c + k) : u[i] = d2[At(h, i)]
    <3> DEFINE n == c + k
    <3>1. n \in 0..Capacity BY <1>1
    <3> HIDE DEF n
    <3>2. /\ Ring(h, n, d2) \in Seq(Bits) /\ Len(Ring(h, n, d2)) = n
          /\ \A i \in 1..n : Ring(h, n, d2)[i] = d2[At(h, i)]
      BY <3>1, RingIs
    <3> QED BY <3>2 DEF n
  <2>3. new \in Seq(Bits) /\ Len(new) = k BY IsSequence
  <2> HIDE DEF s, u
  <2>4. /\ s \o new \in Seq(Bits) /\ Len(s \o new) = c + k
        /\ \A i \in 1..(c + k) : (s \o new)[i] = IF i <= c THEN s[i] ELSE new[i - c]
    <3>1. /\ s \o new \in Seq(Bits) /\ Len(s \o new) = Len(s) + Len(new)
          /\ \A i \in 1..(Len(s) + Len(new)) :
                (s \o new)[i] = IF i <= Len(s) THEN s[i] ELSE new[i - Len(s)]
      BY <2>1, <2>3, ConcatProperties
    <3> QED BY <2>1, <2>3, <3>1
  <2>5. ASSUME NEW i \in 1..(c + k) PROVE u[i] = (s \o new)[i]
    <3>1. CASE i <= c
      <4>1. i \in 1..c BY <1>1, <3>1
      <4> QED BY <1>7, <2>1, <2>2, <2>4, <3>1, <4>1
    <3>2. CASE i > c
      <4>1. i - c \in 1..k /\ c + (i - c) = i BY <1>1, <3>2
      <4>2. d2[At(h, i)] = new[i - c] BY <1>6, <4>1
      <4>3. u[i] = d2[At(h, i)] BY <2>2
      <4>4. (s \o new)[i] = new[i - c] BY <1>1, <2>4, <3>2
      <4> QED BY <4>2, <4>3, <4>4
    <3>3. i \in Nat /\ c \in Nat BY <1>1
    <3>4. i <= c \/ i > c BY <3>3
    <3> QED BY <3>1, <3>2, <3>4
  <2>6. u = s \o new BY <2>2, <2>4, <2>5, SeqEqual
  <2> QED BY <2>6 DEF s, u
<1>10. (t + k) % Capacity = At(h, c + k + 1)
  <2> DEFINE j == k + 1
             i == c + 1
  <2>1. i \in 1..(Capacity + 1) /\ j \in 1..(Capacity + 1) /\ i + j - 1 <= Capacity + 1
    BY <1>1, PipeAssumption
  <2>2. t + j - 1 = t + k /\ i + j - 1 = c + k + 1 BY <1>1, PipeAssumption DEF Cells
  <2> HIDE DEF j
  <2>3. At(t, j) = At(h, i + j - 1) BY <2>1, AtFrom
  <2> QED BY <2>2, <2>3 DEF At
<1> QED BY <1>9, <1>10


(***************************************************************************)
(* What a call and a ring are, in every state.                             *)
(***************************************************************************)
\* The tail is as far from the head as there are bytes; a pipe with no name has none.
RingInv ==
  \A p \in Pipes :
    /\ tail[p] = At(head[p], count[p] + 1)
    /\ name[p] = NoName => count[p] = 0 /\ ~seen[p]

\* Who is in a call has the pipe open for it, and something left to do.
CallInv ==
  \A e \in Ends :
    /\ pc[e] # "idle" => pipe[e] # NoPipe /\ left[e] > 0
    /\ pc[e] = "read" => "r" \in mode[e]
    /\ pc[e] = "write" => "w" \in mode[e] /\ sent[e] + left[e] <= MaxBytes

PipeInv == TypeOK /\ EndInv /\ RingInv /\ CallInv

LEMMA PipeInvInit == Init => PipeInv
<1> SUFFICES ASSUME Init PROVE PipeInv OBVIOUS
<1>1. 0 \in Cells /\ 0 \in 0..Capacity BY PipeAssumption DEF Cells
<1>2. TypeOK BY <1>1, PipeAssumption DEF Init, TypeOK
<1>3. At(0, 1) = 0
  <2>1. 1 \in 1..(Capacity + 1) BY PipeAssumption
  <2>2. At(0, 1) = IF 0 + 1 - 1 < Capacity THEN 0 + 1 - 1 ELSE 0 + 1 - 1 - Capacity
    BY <1>1, <2>1, AtIs
  <2> QED BY <2>2, PipeAssumption
<1>4. RingInv BY <1>3 DEF Init, RingInv
<1>5. CallInv BY DEF Init, CallInv
<1> QED BY <1>2, <1>4, <1>5, InitEnds DEF PipeInv

\* Opens, closes and the ends of calls leave the rings consistent.
LEMMA OpenKeeps ==
  ASSUME PipeInv, NEW e \in Ends, NEW n \in Names, NEW m \in OpenModes, OpenPipe(e, n, m)
  PROVE  (TypeOK /\ RingInv /\ CallInv)'
<1> USE DEF PipeInv
<1>1. PICK p \in Chosen(n) :
        /\ pipe[e] = NoPipe /\ pc[e] = "idle"
        /\ name' = [name EXCEPT ![p] = n]
        /\ readers' = [readers EXCEPT ![p] = IF "r" \in m THEN @ + 1 ELSE @]
        /\ writers' = [writers EXCEPT ![p] = IF "w" \in m THEN @ + 1 ELSE @]
        /\ seen' = [seen EXCEPT ![p] = @ \/ "w" \in m]
        /\ pipe' = [pipe EXCEPT ![e] = p] /\ mode' = [mode EXCEPT ![e] = m]
        /\ UNCHANGED <<ring, calls, got, sent>>
  BY DEF OpenPipe
<1>2. EndInv' BY OpenEnds
<1>3. p \in Pipes /\ n # NoName BY <1>1, PipeAssumption DEF Chosen, Found, Unused
<1>4. TypeOK' BY <1>1, <1>2 DEF TypeOK, EndInv, EndTypes, ring, calls
<1>5. RingInv'
  <2>1. \A q \in Pipes : q # p => name'[q] = name[q] /\ seen'[q] = seen[q] BY <1>1
  <2>2. name'[p] = n BY <1>1, <1>3 DEF TypeOK
  <2> QED BY <1>1, <1>3, <2>1, <2>2 DEF RingInv, ring
<1>6. CallInv'
  <2>1. \A f \in Ends : f # e => pipe'[f] = pipe[f] /\ mode'[f] = mode[f] BY <1>1
  <2> QED BY <1>1, <2>1 DEF CallInv, calls
<1> QED BY <1>4, <1>5, <1>6

LEMMA CloseKeeps ==
  ASSUME PipeInv, NEW e \in Ends, ClosePipe(e)
  PROVE  (TypeOK /\ RingInv /\ CallInv)'
<1> USE DEF PipeInv
<1> DEFINE p == pipe[e]
<1>1. /\ p \in Pipes /\ p # NoPipe
      /\ pipe' = [pipe EXCEPT ![e] = NoPipe] /\ mode' = [mode EXCEPT ![e] = {}]
      /\ pc' = [pc EXCEPT ![e] = "idle"] /\ left' = [left EXCEPT ![e] = 0]
      /\ UNCHANGED <<data, cancelled, got, sent>>
  BY DEF ClosePipe, TypeOK
<1>2. Emptied(p) \/ UNCHANGED <<name, seen, head, tail, count>> BY DEF ClosePipe
<1>3. EndInv' BY CloseEnds
<1>4. 0 \in Cells /\ 0 \in 0..Capacity BY PipeAssumption DEF Cells
<1>5. TypeOK'
  <2>1. head' \in [Pipes -> Cells] /\ tail' \in [Pipes -> Cells] /\ count' \in [Pipes -> 0..Capacity]
    <3>1. CASE UNCHANGED <<name, seen, head, tail, count>> BY <3>1 DEF TypeOK
    <3>2. CASE Emptied(p)
      <4>1. /\ head' = [head EXCEPT ![p] = 0] /\ tail' = [tail EXCEPT ![p] = 0]
            /\ count' = [count EXCEPT ![p] = 0]
        BY <3>2 DEF Emptied
      <4>2. head' \in [Pipes -> Cells] /\ tail' \in [Pipes -> Cells] BY <1>1, <1>4, <4>1 DEF TypeOK
      <4>3. count' \in [Pipes -> 0..Capacity] BY <1>1, <1>4, <4>1 DEF TypeOK
      <4> QED BY <4>2, <4>3
    <3> QED BY <1>2, <3>1, <3>2
  <2>2. pc' \in [Ends -> {"idle", "read", "write"}] /\ left' \in [Ends -> Nat] BY <1>1 DEF TypeOK
  <2> QED BY <1>1, <1>3, <2>1, <2>2 DEF TypeOK, EndInv, EndTypes
<1>6. RingInv'
  <2>1. CASE UNCHANGED <<name, seen, head, tail, count>> BY <2>1 DEF RingInv
  <2>2. CASE Emptied(p)
    <3>1. At(0, 0 + 1) = 0
      <4>1. 0 + 1 \in 1..(Capacity + 1) BY PipeAssumption
      <4>2. At(0, 0 + 1) = IF 0 + (0 + 1) - 1 < Capacity THEN 0 + (0 + 1) - 1
                           ELSE 0 + (0 + 1) - 1 - Capacity
        BY <1>4, <4>1, AtIs
      <4> QED BY <4>2, PipeAssumption
    <3>2. \A q \in Pipes : q # p =>
            /\ name'[q] = name[q] /\ seen'[q] = seen[q] /\ head'[q] = head[q]
            /\ tail'[q] = tail[q] /\ count'[q] = count[q]
      BY <2>2 DEF Emptied
    <3>3. /\ head'[p] = 0 /\ tail'[p] = 0 /\ count'[p] = 0
          /\ ~seen'[p]
      BY <1>1, <2>2 DEF Emptied, TypeOK
    <3> QED BY <3>1, <3>2, <3>3 DEF RingInv
  <2> QED BY <1>2, <2>1, <2>2
<1>7. CallInv'
  <2>1. \A f \in Ends : f # e =>
          pipe'[f] = pipe[f] /\ mode'[f] = mode[f] /\ pc'[f] = pc[f] /\ left'[f] = left[f]
    BY <1>1
  <2>2. pc'[e] = "idle" BY <1>1 DEF TypeOK
  <2> QED BY <1>1, <2>1, <2>2 DEF CallInv
<1> QED BY <1>5, <1>6, <1>7

\* A look that ends its call and touches no ring, and a call that begins.
LEMMA ReturnKeeps ==
  ASSUME PipeInv, NEW e \in Ends, Returned(e),
         UNCHANGED <<name, ring, readers, writers, seen, pipe, mode, cancelled, sent>>
  PROVE  PipeInv'
<1> USE DEF PipeInv, Returned
<1>1. pc' \in [Ends -> {"idle", "read", "write"}] /\ left' \in [Ends -> Nat] BY DEF TypeOK
<1>2. TypeOK' BY <1>1 DEF TypeOK, ring
<1>3. RingInv' BY DEF RingInv, ring
<1>4. \A f \in Ends : f # e => pc'[f] = pc[f] /\ left'[f] = left[f] OBVIOUS
<1>5. pc'[e] = "idle" BY DEF TypeOK
<1>6. CallInv' BY <1>4, <1>5 DEF CallInv
<1>7. EndInv' BY EndsStand
<1> QED BY <1>2, <1>3, <1>6, <1>7

LEMMA CallKeeps ==
  ASSUME PipeInv, NEW e \in Ends, NEW len \in Lengths, CallRead(e, len) \/ CallWrite(e, len)
  PROVE  PipeInv'
<1> USE DEF PipeInv
<1>1. PICK which \in {"read", "write"} :
        /\ pc[e] = "idle" /\ pipe[e] # NoPipe
        /\ which = "read" => "r" \in mode[e]
        /\ which = "write" => "w" \in mode[e] /\ sent[e] + len <= MaxBytes
        /\ pc' = [pc EXCEPT ![e] = which] /\ left' = [left EXCEPT ![e] = len]
        /\ UNCHANGED <<name, ring, readers, writers, seen, pipe, mode, cancelled, got, sent>>
  BY DEF CallRead, CallWrite, Call
<1>2. len \in Nat /\ len > 0 BY PipeAssumption
<1>3. TypeOK' BY <1>1, <1>2 DEF TypeOK, ring
<1>4. RingInv' BY <1>1 DEF RingInv, ring
<1>5. \A f \in Ends : f # e => pc'[f] = pc[f] /\ left'[f] = left[f] BY <1>1
<1>6. pc'[e] = which /\ left'[e] = len BY <1>1 DEF TypeOK
<1>7. CallInv' BY <1>1, <1>2, <1>5, <1>6 DEF CallInv
<1>8. EndInv' BY <1>1, EndsStand
<1> QED BY <1>3, <1>4, <1>7, <1>8


LEMMA ReadKeeps ==
  ASSUME PipeInv, NEW e \in Ends, ReadSome(e)
  PROVE  /\ PipeInv'
         /\ Lesser(count[pipe[e]], left[e]) \in 1..count[pipe[e]]
<1> USE DEF PipeInv
<1> DEFINE p == pipe[e]
           h == head[p]
           c == count[p]
           k == Lesser(c, left[e])
<1>1. /\ pc[e] = "read" /\ c > 0 /\ Returned(e)
      /\ head' = [head EXCEPT ![p] = (h + k) % Capacity] /\ count' = [count EXCEPT ![p] = c - k]
      /\ UNCHANGED <<name, tail, data, readers, writers, seen, pipe, mode, cancelled, sent>>
  BY DEF ReadSome
<1>2. p \in Pipes /\ left[e] \in Nat /\ left[e] > 0 BY <1>1 DEF TypeOK, CallInv
<1>3. h \in Cells /\ c \in 0..Capacity /\ c \in Nat BY <1>2, PipeAssumption DEF TypeOK
<1>4. k \in 1..c /\ k \in Nat BY <1>1, <1>2, <1>3 DEF Lesser
<1> HIDE DEF k
<1>5. (h + k) % Capacity = At(h, k + 1)
  <2>1. h + (k + 1) - 1 = h + k BY <1>3, <1>4, PipeAssumption DEF Cells
  <2> QED BY <2>1 DEF At
<1>6. k + 1 \in 1..(Capacity + 1) /\ c - k \in 0..Capacity BY <1>3, <1>4, PipeAssumption
<1>7. At(h, k + 1) \in Cells BY <1>3, <1>6, AtIs
<1>8. TypeOK'
  <2>1. head' \in [Pipes -> Cells] BY <1>1, <1>5, <1>7 DEF TypeOK
  <2>2. count' \in [Pipes -> 0..Capacity] BY <1>1, <1>6 DEF TypeOK
  <2>3. pc' \in [Ends -> {"idle", "read", "write"}] /\ left' \in [Ends -> Nat]
    BY <1>1 DEF Returned, TypeOK
  <2> QED BY <1>1, <2>1, <2>2, <2>3 DEF TypeOK
<1>9. RingInv'
  <2>1. \A q \in Pipes : q # p => head'[q] = head[q] /\ count'[q] = count[q] BY <1>1
  <2>2. head'[p] = At(h, k + 1) /\ count'[p] = c - k BY <1>1, <1>2, <1>5 DEF TypeOK
  <2>3. At(At(h, k + 1), c - k + 1) = At(h, c + 1)
    <3> DEFINE i == k + 1
               j == c - k + 1
    <3>1. /\ i \in 1..(Capacity + 1) /\ j \in 1..(Capacity + 1) /\ i + j - 1 <= Capacity + 1
          /\ i + j - 1 = c + 1
      BY <1>3, <1>4, PipeAssumption
    <3> HIDE DEF i, j
    <3>2. At(At(h, i), j) = At(h, i + j - 1) BY <1>3, <3>1, AtFrom
    <3> QED BY <3>1, <3>2 DEF i, j
  <2>4. name[p] # NoName BY <1>1, <1>2 DEF RingInv
  <2> QED BY <1>1, <2>1, <2>2, <2>3, <2>4 DEF RingInv
<1>10. CallInv'
  <2>1. \A f \in Ends : f # e => pc'[f] = pc[f] /\ left'[f] = left[f] BY <1>1 DEF Returned
  <2>2. pc'[e] = "idle" BY <1>1 DEF Returned, TypeOK
  <2> QED BY <1>1, <2>1, <2>2 DEF CallInv
<1>11. EndInv' BY <1>1, EndsStand
<1> QED BY <1>4, <1>8, <1>9, <1>10, <1>11 DEF k

\* What a write puts in is so many of its own bytes, in order.
LEMMA WriteKeeps ==
  ASSUME PipeInv, NEW e \in Ends, WriteSome(e)
  PROVE  LET p == pipe[e]
             k == Lesser(Capacity - count[p], left[e])
             new == [i \in 1..k |-> <<e, sent[e] + i>>]
         IN  /\ PipeInv'
             /\ k \in 1..Capacity /\ count[p] + k <= Capacity
             /\ Ring(head[p], count[p] + k, data'[p]) = Ring(head[p], count[p], data[p]) \o new
             /\ \A q \in Pipes : q # p => data'[q] = data[q]
<1> USE DEF PipeInv
<1> DEFINE p == pipe[e]
           h == head[p]
           c == count[p]
           k == Lesser(Capacity - c, left[e])
           new == [i \in 1..k |-> <<e, sent[e] + i>>]
           written == Filled(data[p], tail[p], k, new)
<1>1. /\ pc[e] = "write" /\ c < Capacity
      /\ data' = [data EXCEPT ![p] = written] /\ tail' = [tail EXCEPT ![p] = (tail[p] + k) % Capacity]
      /\ count' = [count EXCEPT ![p] = c + k] /\ sent' = [sent EXCEPT ![e] = sent[e] + k]
      /\ UNCHANGED <<name, head, readers, writers, seen, pipe, mode, cancelled, got>>
  BY DEF WriteSome
<1>2. IF k = left[e] THEN Returned(e) ELSE left' = [left EXCEPT ![e] = @ - k] /\ UNCHANGED pc
  BY DEF WriteSome
<1>3. p \in Pipes /\ left[e] \in Nat /\ left[e] > 0 /\ sent[e] \in Nat /\ sent[e] + left[e] <= MaxBytes
  BY <1>1, PipeAssumption DEF TypeOK, CallInv
<1>4. /\ h \in Cells /\ c \in 0..Capacity /\ c \in Nat /\ tail[p] \in Cells
      /\ data[p] \in [Cells -> Bits] /\ tail[p] = At(h, c + 1)
  BY <1>3, PipeAssumption DEF TypeOK, RingInv, Bits
<1>5. k \in 1..Capacity /\ k \in 0..Capacity /\ k \in Nat /\ k <= left[e] /\ c + k <= Capacity
  BY SMTT(30), <1>1, <1>3, <1>4, PipeAssumption DEF Lesser
<1> HIDE DEF k
<1>6. new \in [1..k -> Bits]
  <2> SUFFICES ASSUME NEW i \in 1..k PROVE <<e, sent[e] + i>> \in Bytes BY DEF Bits
  <2>1. sent[e] + i \in 1..MaxBytes BY <1>3, <1>5, PipeAssumption
  <2> QED BY <2>1 DEF Bytes
<1> HIDE DEF new
<1>7. /\ written \in [Cells -> Bits]
      /\ \A i \in 1..k : written[At(tail[p], i)] = new[i]
      /\ \A x \in Cells : (\A i \in 1..k : x # At(tail[p], i)) => written[x] = data[p][x]
  <2> DEFINE d == data[p]
             t == tail[p]
  <2>1. d \in [Cells -> Bits] /\ t \in Cells BY <1>4
  <2>2. written = Filled(d, t, k, new) OBVIOUS
  <2> HIDE DEF d, t, written
  <2>3. /\ written \in [Cells -> Bits]
        /\ \A i \in 1..k : written[At(t, i)] = new[i]
        /\ \A x \in Cells : (\A i \in 1..k : x # At(t, i)) => written[x] = d[x]
    BY <1>5, <1>6, <2>1, <2>2, Written
  <2> QED BY <2>3 DEF d, t
<1> HIDE DEF written
<1>8. /\ Ring(h, c + k, written) = Ring(h, c, data[p]) \o new
      /\ (tail[p] + k) % Capacity = At(h, c + k + 1)
  <2> DEFINE d == data[p]
             t == tail[p]
  <2>1. d \in [Cells -> Bits] /\ t \in Cells /\ t = At(h, c + 1) BY <1>4
  <2>2. /\ \A i \in 1..k : written[At(t, i)] = new[i]
        /\ \A x \in Cells : (\A i \in 1..k : x # At(t, i)) => written[x] = d[x]
    BY <1>7
  <2> HIDE DEF d, t, h, c
  <2>3. /\ Ring(h, c + k, written) = Ring(h, c, d) \o new
        /\ (t + k) % Capacity = At(h, c + k + 1)
    BY SMTT(30), <1>4, <1>5, <1>6, <1>7, <2>1, <2>2, PutIntoRing
  <2> QED BY <2>3 DEF d, t, h, c
<1>9. data'[p] = written /\ \A q \in Pipes : q # p => data'[q] = data[q] BY <1>1, <1>3 DEF TypeOK
<1>10. At(h, c + k + 1) \in Cells
  <2> DEFINE i == c + k + 1
  <2>1. i \in 1..(Capacity + 1) BY <1>4, <1>5, PipeAssumption
  <2> HIDE DEF i
  <2>2. At(h, i) \in Cells BY <1>4, <2>1, AtIs
  <2> QED BY <2>2 DEF i
<1>11. TypeOK'
  <2>1. data' \in [Pipes -> [Cells -> Bits]] BY <1>1, <1>7 DEF TypeOK, Bits
  <2>2. tail' \in [Pipes -> Cells] BY <1>1, <1>8, <1>10 DEF TypeOK
  <2>3. count' \in [Pipes -> 0..Capacity]
    <3>1. c + k \in 0..Capacity BY <1>4, <1>5
    <3> QED BY <1>1, <3>1 DEF TypeOK
  <2>4. sent' \in [Ends -> 0..MaxBytes]
    <3>1. sent[e] + k \in 0..MaxBytes BY <1>3, <1>5, PipeAssumption
    <3> QED BY <1>1, <3>1 DEF TypeOK
  <2>5. pc' \in [Ends -> {"idle", "read", "write"}] /\ left' \in [Ends -> Nat]
    <3>1. left[e] - k \in Nat BY <1>3, <1>5
    <3>2. CASE Returned(e) BY <3>2 DEF Returned, TypeOK
    <3>3. CASE left' = [left EXCEPT ![e] = @ - k] /\ UNCHANGED pc BY <3>1, <3>3 DEF TypeOK
    <3> QED BY <1>2, <3>2, <3>3
  <2> QED BY <1>1, <2>1, <2>2, <2>3, <2>4, <2>5 DEF TypeOK, Bits
<1>12. RingInv'
  <2>1. \A q \in Pipes : q # p => tail'[q] = tail[q] /\ count'[q] = count[q] BY <1>1
  <2>2. tail'[p] = At(h, c + k + 1) /\ count'[p] = c + k BY <1>1, <1>3, <1>8 DEF TypeOK
  <2>3. name[p] # NoName BY <1>1, <1>3 DEF EndInv, PipesHaveEnds
  <2> QED BY <1>1, <2>1, <2>2, <2>3 DEF RingInv
<1>13. CallInv'
  <2>1. \A f \in Ends : f # e => pc'[f] = pc[f] /\ left'[f] = left[f] /\ sent'[f] = sent[f]
    <3>1. CASE Returned(e) BY <1>1, <3>1 DEF Returned
    <3>2. CASE left' = [left EXCEPT ![e] = @ - k] /\ UNCHANGED pc BY <1>1, <3>2
    <3> QED BY <1>2, <3>1, <3>2
  <2>2. CASE k = left[e]
    <3>1. pc'[e] = "idle" BY <1>2, <2>2 DEF Returned, TypeOK
    <3> QED BY <1>1, <2>1, <3>1 DEF CallInv
  <2>3. CASE k # left[e]
    <3>1. pc'[e] = "write" /\ left'[e] = left[e] - k /\ sent'[e] = sent[e] + k
      BY <1>1, <1>2, <2>3 DEF TypeOK
    <3>2. left'[e] > 0 /\ sent'[e] + left'[e] <= MaxBytes BY <1>3, <1>5, <2>3, <3>1, PipeAssumption
    <3>3. pipe[e] # NoPipe /\ "w" \in mode[e] BY <1>1 DEF CallInv
    <3> QED BY <1>1, <2>1, <3>1, <3>2, <3>3 DEF CallInv
  <2> QED BY <2>2, <2>3
<1>14. EndInv' BY <1>1, EndsStand
<1> QED BY <1>5, <1>8, <1>9, <1>11, <1>12, <1>13, <1>14 DEF k, new

LEMMA PipeInvStep == PipeInv /\ [Next]_vars => PipeInv'
<1> SUFFICES ASSUME PipeInv, [Next]_vars PROVE PipeInv' OBVIOUS
<1>1. ASSUME NEW e \in Ends, Look(e) PROVE PipeInv'
  <2>1. CASE ReadSome(e) BY <2>1, ReadKeeps
  <2>2. CASE WriteSome(e) BY <2>2, WriteKeeps
  <2>3. CASE ReadEnd(e) \/ WriteBroken(e) \/ GiveUp(e)
    BY <2>3, ReturnKeeps DEF ReadEnd, WriteBroken, GiveUp
  <2> QED BY <1>1, <2>1, <2>2, <2>3 DEF Look
<1>2. ASSUME NEW e \in Ends, Use(e) PROVE PipeInv'
  <2>1. ASSUME NEW n \in Names, NEW m \in OpenModes, OpenPipe(e, n, m) PROVE PipeInv'
    BY <2>1, OpenKeeps, OpenEnds DEF PipeInv
  <2>2. CASE ClosePipe(e) BY <2>2, CloseKeeps, CloseEnds DEF PipeInv
  <2>3. ASSUME NEW len \in Lengths, CallRead(e, len) \/ CallWrite(e, len) PROVE PipeInv'
    BY <2>3, CallKeeps
  <2>4. CASE Cancel(e)
    <3>1. /\ cancelled' \subseteq Ends
          /\ UNCHANGED <<name, ring, readers, writers, seen, pipe, mode, pc, left, got, sent>>
      BY <2>4 DEF Cancel, PipeInv, TypeOK
    <3>2. EndInv' BY <3>1, EndsStand DEF PipeInv
    <3> QED BY <3>1, <3>2 DEF PipeInv, TypeOK, RingInv, CallInv, ring
  <2> QED BY <1>2, <2>1, <2>2, <2>3, <2>4 DEF Use
<1>3. CASE UNCHANGED vars
  <2>1. EndInv' BY <1>3, EndsStand DEF vars, PipeInv
  <2> QED BY <1>3, <2>1 DEF vars, PipeInv, TypeOK, RingInv, CallInv
<1> QED BY <1>1, <1>2, <1>3 DEF Next


(***************************************************************************)
(* The pipes are channels.                                                 *)
(***************************************************************************)
\* What is in the pipe of a name, before and after a step.
LEMMA Texts ==
  ASSUME PipeInv, PipeInv', NEW n \in Names
  PROVE  /\ \A p \in Pipes : name[p] = n =>
               Found(n) = {p} /\ InPipe(n) = Ring(head[p], count[p], data[p])
         /\ (\A p \in Pipes : name[p] # n) => Found(n) = {} /\ InPipe(n) = <<>>
         /\ \A p \in Pipes : name'[p] = n =>
               Found(n)' = {p} /\ InPipe(n)' = Ring(head'[p], count'[p], data'[p])
         /\ (\A p \in Pipes : name'[p] # n) => Found(n)' = {} /\ InPipe(n)' = <<>>
<1> n # NoName BY PipeAssumption
<1>1. ASSUME NEW p \in Pipes, name[p] = n
      PROVE  Found(n) = {p} /\ InPipe(n) = Ring(head[p], count[p], data[p])
  <2>1. Found(n) = {p} BY <1>1 DEF Found, PipeInv, EndInv, PipesHaveEnds
  <2>2. (CHOOSE q \in Found(n) : TRUE) = p BY <2>1
  <2> QED BY <2>1, <2>2 DEF InPipe, Contents, Ring
<1>2. ASSUME NEW p \in Pipes, name'[p] = n
      PROVE  Found(n)' = {p} /\ InPipe(n)' = Ring(head'[p], count'[p], data'[p])
  <2>1. Found(n)' = {p} BY <1>2 DEF Found, PipeInv, EndInv, PipesHaveEnds
  <2>2. (CHOOSE q \in Found(n)' : TRUE) = p BY <2>1
  <2> QED BY <2>1, <2>2 DEF InPipe, Contents, Ring
<1>3. (\A p \in Pipes : name[p] # n) => Found(n) = {} /\ InPipe(n) = <<>> BY DEF Found, InPipe
<1>4. (\A p \in Pipes : name'[p] # n) => Found(n)' = {} /\ InPipe(n)' = <<>> BY DEF Found, InPipe
<1> QED BY <1>1, <1>2, <1>3, <1>4

\* Which name an end is open on.
LEMMA Ats ==
  ASSUME PipeInv, NEW e \in Ends
  PROVE  /\ pipe[e] = NoPipe => NameAt(e) = NoName
         /\ pipe[e] # NoPipe => /\ pipe[e] \in Pipes /\ NameAt(e) = name[pipe[e]]
                               /\ NameAt(e) \in Names /\ NameAt(e) # NoName
<1>1. pipe[e] \in Pipes \cup {NoPipe} /\ \A p \in Pipes : name[p] \in Names \cup {NoName}
  BY DEF PipeInv, TypeOK
<1>2. pipe[e] \in Pipes => name[pipe[e]] # NoName BY DEF PipeInv, EndInv, PipesHaveEnds
<1> QED BY <1>1, <1>2 DEF NameAt

\* A step that moves neither names, ends nor rings, nor what was got or sent.
LEMMA Stutters ==
  ASSUME UNCHANGED <<name, ring, seen, pipe, mode, got, sent>>
  PROVE  UNCHANGED Channel!chan
<1>1. \A n : InPipe(n)' = InPipe(n) /\ Found(n)' = Found(n) BY DEF InPipe, Found, Contents, ring
<1>2. \A e : NameAt(e)' = NameAt(e) BY DEF NameAt
<1> QED BY <1>1, <1>2 DEF Channel!chan

\* A look at one pipe leaves what is in the others, who is where, and who wrote.
LEMMA Elsewhere ==
  ASSUME PipeInv, PipeInv', NEW p \in Pipes, UNCHANGED <<name, seen, pipe>>,
         \A q \in Pipes : q # p => head'[q] = head[q] /\ count'[q] = count[q] /\ data'[q] = data[q]
  PROVE  /\ \A n \in Names : n # name[p] => InPipe(n)' = InPipe(n)
         /\ \A e \in Ends : NameAt(e)' = NameAt(e)
         /\ \A n \in Names : Found(n)' = Found(n)
<1>1. ASSUME NEW n \in Names, n # name[p] PROVE InPipe(n)' = InPipe(n)
  <2>1. CASE \E q \in Pipes : name[q] = n
    <3>1. PICK q \in Pipes : name[q] = n BY <2>1
    <3>2. q # p BY <1>1, <3>1
    <3> QED BY <3>1, <3>2, Texts
  <2>2. CASE \A q \in Pipes : name[q] # n BY <2>2, Texts
  <2> QED BY <2>1, <2>2
<1> QED BY <1>1 DEF NameAt, Found

LEMMA ReadMaps ==
  ASSUME PipeInv, NEW e \in Ends, ReadSome(e)
  PROVE  \E k \in 1..Capacity : Channel!Take(e, k)
<1> DEFINE p == pipe[e]
           h == head[p]
           c == count[p]
           d == data[p]
           k == Lesser(c, left[e])
           s == Ring(h, c, d)
<1>1. PipeInv' /\ k \in 1..c BY ReadKeeps
<1>2. /\ pc[e] = "read" /\ got' = [got EXCEPT ![e] = Ring(h, k, d)]
      /\ head' = [head EXCEPT ![p] = (h + k) % Capacity] /\ count' = [count EXCEPT ![p] = c - k]
      /\ UNCHANGED <<name, data, seen, pipe, mode, sent>>
  BY DEF ReadSome, Copied, Ring
<1>3. pipe[e] # NoPipe /\ "r" \in mode[e] BY <1>2 DEF PipeInv, CallInv
<1>0. p \in Pipes BY <1>3, Ats
<1>4. PICK n \in Names : n = name[p] /\ n # NoName /\ NameAt(e) = n BY <1>3, Ats
<1>5. h \in Cells /\ c \in 0..Capacity /\ d \in [Cells -> Bits]
  BY <1>0, <1>4 DEF PipeInv, TypeOK, Bits
<1> HIDE DEF k
<1>6. InPipe(n) = s /\ InPipe(n)' = Ring(head'[p], count'[p], data'[p]) BY <1>1, <1>2, <1>0, <1>4, Texts
<1>7. Len(s) = c BY <1>5, RingIs
<1>8. head'[p] = (h + k) % Capacity /\ count'[p] = c - k /\ data'[p] = d
  BY <1>0, <1>2 DEF PipeInv, TypeOK
<1> HIDE DEF h, c, d, s
<1>9. Ring(h, k, d) = SubSeq(s, 1, k) /\ Ring((h + k) % Capacity, c - k, d) = SubSeq(s, k + 1, c)
  BY <1>1, <1>5, TakenFromRing DEF s
<1>10. InPipe(n)' = SubSeq(InPipe(n), k + 1, Len(InPipe(n))) BY <1>6, <1>7, <1>8, <1>9
<1>11. \A q \in Pipes : q # p => head'[q] = head[q] /\ count'[q] = count[q] /\ data'[q] = data[q]
  BY <1>2
<1>12. /\ \A m \in Names : m # n => InPipe(m)' = InPipe(m)
       /\ \A f \in Ends : NameAt(f)' = NameAt(f)
       /\ \A m \in Names : Found(m)' = Found(m)
  BY <1>1, <1>2, <1>0, <1>4, <1>11, Elsewhere
<1>13. got' = [got EXCEPT ![e] = SubSeq(InPipe(n), 1, k)] BY <1>2, <1>6, <1>9
<1>14. [m \in Names |-> InPipe(m)'] =
         [[m \in Names |-> InPipe(m)] EXCEPT ![n] = SubSeq(@, k + 1, Len(@))]
  <2> DEFINE F == [m \in Names |-> InPipe(m)]
  <2>1. F[n] = InPipe(n) BY <1>4
  <2>2. \A m \in Names : InPipe(m)' = IF m = n THEN SubSeq(F[n], k + 1, Len(F[n])) ELSE F[m]
    BY <1>10, <1>12, <2>1
  <2> QED BY <2>2
<1>15. [f \in Ends |-> NameAt(f)'] = [f \in Ends |-> NameAt(f)] BY <1>12
<1>16. {m \in Names : \E q \in Found(m)' : seen'[q]} = {m \in Names : \E q \in Found(m) : seen[q]}
  BY <1>2, <1>12
<1>17. k \in 1..Len(InPipe(n)) BY <1>1, <1>6, <1>7
<1>18. Channel!Take(e, k)
  BY <1>2, <1>3, <1>0, <1>4, <1>13, <1>14, <1>15, <1>16, <1>17 DEF Channel!Take
<1>19. k \in 1..Capacity BY <1>1, <1>5, PipeAssumption
<1> QED BY <1>18, <1>19

LEMMA WriteMaps ==
  ASSUME PipeInv, NEW e \in Ends, WriteSome(e)
  PROVE  \E k \in 1..Capacity : Channel!Put(e, k)
<1> DEFINE p == pipe[e]
           h == head[p]
           c == count[p]
           d == data[p]
           k == Lesser(Capacity - c, left[e])
           new == [i \in 1..k |-> <<e, sent[e] + i>>]
<1>1. /\ PipeInv' /\ k \in 1..Capacity /\ c + k <= Capacity
      /\ Ring(h, c + k, data'[p]) = Ring(h, c, d) \o new
      /\ \A q \in Pipes : q # p => data'[q] = data[q]
  BY WriteKeeps
<1>2. /\ pc[e] = "write" /\ count' = [count EXCEPT ![p] = c + k]
      /\ sent' = [sent EXCEPT ![e] = @ + k]
      /\ UNCHANGED <<name, head, seen, pipe, mode, got>>
  BY DEF WriteSome
<1>3. pipe[e] # NoPipe /\ "w" \in mode[e] BY <1>2 DEF PipeInv, CallInv
<1>0. p \in Pipes BY <1>3, Ats
<1>4. PICK n \in Names : n = name[p] /\ n # NoName /\ NameAt(e) = n BY <1>3, Ats
<1>5. h \in Cells /\ c \in 0..Capacity /\ d \in [Cells -> Bits]
  BY <1>0, <1>4 DEF PipeInv, TypeOK, Bits
<1> HIDE DEF k
<1>6. InPipe(n) = Ring(h, c, d) /\ InPipe(n)' = Ring(head'[p], count'[p], data'[p])
  BY <1>1, <1>2, <1>0, <1>4, Texts
<1>7. Len(InPipe(n)) = c BY <1>5, <1>6, RingIs
<1>8. head'[p] = h /\ count'[p] = c + k BY <1>0, <1>2 DEF PipeInv, TypeOK
<1> HIDE DEF h, c, d
<1>9. InPipe(n)' = InPipe(n) \o new BY <1>1, <1>6, <1>8
<1>10. \A q \in Pipes : q # p => head'[q] = head[q] /\ count'[q] = count[q] /\ data'[q] = data[q]
  BY <1>1, <1>2
<1>11. /\ \A m \in Names : m # n => InPipe(m)' = InPipe(m)
       /\ \A f \in Ends : NameAt(f)' = NameAt(f)
       /\ \A m \in Names : Found(m)' = Found(m)
  BY <1>1, <1>2, <1>0, <1>4, <1>10, Elsewhere
<1>12. [m \in Names |-> InPipe(m)'] = [[m \in Names |-> InPipe(m)] EXCEPT ![n] = @ \o new]
  <2> DEFINE F == [m \in Names |-> InPipe(m)]
  <2>1. F[n] = InPipe(n) BY <1>4
  <2>2. \A m \in Names : InPipe(m)' = IF m = n THEN F[n] \o new ELSE F[m] BY <1>9, <1>11, <2>1
  <2> QED BY <2>2
<1>13. [f \in Ends |-> NameAt(f)'] = [f \in Ends |-> NameAt(f)] BY <1>11
<1>14. {m \in Names : \E q \in Found(m)' : seen'[q]} = {m \in Names : \E q \in Found(m) : seen[q]}
  BY <1>2, <1>11
<1>15. Channel!Put(e, k)
  BY <1>1, <1>2, <1>3, <1>0, <1>4, <1>7, <1>12, <1>13, <1>14 DEF Channel!Put
<1> QED BY <1>1, <1>15


LEMMA EndMaps ==
  ASSUME PipeInv, NEW e \in Ends, ReadEnd(e)
  PROVE  Channel!End(e)
<1> DEFINE p == pipe[e]
<1>1. /\ pc[e] = "read" /\ count[p] = 0 /\ writers[p] = 0 /\ seen[p] /\ got' = [got EXCEPT ![e] = <<>>]
      /\ UNCHANGED <<name, ring, readers, writers, seen, pipe, mode, sent>>
  BY DEF ReadEnd, Finished
<1>2. pipe[e] # NoPipe /\ "r" \in mode[e] BY <1>1 DEF PipeInv, CallInv
<1>3. p \in Pipes BY <1>2, Ats
<1>4. PICK n \in Names : n = name[p] /\ n # NoName /\ NameAt(e) = n BY <1>2, Ats
<1>5. Found(n) = {p} /\ InPipe(n) = <<>>
  <2>1. PipeInv' BY <1>1, ReturnKeeps DEF ReadEnd
  <2>2. Found(n) = {p} /\ InPipe(n) = Ring(head[p], count[p], data[p])
    BY <1>3, <1>4, <2>1, Texts
  <2>3. Ring(head[p], count[p], data[p]) = <<>>
    <3>1. 1..0 = {} OBVIOUS
    <3>2. Ring(head[p], 0, data[p]) = <<>> BY <3>1 DEF Ring
    <3> QED BY <1>1, <3>2
  <2> QED BY <2>2, <2>3
\* Nobody has it open to write: the count says so.
<1>6. \A f \in Ends : NameAt(f) = n => "w" \notin mode[f]
  <2> SUFFICES ASSUME NEW f \in Ends, NameAt(f) = n, "w" \in mode[f] PROVE FALSE OBVIOUS
  <2>1. pipe[f] \in Pipes /\ name[pipe[f]] = n BY <1>4, Ats
  <2>2. pipe[f] = p BY <1>3, <1>4, <2>1 DEF PipeInv, EndInv, PipesHaveEnds
  <2>3. f \in EndsOf(p, "w") BY <2>2 DEF EndsOf
  <2>4. Cardinality(EndsOf(p, "w")) = 0 BY <1>1, <1>3 DEF PipeInv, EndInv, PipesHaveEnds
  <2> QED BY <2>3, <2>4, EndsOfFinite, FS_EmptySet
<1>7. UNCHANGED <<[m \in Names |-> InPipe(m)], [f \in Ends |-> NameAt(f)],
                  {m \in Names : \E q \in Found(m) : seen[q]}, mode, sent>>
  <2>1. \A m \in Names : InPipe(m)' = InPipe(m) /\ Found(m)' = Found(m)
    BY <1>1 DEF InPipe, Found, Contents, ring
  <2>2. \A f \in Ends : NameAt(f)' = NameAt(f) BY <1>1 DEF NameAt
  <2> QED BY <1>1, <2>1, <2>2
<1>8. \E q \in Found(n) : seen[q] BY <1>1, <1>5
<1> QED BY <1>1, <1>2, <1>4, <1>5, <1>6, <1>7, <1>8 DEF Channel!End, Channel!Writers, Channel!Open

LEMMA OpenMaps ==
  ASSUME PipeInv, PipeInv', NEW e \in Ends, NEW n \in Names, NEW m \in OpenModes, OpenPipe(e, n, m)
  PROVE  Channel!Join(e, n, m)
<1>1. PICK p \in Chosen(n) :
        /\ pipe[e] = NoPipe /\ name' = [name EXCEPT ![p] = n]
        /\ seen' = [seen EXCEPT ![p] = @ \/ "w" \in m]
        /\ pipe' = [pipe EXCEPT ![e] = p] /\ mode' = [mode EXCEPT ![e] = m]
        /\ UNCHANGED <<ring, calls, got, sent>>
  BY DEF OpenPipe
<1>2. /\ p \in Pipes /\ p # NoPipe /\ n # NoName /\ m # {}
      /\ name[p] = n \/ (name[p] = NoName /\ \A q \in Pipes : name[q] # n)
  BY <1>1, PipeAssumption DEF Chosen, Found, Unused, Pipes
<1>3. \A q \in Pipes : /\ name'[q] = IF q = p THEN n ELSE name[q]
                       /\ q # p => seen'[q] = seen[q]
                       /\ head'[q] = head[q] /\ count'[q] = count[q] /\ data'[q] = data[q]
  BY <1>1 DEF PipeInv, TypeOK, ring
<1>4. NameAt(e) = NoName BY <1>1, Ats
<1>5. ASSUME NEW f \in Ends PROVE NameAt(f)' = IF f = e THEN n ELSE NameAt(f)
  <2>1. CASE f = e BY <1>1, <1>2, <1>3, <2>1 DEF NameAt, PipeInv, TypeOK
  <2>2. CASE f # e
    <3>1. pipe'[f] = pipe[f] BY <1>1, <2>2
    <3>2. pipe[f] = p => name[p] = n BY <1>2, <1>3, Ats
    <3>3. pipe[f] # NoPipe => pipe[f] \in Pipes BY Ats
    <3> QED BY <1>3, <2>2, <3>1, <3>2, <3>3 DEF NameAt
  <2> QED BY <2>1, <2>2
<1>6. ASSUME NEW x \in Names
      PROVE  /\ InPipe(x)' = InPipe(x)
             /\ (\E q \in Found(x)' : seen'[q]) <=>
                   (\E q \in Found(x) : seen[q]) \/ (x = n /\ "w" \in m)
  <2>1. CASE x = n
    <3>1. name'[p] = n BY <1>2, <1>3
    <3>2. Found(n)' = {p} /\ InPipe(n)' = Ring(head[p], count[p], data[p])
      BY <1>2, <1>3, <3>1, Texts
    <3>3. seen'[p] <=> seen[p] \/ "w" \in m BY <1>1, <1>2 DEF PipeInv, TypeOK
    <3>4. CASE name[p] = n
      <4>1. Found(n) = {p} /\ InPipe(n) = Ring(head[p], count[p], data[p]) BY <1>2, <3>4, Texts
      <4> QED BY <2>1, <3>2, <3>3, <4>1
    <3>5. CASE name[p] = NoName /\ \A q \in Pipes : name[q] # n
      <4>1. Found(n) = {} /\ InPipe(n) = <<>> BY <3>5, Texts
      <4>2. count[p] = 0 /\ ~seen[p] BY <1>2, <3>5 DEF PipeInv, RingInv
      <4>3. Ring(head[p], count[p], data[p]) = <<>>
        <5>1. 1..0 = {} OBVIOUS
        <5>2. Ring(head[p], 0, data[p]) = <<>> BY <5>1 DEF Ring
        <5> QED BY <4>2, <5>2
      <4> QED BY <2>1, <3>2, <3>3, <4>1, <4>2, <4>3
    <3> QED BY <1>2, <3>4, <3>5
  <2>2. CASE x # n
    <3>0. x # NoName BY PipeAssumption
    <3>1. \A q \in Pipes : name'[q] = x <=> name[q] = x BY <1>2, <1>3, <2>2, <3>0
    <3>2. \A q \in Pipes : name[q] = x => q # p BY <1>2, <2>2, <3>0
    <3>3. CASE \E q \in Pipes : name[q] = x
      <4>1. PICK q \in Pipes : name[q] = x BY <3>3
      <4>2. /\ Found(x) = {q} /\ InPipe(x) = Ring(head[q], count[q], data[q])
            /\ Found(x)' = {q} /\ InPipe(x)' = Ring(head'[q], count'[q], data'[q])
        BY <3>1, <4>1, Texts
      <4>3. seen'[q] = seen[q] BY <1>3, <3>2, <4>1
      <4> QED BY <1>3, <2>2, <4>2, <4>3
    <3>4. CASE \A q \in Pipes : name[q] # x
      <4>1. Found(x) = {} /\ InPipe(x) = <<>> /\ Found(x)' = {} /\ InPipe(x)' = <<>>
        BY <3>1, <3>4, Texts
      <4> QED BY <2>2, <4>1
    <3> QED BY <3>3, <3>4
  <2> QED BY <2>1, <2>2
<1>7. [f \in Ends |-> NameAt(f)'] = [[f \in Ends |-> NameAt(f)] EXCEPT ![e] = n] BY <1>5
<1>8. [x \in Names |-> InPipe(x)'] = [x \in Names |-> InPipe(x)] BY <1>6
<1>9. {x \in Names : \E q \in Found(x)' : seen'[q]} =
        IF "w" \in m THEN {x \in Names : \E q \in Found(x) : seen[q]} \cup {n}
        ELSE {x \in Names : \E q \in Found(x) : seen[q]}
  <2>1. \A x \in Names : (\E q \in Found(x)' : seen'[q]) <=>
                            (\E q \in Found(x) : seen[q]) \/ (x = n /\ "w" \in m)
    BY <1>6
  <2> QED BY <2>1
<1> QED BY <1>1, <1>2, <1>4, <1>7, <1>8, <1>9 DEF Channel!Join


LEMMA CloseMaps ==
  ASSUME PipeInv, PipeInv', NEW e \in Ends, ClosePipe(e)
  PROVE  Channel!Leave(e)
<1> DEFINE p == pipe[e]
<1>1. /\ p # NoPipe /\ pipe' = [pipe EXCEPT ![e] = NoPipe] /\ mode' = [mode EXCEPT ![e] = {}]
      /\ UNCHANGED <<data, got, sent>>
  BY DEF ClosePipe
<1>2. \/ Emptied(p)
      \/ UNCHANGED <<name, seen, head, tail, count>>
  BY DEF ClosePipe
<1>3. p \in Pipes BY <1>1, Ats
<1>4. PICK n \in Names : n = name[p] /\ n # NoName /\ NameAt(e) = n BY <1>1, Ats
<1>5. \A f \in Ends : pipe'[f] = IF f = e THEN NoPipe ELSE pipe[f] BY <1>1 DEF PipeInv, TypeOK
\* Who has the name open is who has the pipe open.
<1>6. ASSUME NEW f \in Ends PROVE NameAt(f) = n <=> pipe[f] = p
  <2>1. pipe[f] = p => NameAt(f) = n BY <1>1, <1>4, Ats
  <2>2. ASSUME NameAt(f) = n PROVE pipe[f] = p
    <3>1. pipe[f] \in Pipes /\ name[pipe[f]] = n BY <1>4, <2>2, Ats
    <3> QED BY <1>3, <1>4, <3>1 DEF PipeInv, EndInv, PipesHaveEnds
  <2> QED BY <2>1, <2>2
<1>7. name'[p] = NoName <=> \A f \in Ends : f # e => pipe[f] # p
  <2>1. name'[p] # NoName <=> \E f \in Ends : pipe'[f] = p
    BY <1>3 DEF PipeInv, EndInv, PipesHaveEnds
  <2>2. (\E f \in Ends : pipe'[f] = p) <=> \E f \in Ends : f # e /\ pipe[f] = p BY <1>1, <1>5
  <2> QED BY <2>1, <2>2
<1> DEFINE last == {f \in Ends : NameAt(f) = n} = {e}
<1>8. last <=> name'[p] = NoName
  <2>1. last <=> \A f \in Ends : f # e => NameAt(f) # n BY <1>4
  <2> QED BY <1>6, <1>7, <2>1
<1>9. \A q \in Pipes : q # p =>
         /\ name'[q] = name[q] /\ head'[q] = head[q] /\ count'[q] = count[q] /\ data'[q] = data[q]
         /\ seen'[q] = seen[q]
  <2>1. SUFFICES ASSUME NEW q \in Pipes, q # p
                 PROVE  /\ name'[q] = name[q] /\ head'[q] = head[q] /\ count'[q] = count[q]
                        /\ data'[q] = data[q] /\ seen'[q] = seen[q]
    OBVIOUS
  <2>2. data'[q] = data[q] BY <1>1
  <2>3. CASE Emptied(p)
    <3>1. /\ name' = [name EXCEPT ![p] = NoName] /\ seen' = [seen EXCEPT ![p] = FALSE]
          /\ head' = [head EXCEPT ![p] = 0] /\ count' = [count EXCEPT ![p] = 0]
      BY <2>3 DEF Emptied
    <3> HIDE DEF p
    <3>2. /\ name \in [Pipes -> Names \cup {NoName}] /\ seen \in [Pipes -> BOOLEAN]
          /\ DOMAIN head = Pipes /\ DOMAIN count = Pipes
      BY DEF PipeInv, TypeOK
    <3> QED BY <2>1, <2>2, <3>1, <3>2
  <2>4. CASE UNCHANGED <<name, seen, head, tail, count>> BY <2>2, <2>4
  <2> QED BY <1>2, <2>3, <2>4
<1>10. \/ name'[p] = NoName
       \/ /\ name'[p] = n /\ UNCHANGED <<name, seen, head, tail, count>>
  BY <1>2, <1>3, <1>4 DEF Emptied, PipeInv, TypeOK
<1>11. ASSUME NEW f \in Ends PROVE NameAt(f)' = IF f = e THEN NoName ELSE NameAt(f)
  <2>1. CASE f = e BY <1>5, <2>1 DEF NameAt
  <2>2. CASE f # e
    <3>1. pipe'[f] = pipe[f] BY <1>5, <2>2
    <3>2. pipe[f] # NoPipe => pipe[f] \in Pipes BY Ats
    <3>3. pipe[f] = p => name'[p] = n BY <1>7, <1>10, <2>2
    <3> QED BY <1>4, <1>9, <2>2, <3>1, <3>2, <3>3 DEF NameAt
  <2> QED BY <2>1, <2>2
<1>12. ASSUME NEW x \in Names, x # n
       PROVE  /\ InPipe(x)' = InPipe(x)
              /\ (\E q \in Found(x)' : seen'[q]) <=> (\E q \in Found(x) : seen[q])
  <2>0. x # NoName BY PipeAssumption
  <2>1. \A q \in Pipes : name'[q] = x <=> name[q] = x BY <1>4, <1>9, <1>10, <1>12, <2>0
  <2>2. CASE \E q \in Pipes : name[q] = x
    <3>1. PICK q \in Pipes : name[q] = x BY <2>2
    <3>2. /\ Found(x) = {q} /\ InPipe(x) = Ring(head[q], count[q], data[q])
          /\ Found(x)' = {q} /\ InPipe(x)' = Ring(head'[q], count'[q], data'[q])
      BY <2>1, <3>1, Texts
    <3>3. q # p BY <1>4, <1>12, <3>1
    <3> QED BY <1>9, <3>1, <3>2, <3>3
  <2>3. CASE \A q \in Pipes : name[q] # x
    <3>1. Found(x) = {} /\ InPipe(x) = <<>> /\ Found(x)' = {} /\ InPipe(x)' = <<>>
      BY <2>1, <2>3, Texts
    <3> QED BY <3>1
  <2> QED BY <2>2, <2>3
<1>13. /\ InPipe(n)' = IF last THEN <<>> ELSE InPipe(n)
       /\ (\E q \in Found(n)' : seen'[q]) <=> ~last /\ (\E q \in Found(n) : seen[q])
  <2>1. Found(n) = {p} /\ InPipe(n) = Ring(head[p], count[p], data[p]) BY <1>3, <1>4, Texts
  <2>2. CASE name'[p] = NoName
    <3>1. \A q \in Pipes : name'[q] # n
      BY <1>3, <1>4, <1>9, <2>2 DEF PipeInv, EndInv, PipesHaveEnds
    <3>2. Found(n)' = {} /\ InPipe(n)' = <<>> BY <3>1, Texts
    <3> QED BY <1>8, <2>2, <3>2
  <2>3. CASE name'[p] # NoName
    <3>1. name'[p] = n /\ UNCHANGED <<name, seen, head, tail, count, data>> BY <1>1, <1>10, <2>3
    <3>2. Found(n)' = {p} /\ InPipe(n)' = Ring(head'[p], count'[p], data'[p])
      BY <1>3, <3>1, Texts
    <3> QED BY <1>8, <2>1, <2>3, <3>1, <3>2
  <2> QED BY <2>2, <2>3
<1> HIDE DEF last
<1>14. [f \in Ends |-> NameAt(f)'] = [[f \in Ends |-> NameAt(f)] EXCEPT ![e] = NoName] BY <1>11
<1>15. [x \in Names |-> InPipe(x)'] =
         IF last THEN [[x \in Names |-> InPipe(x)] EXCEPT ![n] = <<>>] ELSE [x \in Names |-> InPipe(x)]
  <2>1. CASE last BY <1>12, <1>13, <2>1
  <2>2. CASE ~last BY <1>12, <1>13, <2>2
  <2> QED BY <2>1, <2>2
<1>16. {x \in Names : \E q \in Found(x)' : seen'[q]} =
         IF last THEN {x \in Names : \E q \in Found(x) : seen[q]} \ {n}
         ELSE {x \in Names : \E q \in Found(x) : seen[q]}
  <2>1. CASE last BY <1>12, <1>13, <2>1
  <2>2. CASE ~last BY <1>12, <1>13, <2>2
  <2> QED BY <2>1, <2>2
<1>17. [f \in Ends |-> NameAt(f)][e] = n BY <1>4
<1>18. last <=> {f \in Ends : [g \in Ends |-> NameAt(g)][f] = n} = {e} BY DEF last
<1>20. UNCHANGED <<got, sent>> /\ mode' = [mode EXCEPT ![e] = {}] BY <1>1
<1> HIDE DEF p
<1>21. CASE last
  <2>1. {f \in Ends : [g \in Ends |-> NameAt(g)][f] = n} = {e} BY <1>18, <1>21
  <2>2. [x \in Names |-> InPipe(x)'] = [[x \in Names |-> InPipe(x)] EXCEPT ![n] = <<>>] BY <1>15, <1>21
  <2>3. {x \in Names : \E q \in Found(x)' : seen'[q]} = {x \in Names : \E q \in Found(x) : seen[q]} \ {n}
    BY <1>16, <1>21
  <2>4. Channel!Open([f \in Ends |-> NameAt(f)][e]) = {e} BY <1>17, <2>1 DEF Channel!Open
  <2>5. [f \in Ends |-> NameAt(f)][e] # NoName BY <1>4, <1>17
  <2>6. [x \in Names |-> InPipe(x)'] =
          [[x \in Names |-> InPipe(x)] EXCEPT ![[f \in Ends |-> NameAt(f)][e]] = <<>>]
    BY <1>17, <2>2
  <2>7. {x \in Names : \E q \in Found(x)' : seen'[q]} =
          {x \in Names : \E q \in Found(x) : seen[q]} \ {[f \in Ends |-> NameAt(f)][e]}
    BY <1>17, <2>3
  <2> QED BY <1>14, <1>20, <2>4, <2>5, <2>6, <2>7, Zenon DEF Channel!Leave
<1>22. CASE ~last
  <2>1. {f \in Ends : [g \in Ends |-> NameAt(g)][f] = n} # {e} BY <1>18, <1>22
  <2>2. [x \in Names |-> InPipe(x)'] = [x \in Names |-> InPipe(x)] BY <1>15, <1>22
  <2>3. {x \in Names : \E q \in Found(x)' : seen'[q]} = {x \in Names : \E q \in Found(x) : seen[q]}
    BY <1>16, <1>22
  <2> QED BY <1>4, <1>14, <1>17, <1>20, <2>1, <2>2, <2>3 DEF Channel!Leave, Channel!Open
<1> QED BY <1>21, <1>22

LEMMA StepMaps == PipeInv /\ [Next]_vars => [Channel!Next]_(Channel!chan)
<1> SUFFICES ASSUME PipeInv, [Next]_vars PROVE Channel!Next \/ UNCHANGED Channel!chan OBVIOUS
<1>1. PipeInv' BY PipeInvStep
<1>2. ASSUME NEW e \in Ends, Look(e) PROVE Channel!Next \/ UNCHANGED Channel!chan
  <2>1. CASE ReadSome(e) BY <2>1, ReadMaps DEF Channel!Next
  <2>2. CASE WriteSome(e) BY <2>2, WriteMaps DEF Channel!Next
  <2>3. CASE ReadEnd(e) BY <2>3, EndMaps DEF Channel!Next
  <2>4. CASE WriteBroken(e) \/ GiveUp(e) BY <2>4, Stutters DEF WriteBroken, GiveUp
  <2> QED BY <1>2, <2>1, <2>2, <2>3, <2>4 DEF Look
<1>3. ASSUME NEW e \in Ends, Use(e) PROVE Channel!Next \/ UNCHANGED Channel!chan
  <2>1. ASSUME NEW n \in Names, NEW m \in OpenModes, OpenPipe(e, n, m) PROVE Channel!Next
    <3>1. Channel!Join(e, n, m) /\ m \in SUBSET {"r", "w"} BY <1>1, <2>1, OpenMaps, PipeAssumption
    <3> QED BY <3>1 DEF Channel!Next
  <2>2. CASE ClosePipe(e) BY <1>1, <2>2, CloseMaps DEF Channel!Next
  <2>3. ASSUME NEW len \in Lengths, CallRead(e, len) \/ CallWrite(e, len)
        PROVE  UNCHANGED Channel!chan
    BY <2>3, Stutters DEF CallRead, CallWrite, Call
  <2>4. CASE Cancel(e) BY <2>4, Stutters DEF Cancel
  <2> QED BY <1>3, <2>1, <2>2, <2>3, <2>4 DEF Use
<1>4. CASE UNCHANGED vars BY <1>4, Stutters DEF vars, ring
<1> QED BY <1>2, <1>3, <1>4 DEF Next

LEMMA InitMaps == Init => Channel!Init
<1> SUFFICES ASSUME Init PROVE Channel!Init OBVIOUS
<1>1. \A n \in Names : Found(n) = {} BY PipeAssumption DEF Init, Found
<1>2. \A n \in Names : InPipe(n) = <<>> BY <1>1 DEF InPipe
<1>3. \A e \in Ends : NameAt(e) = NoName BY DEF Init, NameAt
<1>4. {n \in Names : \E p \in Found(n) : seen[p]} = {} BY <1>1
<1> QED BY <1>2, <1>3, <1>4 DEF Init, Channel!Init

\* Every variable keeps its type, a ring's tail is as far from its head as there
\* are bytes in it, and who is in a call has open what the call needs.
THEOREM PipeInvHolds == Spec => []PipeInv
<1> QED BY PipeInvInit, PipeInvStep, PTL DEF Spec

\* For any number of paths, names and pipes, of any size, two opens of a name
\* find one channel: what was accepted under it is read once and in order.
THEOREM ChannelImplemented == Spec => ImplementsChannel
<1>1. Spec => []PipeInv BY PipeInvHolds
<1> QED BY <1>1, InitMaps, StepMaps, PTL DEF Spec, ImplementsChannel, Channel!Spec
=============================================================================
