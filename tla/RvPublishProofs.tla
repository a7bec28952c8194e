--------------------------- MODULE RvPublishProofs ---------------------------
(***************************************************************************)
(* A snapshot is one publication, for any number of writers, observers and *)
(* cells, wherever the copying and the publishing interleave, as long as a *)
(* writer is not stopped inside its copy.  The counter is odd exactly      *)
(* while one writer copies; a writer's pause between two publications is   *)
(* still its own, because the cell stays held until its close.            *)
(***************************************************************************)
EXTENDS RvPublish, WellFoundedInduction, TLAPS

\* A writer is stopped outside its copy.
OutsideCopy == StopsAt \subseteq {"closed", "open", "look", "take", "give"}

Copying == {"copy", "half", "copied"}
PastOpen == {"open", "copy", "half", "copied", "look", "take", "give"}

\* Who may be where: one that has ended with a fault goes on under the lock.
Faults ==
  \A p \in Writers :
    /\ pub[p].pc = "out" <=> pub[p].cell = NoCell
    /\ pub[p].pc \in {"out", "closed", "open"} \cup Copying => ~pub[p].fault
    /\ pub[p].pc = "told" => pub[p].fault
    /\ pub[p].fault /\ pub[p].pc # "ended" => keeper = p

\* Whoever is past its open holds the cell, until its close.
Holds ==
  \A p \in Writers :
    pub[p].pc \in PastOpen /\ ~pub[p].fault =>
      /\ pub[p].cell \in Cells
      /\ cell[pub[p].cell].held /\ cell[pub[p].cell].by = p

\* A declared cell is kept for its process until the end of that.
KeptFor(k, q) == k.reserved = q /\ (k.held => k.by = q)
Reserves ==
  \A p \in Writers :
    p \in Declared /\ pub[p].pc \notin {"out", "ended"} /\ ~pub[p].fault =>
      KeptFor(cell[pub[p].cell], p)

\* The counter is odd exactly while somebody copies.
Counts ==
  \A c \in Cells :
    /\ seq[c] % 2 = 1 <=> \E p \in Writers : pub[p].cell = c /\ pub[p].pc \in Copying
    /\ (seq[c] + 1) \div 2 <= MaxPubs
    /\ said[c][0] = 0

\* What the words are, by how far the writer's copy has come.
Words ==
  \A c \in Cells :
    /\ (\A p \in Writers : pub[p].cell = c => pub[p].pc \notin {"half", "copied"}) =>
         \A w \in 1..2 : word[c][w] = said[c][Number(c)]
    /\ \A p \in Writers : pub[p].cell = c =>
         /\ pub[p].pc = "half" => word[c][1] = Number(c) + 1
         /\ pub[p].pc = "copied" => \A w \in 1..2 : word[c][w] = Number(c) + 1

\* What an observer has copied is there still, if the counter has not moved;
\* what it got is one publication.
Copied(r, w) == seq[r.cell] = r.before => r.copy[w] = word[r.cell][w]

View(r) ==
  /\ r.pc = "away" <=> r.cell = NoCell
  /\ r.cell \in Cells =>
       /\ r.got.n <= Number(r.cell)
       /\ \A w \in 1..2 : r.got.copy[w] = said[r.cell][r.got.n]
       /\ r.pc \in {"first", "second", "after"} =>
            r.before % 2 = 0 /\ r.before <= seq[r.cell]
       /\ r.pc \in {"second", "after"} => Copied(r, 1)
       /\ r.pc = "after" => Copied(r, 2)

Views == \A o \in Observers : View(obs[o])

\* The parts that say more than types.
Agrees == Faults /\ Holds /\ Reserves /\ Counts /\ Words /\ Views

PubInv == PubTypeOK /\ Agrees

(***************************************************************************)
(* Types.                                                                  *)
(***************************************************************************)
LEMMA Empties ==
  /\ Zeros \in [1..2 -> Nat] /\ Blank \in CellRecord
  /\ Out \in WriterRecord /\ Away \in ObserverRecord
<1>1. Zeros \in [1..2 -> Nat] BY DEF Zeros
<1>2. Blank \in CellRecord BY DEF Blank, CellRecord
<1>3. Out \in WriterRecord BY PubAssumption DEF Out, WriterRecord, WriterPoints
<1>4. NoGot \in [n : Nat, copy : [1..2 -> Nat]] BY <1>1 DEF NoGot
<1>5. Away \in ObserverRecord
  BY <1>1, <1>4, PubAssumption DEF Away, ObserverRecord, ObserverPoints
<1> QED BY <1>1, <1>2, <1>3, <1>5

LEMMA PubTypesInit == PubInit => PubTypeOK
BY Empties, PubAssumption DEF PubInit, PubTypeOK

\* A writer that has a cell has one of the cells.
LEMMA HasCell ==
  ASSUME PubTypeOK, Faults, NEW p \in Writers
  PROVE  /\ pub[p] \in WriterRecord
         /\ pub[p].pc # "out" => /\ pub[p].cell \in Cells
                                /\ cell[pub[p].cell] \in CellRecord
BY DEF PubTypeOK, Faults, WriterRecord

\* Two writers past their opens are of two cells.
LEMMA OneAtACell ==
  ASSUME Holds, NEW p \in Writers, NEW q \in Writers, pub[p].cell = pub[q].cell,
         pub[p].pc \in PastOpen, ~pub[p].fault, pub[q].pc \in PastOpen, ~pub[q].fault
  PROVE  p = q
BY DEF Holds

\* Views and snapshots outlast whatever lets the counter only grow, the past
\* stand, and the words be while the counter does not move.
LEMMA ViewsStand ==
  ASSUME PubTypeOK, Views, UNCHANGED obs, seq' \in [Cells -> Nat],
         \A c \in Cells : Readers(c) # {} =>
           /\ seq[c] <= seq'[c]
           /\ \A n \in Nat : n <= Number(c) => said'[c][n] = said[c][n]
           /\ seq'[c] = seq[c] /\ seq[c] % 2 = 0 => \A w \in 1..2 : word'[c][w] = word[c][w]
  PROVE  Views'
<1> SUFFICES ASSUME NEW o \in Observers PROVE View(obs[o])' BY DEF Views
<1> DEFINE r == obs[o]
           c == obs[o].cell
<1>1. r \in ObserverRecord /\ r.got.n \in Nat /\ r.before \in Nat /\ View(r) /\ r' = r
  BY DEF PubTypeOK, ObserverRecord, Views
<1>2. CASE c \notin Cells BY <1>1, <1>2 DEF View
<1>3. CASE c \in Cells
  <2>1. o \in Readers(c) BY DEF Readers
  <2>2. seq[c] \in Nat /\ seq'[c] \in Nat /\ seq[c] <= seq'[c] BY <1>3, <2>1 DEF PubTypeOK
  <2>3. Number(c) \in Nat /\ Number(c)' \in Nat /\ Number(c) <= Number(c)' BY <2>2 DEF Number
  <2>4. r.got.n <= Number(c) BY <1>1, <1>3 DEF View
  <2>5. \A w \in 1..2 : r.got.copy[w] = said'[c][r.got.n] BY <1>1, <1>3, <2>1, <2>4 DEF View
  <2>6. ASSUME NEW w \in 1..2, Copied(r, w), r.before <= seq[c], r.before % 2 = 0
        PROVE  Copied(r, w)'
    BY <1>1, <1>3, <2>1, <2>2, <2>6 DEF Copied
  <2> QED BY <1>1, <1>3, <2>2, <2>3, <2>4, <2>5, <2>6 DEF View
<1> QED BY <1>2, <1>3

\* A set of numbers that is not empty has a lowest.
LEMMA LowestNumber ==
  ASSUME NEW S \in SUBSET Nat, S # {}
  PROVE  \E i \in S : \A j \in S : i <= j
<1> DEFINE R == OpToRel(<, Nat)
<1>1. IsWellFoundedOn(R, Nat) BY NatLessThanWellFounded
<1> HIDE DEF R
<1>2. PICK i \in S : \A j \in S : <<j, i>> \notin R BY <1>1, WFMin
<1>3. \A j \in S : j < i => <<j, i>> \in R BY DEF R, OpToRel
<1>4. \A j \in S : ~(j < i)
  <2> TAKE j \in S
  <2> QED BY <1>2, <1>3, Zenon
<1>5. \A j \in S : i <= j BY <1>4
<1> QED BY <1>5

(***************************************************************************)
(* An observer's step changes nothing a writer or another observer reads.  *)
(***************************************************************************)
LEMMA PutView ==
  ASSUME PubInv, NEW o \in Observers, NEW r \in ObserverRecord, View(r),
         obs' = [obs EXCEPT ![o] = r], UNCHANGED <<cell, store, keeper, pub>>,
         waiter' \in [Waiters -> [cell : Cells \cup {NoCell}, armed : BOOLEAN]],
         sem' \in [Waiters -> BOOLEAN]
  PROVE  PubInv'
<1> USE DEF PubInv, store
<1>1. PubTypeOK' BY DEF PubTypeOK
<1>2. (Faults /\ Holds /\ Reserves)' BY DEF Agrees, Faults, Holds, Reserves
<1>3. (Counts /\ Words)' BY DEF Agrees, Counts, Words, Number
<1>4. \A x \in Observers : obs'[x] = IF x = o THEN r ELSE obs[x] BY DEF PubTypeOK
<1>5. \A x \in Observers : View(IF x = o THEN r ELSE obs[x]) BY DEF Agrees, Views
<1>6. \A x \in Observers : View(obs[x])' BY <1>4, <1>5 DEF View, Copied, Number
<1> QED BY <1>1, <1>2, <1>3, <1>6 DEF Agrees, Views

LEMMA ObserverStep ==
  ASSUME PubInv, NEW o \in Observers, ObserverNext(o)
  PROVE  PubInv'
<1> DEFINE v == obs[o]
           c == obs[o].cell
<1>1. v \in ObserverRecord /\ View(v) BY DEF PubInv, PubTypeOK, Agrees, Views
<1>2. /\ v.seen \in Nat /\ v.slot \in 0..NWaiters /\ v.tries \in Nat /\ v.before \in Nat
      /\ v.copy \in [1..2 -> Nat] /\ v.got \in [n : Nat, copy : [1..2 -> Nat]]
  BY <1>1 DEF ObserverRecord
<1>3. v.pc # "away" => /\ c \in Cells /\ seq[c] \in Nat /\ Number(c) \in Nat
                       /\ \A w \in 1..2 : word[c][w] \in Nat
                       /\ said[c][0] = 0
  BY <1>1 DEF View, ObserverRecord, PubInv, PubTypeOK, Number, Agrees, Counts
<1>4. NoGot \in [n : Nat, copy : [1..2 -> Nat]] /\ NoGot.n = 0 /\ \A w \in 1..2 : NoGot.copy[w] = 0
  BY DEF NoGot, Zeros
<1>5. ASSUME NEW r \in ObserverRecord, View(r), obs' = [obs EXCEPT ![o] = r],
             UNCHANGED <<store, keeper, pub>>, UNCHANGED waiting
      PROVE  PubInv'
  BY <1>5, PutView DEF store, waiting, PubInv, PubTypeOK
\* Steps that only move on.
<1>6. ASSUME NEW pc \in ObserverPoints \ {"away", "first", "second", "after"}, v.pc # "away"
      PROVE  LET r == [v EXCEPT !.pc = pc] IN r \in ObserverRecord /\ View(r)
  BY <1>1, <1>6 DEF ObserverRecord, View, Copied
<1>7. ASSUME NEW pc \in ObserverPoints \ {"away", "first", "second", "after"}, v.pc # "away",
             NEW got \in {v.got, NoGot}, NEW seen \in Nat
      PROVE  LET r == [v EXCEPT !.pc = pc, !.seen = seen, !.got = got]
             IN  r \in ObserverRecord /\ View(r)
  <2> DEFINE r == [v EXCEPT !.pc = pc, !.seen = seen, !.got = got]
  <2>1. got \in [n : Nat, copy : [1..2 -> Nat]] BY <1>2, <1>4, <1>7
  <2>2. r \in ObserverRecord BY <1>1, <1>7, <2>1 DEF ObserverRecord
  <2>3. r.pc = pc /\ r.cell = c /\ r.got = got BY <1>1 DEF ObserverRecord
  <2>4. got.n <= Number(c) /\ \A w \in 1..2 : got.copy[w] = said[c][got.n]
    BY <1>1, <1>3, <1>4, <1>7 DEF View
  <2>5. pc # "away" /\ c # NoCell BY <1>1, <1>7 DEF View
  <2>6. pc \notin {"first", "second", "after"} BY <1>7
  <2>7. View(r) BY <2>3, <2>4, <2>5, <2>6 DEF View
  <2> QED BY <2>2, <2>7
<1>8. ASSUME NEW d \in Cells, OpenRead(o, d) PROVE PubInv'
  <2> DEFINE r == [Away EXCEPT !.pc = "idle", !.cell = d]
  <2>1. r \in ObserverRecord BY Empties DEF ObserverRecord, ObserverPoints
  <2>2. r.got = NoGot /\ r.pc = "idle" /\ r.cell = d BY DEF Away
  <2>3. said[d][0] = 0 /\ Number(d) \in Nat
    BY DEF PubInv, PubTypeOK, Number, Agrees, Counts
  <2>4. View(r) BY <1>4, <2>2, <2>3, PubAssumption DEF View
  <2> QED BY <1>5, <1>8, <2>1, <2>4 DEF OpenRead
<1>9. CASE CloseRead(o)
  <2>1. View(Away) BY PubAssumption DEF View, Away
  <2>2. waiter' \in [Waiters -> [cell : Cells \cup {NoCell}, armed : BOOLEAN]]
    BY <1>9 DEF CloseRead, PubInv, PubTypeOK
  <2> QED BY <1>9, <2>1, <2>2, Empties, PutView DEF CloseRead, store, PubInv, PubTypeOK
<1>10. CASE Read(o)
  <2> DEFINE r == [v EXCEPT !.pc = "before", !.tries = 0, !.got = NoGot]
  <2>1. r \in ObserverRecord BY <1>1, <1>4 DEF ObserverRecord, ObserverPoints
  <2>2. View(r) BY <1>1, <1>3, <1>4, <1>10 DEF View, Read, ObserverRecord
  <2>3. obs' = [obs EXCEPT ![o] = r] BY <1>10 DEF Read
  <2> QED BY <1>5, <1>10, <2>1, <2>2, <2>3 DEF Read
<1>11. ASSUME NEW w \in 1..2, v.pc \in {"first", "second"}, NEW pc \in {"second", "after"},
              w = 1 => pc = "second", v.pc = "first" <=> w = 1
       PROVE  LET r == [v EXCEPT !.pc = pc, !.copy = [v.copy EXCEPT ![w] = word[c][w]]]
              IN  r \in ObserverRecord /\ View(r)
  <2> DEFINE y == [v.copy EXCEPT ![w] = word[c][w]]
             r == [v EXCEPT !.pc = pc, !.copy = y]
  <2>1. y \in [1..2 -> Nat] BY <1>2, <1>3, <1>11
  <2>2. r \in ObserverRecord BY <1>1, <2>1 DEF ObserverRecord, ObserverPoints
  <2>3. y[w] = word[c][w] /\ \A x \in 1..2 : x # w => y[x] = v.copy[x] BY <1>2
  <2>4. /\ r.pc = pc /\ r.cell = c /\ r.copy = y /\ r.got = v.got /\ r.before = v.before
    BY <1>1 DEF ObserverRecord
  <2> QED BY <1>1, <1>3, <1>11, <2>2, <2>3, <2>4 DEF View, Copied
<1>12. CASE ReadFirst(o)
  <2> DEFINE r == [v EXCEPT !.pc = "second", !.copy = [v.copy EXCEPT ![1] = word[c][1]]]
  <2>1. r \in ObserverRecord /\ View(r) BY <1>11, <1>12 DEF ReadFirst
  <2>2. obs' = [obs EXCEPT ![o] = r] BY <1>12 DEF ReadFirst
  <2> QED BY <1>5, <1>12, <2>1, <2>2 DEF ReadFirst
<1>13. CASE ReadSecond(o)
  <2> DEFINE r == [v EXCEPT !.pc = "after", !.copy = [v.copy EXCEPT ![2] = word[c][2]]]
  <2>1. r \in ObserverRecord /\ View(r) BY <1>11, <1>13 DEF ReadSecond
  <2>2. obs' = [obs EXCEPT ![o] = r] BY <1>13 DEF ReadSecond
  <2> QED BY <1>5, <1>13, <2>1, <2>2 DEF ReadSecond
\* A copy given up is forgotten.
<1>14. ASSUME v.pc # "away", obs' = Again(o), UNCHANGED <<store, waiting, keeper, pub>>
       PROVE  PubInv'
  <2> DEFINE tries == IF v.tries + 1 < MaxTries THEN v.tries + 1 ELSE 0
             pc == IF v.tries + 1 < MaxTries THEN "before" ELSE "idle"
             r == [v EXCEPT !.tries = tries, !.pc = pc, !.before = 0, !.copy = Zeros]
  <2>1. tries \in Nat /\ pc \in ObserverPoints BY <1>2 DEF ObserverPoints
  <2>2. r \in ObserverRecord BY <1>1, <2>1, Empties DEF ObserverRecord
  <2>3. r.pc = pc /\ pc \in {"before", "idle"} BY <1>1 DEF ObserverRecord
  <2>4. View(r) BY <1>1, <1>14, <2>3 DEF View, ObserverRecord
  <2>5. obs' = [obs EXCEPT ![o] = r] BY <1>14 DEF Again
  <2> QED BY <1>5, <1>14, <2>2, <2>4, <2>5
<1>15. CASE ReadBefore(o)
  <2>1. CASE seq[c] % 2 = 1 BY <1>14, <1>15, <2>1 DEF ReadBefore
  <2>2. CASE seq[c] % 2 # 1
    <3> DEFINE r == [v EXCEPT !.pc = "first", !.before = seq[c]]
    <3>1. v.pc = "before" BY <1>15 DEF ReadBefore
    <3>2. r \in ObserverRecord BY <1>1, <1>3, <3>1 DEF ObserverRecord, ObserverPoints
    <3>3. seq[c] % 2 = 0 BY <1>3, <2>2, <3>1
    <3>4. View(r) BY <1>1, <1>3, <3>1, <3>3 DEF View, ObserverRecord
    <3>5. obs' = [obs EXCEPT ![o] = r] BY <1>15, <2>2 DEF ReadBefore
    <3> QED BY <1>5, <1>15, <3>2, <3>4, <3>5 DEF ReadBefore
  <2> QED BY <2>1, <2>2
<1>16. CASE ReadAfter(o)
  <2>1. v.pc = "after" BY <1>16 DEF ReadAfter
  <2>2. CASE seq[c] # v.before BY <1>14, <1>16, <2>1, <2>2 DEF ReadAfter
  <2>3. CASE seq[c] = v.before
    <3> DEFINE g == [n |-> v.before \div 2, copy |-> v.copy]
               r == [v EXCEPT !.pc = "idle", !.tries = 0, !.before = 0, !.copy = Zeros, !.got = g]
    <3>1. obs' = [obs EXCEPT ![o] = r] BY <1>16, <2>3 DEF ReadAfter
    <3>2. g \in [n : Nat, copy : [1..2 -> Nat]] /\ g.n = Number(c) /\ g.copy = v.copy
      BY <1>2, <1>3, <2>1, <2>3 DEF Number
    <3>3. r \in ObserverRecord BY <1>1, <3>2, Empties DEF ObserverRecord, ObserverPoints
    <3>4. /\ r.pc = "idle" /\ r.cell = c /\ r.got = g BY <1>1 DEF ObserverRecord
    <3>5. \A w \in 1..2 : v.copy[w] = word[c][w]
      BY <1>1, <1>3, <2>1, <2>3 DEF View, Copied
    \* The counter is even, so that nobody copies, and the words are the last said.
    <3>6. \A w \in 1..2 : word[c][w] = said[c][Number(c)]
      <4>1. seq[c] % 2 = 0 BY <1>1, <1>3, <2>1, <2>3 DEF View
      <4>2. \A p \in Writers : pub[p].cell = c => pub[p].pc \notin Copying
        BY <1>3, <2>1, <4>1 DEF PubInv, Agrees, Counts
      <4> QED BY <1>3, <2>1, <4>2 DEF PubInv, Agrees, Words, Copying
    <3>7. View(r) BY <1>3, <2>1, <3>2, <3>4, <3>5, <3>6, PubAssumption DEF View
    <3> QED BY <1>5, <1>16, <3>1, <3>3, <3>7 DEF ReadAfter
  <2> QED BY <2>2, <2>3
<1>17. CASE Wait(o)
  <2> DEFINE to == IF v.slot = 0 THEN "slot" ELSE "arm"
             seeing == [v EXCEPT !.pc = "idle", !.seen = Number(c), !.got = NoGot]
             going == [v EXCEPT !.pc = to, !.seen = v.seen, !.got = NoGot]
  <2>1. v.pc = "idle" BY <1>17 DEF Wait
  <2>2. seeing \in ObserverRecord /\ View(seeing)
    BY <1>3, <1>7, <2>1 DEF ObserverPoints
  <2>3. going \in ObserverRecord /\ View(going)
    BY <1>2, <1>7, <2>1 DEF ObserverPoints
  <2>4. obs' = [obs EXCEPT ![o] = seeing] \/ obs' = [obs EXCEPT ![o] = going]
    BY ZenonT(40), <1>1, <1>17 DEF Wait, Sees, ObserverRecord
  <2> QED BY <1>5, <1>17, <2>2, <2>3, <2>4 DEF Wait
<1>18. CASE LastLook(o)
  <2> DEFINE r == [v EXCEPT !.pc = "idle", !.seen = Number(c), !.got = NoGot]
  <2>1. r \in ObserverRecord /\ View(r) BY <1>3, <1>7, <1>18 DEF LastLook, ObserverPoints
  <2>2. obs' = [obs EXCEPT ![o] = r] BY <1>18 DEF LastLook, Sees
  <2> QED BY <1>5, <1>18, <2>1, <2>2 DEF LastLook
\* Waiters' slots, arms and gives are of no matter here.
<1>19. ASSUME NEW pc \in ObserverPoints \ {"away", "first", "second", "after"}, v.pc # "away",
              obs' = [obs EXCEPT ![o].pc = pc], UNCHANGED <<store, keeper, pub>>,
              waiter' \in [Waiters -> [cell : Cells \cup {NoCell}, armed : BOOLEAN]],
              sem' \in [Waiters -> BOOLEAN]
       PROVE  PubInv'
  <2> DEFINE r == [v EXCEPT !.pc = pc]
  <2>1. obs' = [obs EXCEPT ![o] = r] BY <1>19
  <2> QED BY <1>6, <1>19, <2>1, PutView DEF store
<1>20. CASE ClaimSlot(o)
  <2> DEFINE free == {i \in Waiters : waiter[i].cell = NoCell}
  <2>1. CASE free = {}
    BY <1>19, <1>20, <2>1 DEF ClaimSlot, ObserverPoints, PubInv, PubTypeOK, waiting
  <2>2. CASE free # {}
    <3>1. PICK i \in free :
            /\ waiter' = [waiter EXCEPT ![i] = [cell |-> c, armed |-> FALSE]]
            /\ sem' = [sem EXCEPT ![i] = FALSE]
            /\ obs' = [obs EXCEPT ![o].pc = "arm", ![o].slot = i]
      <4> HIDE DEF free
      <4>0. free \in SUBSET Nat BY DEF free, Waiters
      <4>1. \E i \in free : \A j \in free : i <= j BY <2>2, <4>0, LowestNumber
      <4> QED BY <1>20, <2>2, <4>1 DEF ClaimSlot, free
    <3> DEFINE r == [v EXCEPT !.pc = "arm", !.slot = i]
    <3>2. i \in 0..NWaiters BY PubAssumption DEF Waiters
    <3>3. v.pc = "slot" BY <1>20 DEF ClaimSlot
    <3>4. r \in ObserverRecord BY <1>1, <3>2 DEF ObserverRecord, ObserverPoints
    <3>5. View(r) BY <1>1, <3>3 DEF View, ObserverRecord, Copied
    <3>6. obs' = [obs EXCEPT ![o] = r] BY <3>1
    <3>7. /\ waiter' \in [Waiters -> [cell : Cells \cup {NoCell}, armed : BOOLEAN]]
          /\ sem' \in [Waiters -> BOOLEAN]
      BY <1>3, <3>1, <3>3 DEF PubInv, PubTypeOK
    <3> QED BY <1>20, <3>4, <3>5, <3>6, <3>7, PutView DEF ClaimSlot, store, PubInv, PubTypeOK
  <2> QED BY <2>1, <2>2
<1>21. CASE Arm(o)
  BY <1>19, <1>21, <1>3 DEF Arm, ObserverPoints, PubInv, PubTypeOK
<1>22. CASE Check(o) BY <1>19, <1>22 DEF Check, ObserverPoints, PubInv, PubTypeOK, waiting
<1>23. CASE Woken(o) BY <1>19, <1>23 DEF Woken, ObserverPoints, PubInv, PubTypeOK
<1>24. CASE TimedOut(o) BY <1>19, <1>24 DEF TimedOut, ObserverPoints, PubInv, PubTypeOK, waiting
<1>25. CASE LeaveWait(o) BY <1>19, <1>25 DEF LeaveWait, ObserverPoints, PubInv, PubTypeOK
<1> QED
  BY <1>8, <1>9, <1>10, <1>12, <1>13, <1>15, <1>16, <1>17, <1>18, <1>20, <1>21, <1>22, <1>23,
     <1>24, <1>25 DEF ObserverNext

(***************************************************************************)
(* A writer's step.                                                        *)
(***************************************************************************)
\* On the way past the waiters nothing is written.
LEMMA PassingWaiters ==
  ASSUME PubInv, NEW p \in Writers, NEW r \in WriterRecord, pub[p].pc \in {"look", "take", "give"},
         r.cell = pub[p].cell, r.fault = pub[p].fault,
         r.pc \in {"look", "take", "give", IF pub[p].fault THEN "told" ELSE "open"},
         pub' = [pub EXCEPT ![p] = r], UNCHANGED <<cell, store, keeper, obs>>,
         waiter' \in [Waiters -> [cell : Cells \cup {NoCell}, armed : BOOLEAN]],
         sem' \in [Waiters -> BOOLEAN]
  PROVE  PubInv'
<1> USE DEF PubInv, Agrees, store
<1>1. PubTypeOK' BY DEF PubTypeOK
<1>2. \A q \in Writers : pub'[q] = IF q = p THEN r ELSE pub[q] BY DEF PubTypeOK
<1>3. pub[p].cell \in Cells BY HasCell
<1>4. Faults' BY <1>2, <1>3, PubAssumption DEF Faults, Copying
<1>5. Holds' BY <1>2 DEF Holds, PastOpen
<1>6. Reserves' BY <1>2 DEF Reserves
<1>7. Counts' BY <1>2 DEF Counts, Copying, Number
<1>8. Words' BY <1>2 DEF Words, Number
<1>9. Views' BY DEF Views, View, Copied, Number
<1> QED BY <1>1, <1>4, <1>5, <1>6, <1>7, <1>8, <1>9

LEMMA WakesWaiters ==
  ASSUME PubInv, NEW p \in Writers, Look(p) \/ Disarm(p) \/ Give(p)
  PROVE  PubInv'
<1> DEFINE to == IF pub[p].at < NWaiters THEN "look" ELSE IF pub[p].fault THEN "told" ELSE "open"
           next == IF pub[p].at < NWaiters THEN pub[p].at + 1 ELSE 0
           onward == [pub[p] EXCEPT !.at = next, !.pc = to]
           At(pc) == [pub[p] EXCEPT !.pc = pc]
<1>1. pub[p] \in WriterRecord /\ pub[p].at \in 0..NWaiters
  BY DEF PubInv, PubTypeOK, WriterRecord
<1>2. next \in 0..NWaiters /\ to \in WriterPoints BY <1>1, PubAssumption DEF WriterPoints
<1>3. Onward(p) = [pub EXCEPT ![p] = onward] BY DEF Onward
<1>4. /\ onward \in WriterRecord /\ onward.pc = to
      /\ onward.cell = pub[p].cell /\ onward.fault = pub[p].fault
  <2> HIDE DEF next, to
  <2> QED BY <1>1, <1>2 DEF WriterRecord
<1>5. ASSUME NEW pc \in {"take", "give"}
      PROVE  /\ At(pc) \in WriterRecord /\ At(pc).pc = pc
             /\ At(pc).cell = pub[p].cell /\ At(pc).fault = pub[p].fault
             /\ [pub EXCEPT ![p].pc = pc] = [pub EXCEPT ![p] = At(pc)]
  BY <1>1 DEF WriterRecord, WriterPoints
<1>6. to \in {"look", IF pub[p].fault THEN "told" ELSE "open"} OBVIOUS
<1>7. /\ pub[p].pc \in {"look", "take", "give"} /\ UNCHANGED <<cell, store, keeper, obs>>
      /\ waiter' \in [Waiters -> [cell : Cells \cup {NoCell}, armed : BOOLEAN]]
      /\ sem' \in [Waiters -> BOOLEAN]
  <2>1. CASE Look(p) BY <2>1 DEF Look, store, waiting, PubInv, PubTypeOK
  <2>2. CASE Disarm(p) BY <2>2 DEF Disarm, store, PubInv, PubTypeOK
  <2>3. CASE Give(p) BY <2>3 DEF Give, store, PubInv, PubTypeOK
  <2> QED BY <2>1, <2>2, <2>3
<1>8. \/ pub' = Onward(p)
      \/ \E pc \in {"take", "give"} : pub' = [pub EXCEPT ![p].pc = pc]
  BY DEF Look, Disarm, Give
<1>9. CASE pub' = Onward(p)
  <2> HIDE DEF onward, to
  <2> QED BY <1>3, <1>4, <1>6, <1>7, <1>9, PassingWaiters
<1>10. ASSUME NEW pc \in {"take", "give"}, pub' = [pub EXCEPT ![p].pc = pc] PROVE PubInv'
  <2> HIDE DEF At
  <2> QED BY ZenonT(40), <1>5, <1>7, <1>10, PassingWaiters
<1> QED BY <1>8, <1>9, <1>10

\* Whoever does not copy, before or after, leaves counters and words as they agree.
LEMMA StoreStands ==
  ASSUME PubInv, NEW p \in Writers, NEW r \in WriterRecord,
         pub[p].pc \notin Copying, r.pc \notin Copying,
         pub' = [pub EXCEPT ![p] = r], UNCHANGED <<seq, word, said, obs>>
  PROVE  (Counts /\ Words /\ Views)'
<1> USE DEF PubInv, Agrees
<1>1. \A q \in Writers : pub'[q] = IF q = p THEN r ELSE pub[q] BY DEF PubTypeOK
<1>2. Counts' BY <1>1 DEF Counts, Copying
<1>3. Words' BY <1>1 DEF Words, Number, Copying
<1>4. Views' BY DEF Views, View, Copied, Number
<1> QED BY <1>2, <1>3, <1>4

\* One who is admitted, opens, closes, ends, or is done with waking.
LEMMA AdmitStep ==
  ASSUME PubInv, NEW p \in Writers, NEW c \in Cells, Admit(p, c)
  PROVE  PubInv'
<1> USE DEF PubInv, Agrees
<1> DEFINE r == [Out EXCEPT !.pc = "closed", !.cell = c]
           k == [cell[c] EXCEPT !.made = TRUE, !.reserved = p, !.last = p]
<1>1. pub[p].pc = "out" /\ keeper = NoProc /\ pub' = [pub EXCEPT ![p] = r]
  BY DEF Admit, Unlocked
<1>2. UNCHANGED <<seq, word, said, waiting, keeper, obs>> BY DEF Admit
<1>3. r \in WriterRecord /\ r.pc = "closed" /\ r.cell = c /\ ~r.fault
  BY Empties DEF Out, WriterRecord, WriterPoints
<1>4. cell[c] \in CellRecord /\ k \in CellRecord
  <2>1. cell[c] \in CellRecord BY DEF PubTypeOK
  <2> QED BY ZenonT(40), <2>1 DEF CellRecord
<1>5. \/ cell' = cell /\ p \notin Declared
      \/ cell' = [cell EXCEPT ![c] = k] /\ Reservable(c, p)
  BY DEF Admit
<1>6. /\ k.reserved = p /\ k.held = cell[c].held /\ k.by = cell[c].by BY <1>4 DEF CellRecord
<1> HIDE DEF r, k
<1>7. PubTypeOK' BY <1>1, <1>2, <1>3, <1>4, <1>5 DEF PubTypeOK, waiting
<1>8. \A q \in Writers : pub'[q] = IF q = p THEN r ELSE pub[q] BY <1>1 DEF PubTypeOK
<1>14. Reservable(c, p) => cell[c].reserved \in {NoProc, p} BY DEF Reservable
<1>9. \A d \in Cells : /\ cell'[d].held <=> cell[d].held
                       /\ cell'[d].by = cell[d].by
                       /\ cell'[d].reserved # cell[d].reserved =>
                             d = c /\ cell[d].reserved \in {NoProc, p}
  <2> SUFFICES ASSUME NEW d \in Cells
               PROVE  /\ cell'[d].held <=> cell[d].held
                      /\ cell'[d].by = cell[d].by
                      /\ cell'[d].reserved # cell[d].reserved =>
                           d = c /\ cell[d].reserved \in {NoProc, p}
    OBVIOUS
  <2>1. CASE cell' = cell BY <2>1
  <2>2. CASE cell' = [cell EXCEPT ![c] = k] /\ Reservable(c, p)
    <3>1. cell'[d] = IF d = c THEN k ELSE cell[d] BY <2>2 DEF PubTypeOK
    <3>2. CASE d = c BY <1>6, <1>14, <2>2, <3>1, <3>2
    <3>3. CASE d # c BY <3>1, <3>3
    <3> QED BY <3>2, <3>3
  <2> QED BY <1>5, <2>1, <2>2
<1>10. Faults' BY <1>1, <1>2, <1>3, <1>8, PubAssumption DEF Faults
<1>11. Holds'
  <2> SUFFICES ASSUME NEW q \in Writers, pub'[q].pc \in PastOpen, ~pub'[q].fault
               PROVE  /\ pub'[q].cell \in Cells
                      /\ cell'[pub'[q].cell].held /\ cell'[pub'[q].cell].by = q
    BY DEF Holds
  <2>1. pub'[q] = pub[q] BY <1>3, <1>8 DEF PastOpen
  <2>2. pub[q].cell \in Cells /\ cell[pub[q].cell].held /\ cell[pub[q].cell].by = q
    BY <2>1 DEF Holds
  <2>3. cell'[pub[q].cell].held /\ cell'[pub[q].cell].by = q BY <1>9, <2>2
  <2> QED BY <2>1, <2>2, <2>3
<1>12. Reserves'
  <2> SUFFICES ASSUME NEW q \in Writers, q \in Declared, pub'[q].pc \notin {"out", "ended"},
                      ~pub'[q].fault
               PROVE  KeptFor(cell'[pub'[q].cell], q)
    BY DEF Reserves
  <2>1. CASE q = p
    <3>1. cell' = [cell EXCEPT ![c] = k] /\ Reservable(c, p) BY <1>5, <2>1
    <3>2. cell'[c] = k BY <3>1 DEF PubTypeOK
    <3> QED BY <1>3, <1>6, <1>8, <2>1, <3>1, <3>2 DEF KeptFor, Reservable
  <2>2. CASE q # p
    <3>1. pub'[q] = pub[q] /\ pub[q].cell \in Cells BY <1>8, <2>2, HasCell
    <3>2. KeptFor(cell[pub[q].cell], q) BY <3>1 DEF Reserves
    <3>3. q \notin {NoProc, p} BY <2>2, PubAssumption
    <3>4. cell'[pub[q].cell].reserved = cell[pub[q].cell].reserved
      BY <1>9, <3>1, <3>2, <3>3 DEF KeptFor
    <3> QED BY <1>9, <3>1, <3>2, <3>4 DEF KeptFor
  <2> QED BY <2>1, <2>2
<1>13. (Counts /\ Words /\ Views)'
  BY <1>1, <1>2, <1>3, StoreStands DEF Copying
<1> QED BY <1>7, <1>10, <1>11, <1>12, <1>13

LEMMA OpenStep ==
  ASSUME PubInv, NEW p \in Writers, OpenWrite(p)
  PROVE  PubInv'
<1> USE DEF PubInv, Agrees
<1> DEFINE c == pub[p].cell
           r == [pub[p] EXCEPT !.pc = "open"]
           k == [cell[c] EXCEPT !.made = TRUE, !.held = TRUE, !.by = p, !.last = p, !.fault = FALSE]
<1>1. /\ pub[p].pc = "closed" /\ ~cell[c].held /\ pub' = [pub EXCEPT ![p] = r]
      /\ cell' = [cell EXCEPT ![c] = k] /\ cell[c].reserved \in {NoProc, p}
  BY DEF OpenWrite, Writable
<1>2. UNCHANGED <<seq, word, said, waiting, keeper, obs>> BY DEF OpenWrite
<1>3. c \in Cells /\ cell[c] \in CellRecord /\ pub[p] \in WriterRecord BY <1>1, HasCell
<1>4. /\ r \in WriterRecord /\ r.pc = "open" /\ r.cell = c /\ r.fault = pub[p].fault
  BY <1>3 DEF WriterRecord, WriterPoints
<1>5. /\ k \in CellRecord /\ k.held /\ k.by = p /\ k.reserved = cell[c].reserved
  BY <1>3 DEF CellRecord
<1> HIDE DEF r, k
<1>6. PubTypeOK' BY <1>1, <1>2, <1>3, <1>4, <1>5 DEF PubTypeOK, waiting
<1>7. \A q \in Writers : pub'[q] = IF q = p THEN r ELSE pub[q] BY <1>1 DEF PubTypeOK
<1>8. \A d \in Cells : cell'[d] = IF d = c THEN k ELSE cell[d] BY <1>1 DEF PubTypeOK
<1>9. Faults' BY <1>1, <1>2, <1>3, <1>4, <1>7, PubAssumption DEF Faults
<1>10. Holds' BY <1>1, <1>3, <1>4, <1>5, <1>7, <1>8 DEF Holds
<1>11. Reserves'
  <2> SUFFICES ASSUME NEW q \in Writers, q \in Declared, pub'[q].pc \notin {"out", "ended"},
                      ~pub'[q].fault
               PROVE  KeptFor(cell'[pub'[q].cell], q)
    BY DEF Reserves
  <2>1. /\ pub[q].cell = pub'[q].cell /\ pub[q].pc \notin {"out", "ended"} /\ ~pub[q].fault
        /\ pub[q].cell \in Cells
    BY <1>1, <1>4, <1>7, HasCell
  <2>2. KeptFor(cell[pub[q].cell], q) BY <2>1 DEF Reserves
  <2>3. CASE pub[q].cell = c
    <3>1. q = p BY <1>1, <2>2, <2>3, PubAssumption DEF KeptFor
    <3> QED BY <1>5, <1>8, <2>1, <2>2, <2>3, <3>1 DEF KeptFor
  <2>4. CASE pub[q].cell # c BY <1>8, <2>1, <2>2, <2>4
  <2> QED BY <2>3, <2>4
<1>12. (Counts /\ Words /\ Views)' BY <1>1, <1>2, <1>4, StoreStands DEF Copying
<1> QED BY <1>6, <1>9, <1>10, <1>11, <1>12

LEMMA CloseStep ==
  ASSUME PubInv, NEW p \in Writers, NEW r \in WriterRecord,
         pub[p].pc \notin Copying \cup {"out", "ended"}, ~pub[p].fault, r.cell = pub[p].cell,
         \/ r.pc = "closed" /\ ~r.fault
         \/ r.pc = "ended",
         pub' = [pub EXCEPT ![p] = r],
         LET c == pub[p].cell
         IN  \/ cell' = cell
             \/ /\ pub[p].pc \in PastOpen
                /\ cell' = [cell EXCEPT ![c].held = FALSE, ![c].by = NoProc],
         UNCHANGED <<seq, word, said, waiting, keeper, obs>>
  PROVE  PubInv'
<1> USE DEF PubInv, Agrees
<1> DEFINE c == pub[p].cell
           k == [cell[c] EXCEPT !.held = FALSE, !.by = NoProc]
<1>1. c \in Cells /\ cell[c] \in CellRecord BY HasCell
<1>2. k \in CellRecord /\ k.reserved = cell[c].reserved /\ ~k.held BY <1>1 DEF CellRecord
<1>3. \/ cell' = cell
      \/ pub[p].pc \in PastOpen /\ cell' = [cell EXCEPT ![c] = k]
  OBVIOUS
<1> HIDE DEF k
<1>4. PubTypeOK' BY <1>1, <1>2, <1>3 DEF PubTypeOK, waiting
<1>5. \A q \in Writers : pub'[q] = IF q = p THEN r ELSE pub[q] BY DEF PubTypeOK
<1>6. \A d \in Cells : /\ cell'[d].reserved = cell[d].reserved
                       /\ cell'[d].held => cell[d].held /\ cell'[d].by = cell[d].by
                       /\ cell'[d] # cell[d] => d = c /\ pub[p].pc \in PastOpen
  BY <1>2, <1>3 DEF PubTypeOK
<1>7. Faults' BY <1>1, <1>5, PubAssumption DEF Faults, Copying
<1>8. Holds'
  <2> SUFFICES ASSUME NEW q \in Writers, pub'[q].pc \in PastOpen, ~pub'[q].fault
               PROVE  /\ pub'[q].cell \in Cells
                      /\ cell'[pub'[q].cell].held /\ cell'[pub'[q].cell].by = q
    BY DEF Holds
  <2>1. q # p /\ pub'[q] = pub[q] BY <1>5 DEF PastOpen
  <2>2. pub[q].cell \in Cells /\ cell[pub[q].cell].held /\ cell[pub[q].cell].by = q
    BY <2>1 DEF Holds
  <2>3. pub[p].pc \in PastOpen => pub[q].cell # c BY <2>1, OneAtACell
  <2>4. cell'[pub[q].cell] = cell[pub[q].cell] BY <1>6, <2>2, <2>3
  <2> QED BY <2>1, <2>2, <2>4
<1>9. Reserves'
  <2> SUFFICES ASSUME NEW q \in Writers, q \in Declared, pub'[q].pc \notin {"out", "ended"},
                      ~pub'[q].fault
               PROVE  KeptFor(cell'[pub'[q].cell], q)
    BY DEF Reserves
  <2>1. /\ pub[q].cell = pub'[q].cell /\ pub[q].pc \notin {"out", "ended"} /\ ~pub[q].fault
        /\ pub[q].cell \in Cells
    BY <1>1, <1>5, HasCell
  <2>2. KeptFor(cell[pub[q].cell], q) BY <2>1 DEF Reserves
  <2> QED BY <1>6, <2>1, <2>2 DEF KeptFor
<1>10. (Counts /\ Words /\ Views)' BY StoreStands DEF Copying
<1> QED BY <1>4, <1>7, <1>8, <1>9, <1>10

LEMMA EndsStep ==
  ASSUME PubInv, OutsideCopy, NEW p \in Writers,
         CloseWrite(p) \/ \E fault \in BOOLEAN : WriterEnds(p, fault)
  PROVE  PubInv'
<1> USE DEF PubInv, Agrees
<1>1. pub[p] \in WriterRecord BY HasCell
<1>2. CASE CloseWrite(p)
  <2> DEFINE r == [pub[p] EXCEPT !.pc = "closed"]
  <2>1. /\ r \in WriterRecord /\ r.pc = "closed" /\ r.cell = pub[p].cell
        /\ r.fault = pub[p].fault
    BY <1>1 DEF WriterRecord, WriterPoints
  <2>2. pub[p].pc = "open" /\ ~pub[p].fault BY <1>2 DEF CloseWrite, Faults
  <2>3. pub' = [pub EXCEPT ![p] = r] BY <1>2 DEF CloseWrite
  <2> HIDE DEF r
  <2> QED BY <1>2, <2>1, <2>2, <2>3, CloseStep DEF CloseWrite, Copying, PastOpen
<1>3. ASSUME NEW fault \in BOOLEAN, WriterEnds(p, fault) PROVE PubInv'
  <2> DEFINE r == [pub[p] EXCEPT !.pc = "ended", !.fault = fault, !.at = 0]
  <2>1. r \in WriterRecord /\ r.pc = "ended" /\ r.cell = pub[p].cell
    <3>1. 0 \in 0..NWaiters BY PubAssumption
    <3>2. CASE fault = TRUE BY <1>1, <3>1, <3>2 DEF WriterRecord, WriterPoints
    <3>3. CASE fault = FALSE BY <1>1, <3>1, <3>3 DEF WriterRecord, WriterPoints
    <3> QED BY <1>3, <3>2, <3>3
  <2>2. pub[p].pc \in {"closed", "open", "look", "take", "give"}
    BY <1>3 DEF WriterEnds, OutsideCopy
  \* One that ended with a fault would hold the lock.
  <2>3. ~pub[p].fault BY <1>3, <2>2, PubAssumption DEF WriterEnds, Unlocked, Faults
  <2>4. pub' = [pub EXCEPT ![p] = r] BY <1>3 DEF WriterEnds
  <2>5. \/ cell' = cell
        \/ /\ pub[p].pc \in PastOpen
           /\ cell' = [cell EXCEPT ![pub[p].cell].held = FALSE, ![pub[p].cell].by = NoProc]
    BY <1>3, <2>2 DEF WriterEnds, PastOpen
  <2> HIDE DEF r
  <2> QED BY <1>3, <2>1, <2>2, <2>3, <2>4, <2>5, CloseStep DEF WriterEnds, Copying
<1> QED BY <1>2, <1>3

(***************************************************************************)
(* A publication.                                                          *)
(***************************************************************************)
LEMMA Publishing ==
  ASSUME PubInv, NEW p \in Writers, NEW r \in WriterRecord,
         pub[p].pc \in {"open"} \cup Copying, r.pc \in {"look"} \cup Copying,
         r.cell = pub[p].cell, ~r.fault,
         pub' = [pub EXCEPT ![p] = r], UNCHANGED <<cell, keeper>>
  PROVE  (Faults /\ Holds /\ Reserves)'
<1> USE DEF PubInv, Agrees
<1>1. \A q \in Writers : pub'[q] = IF q = p THEN r ELSE pub[q] BY DEF PubTypeOK
<1>2. pub[p].cell \in Cells /\ ~pub[p].fault BY HasCell DEF Faults, Copying
<1>3. Faults' BY <1>1, <1>2, PubAssumption DEF Faults, Copying
<1>4. Holds' BY <1>1, <1>2 DEF Holds, PastOpen, Copying
<1>5. Reserves' BY <1>1, <1>2 DEF Reserves, Copying
<1> QED BY <1>3, <1>4, <1>5

\* Who publishes has the cell to itself, and has it typed.
LEMMA Alone ==
  ASSUME PubInv, NEW p \in Writers, pub[p].pc \in {"open"} \cup Copying
  PROVE  LET c == pub[p].cell IN
         /\ c \in Cells /\ pub[p] \in WriterRecord /\ ~pub[p].fault
         /\ \A q \in Writers : q # p /\ pub[q].cell = c => pub[q].pc \notin {"open"} \cup Copying
         /\ seq[c] \in Nat /\ Number(c) \in Nat /\ said[c] \in [0..MaxPubs -> Nat]
         /\ word[c] \in [1..2 -> Nat]
         /\ seq[c] % 2 = (IF pub[p].pc = "open" THEN 0 ELSE 1)
<1> USE DEF PubInv, Agrees
<1> DEFINE c == pub[p].cell
<1>1. c \in Cells /\ pub[p] \in WriterRecord /\ ~pub[p].fault
  BY HasCell DEF Faults, Copying
<1>2. ASSUME NEW q \in Writers, q # p, pub[q].cell = c, pub[q].pc \in {"open"} \cup Copying
      PROVE  FALSE
  <2>1. ~pub[q].fault BY <1>2 DEF Faults
  <2>2. pub[p].pc \in PastOpen /\ pub[q].pc \in PastOpen BY <1>2 DEF PastOpen, Copying
  <2> QED BY <1>1, <1>2, <2>1, <2>2, OneAtACell
<1>3. seq[c] \in Nat /\ said[c] \in [0..MaxPubs -> Nat] /\ word[c] \in [1..2 -> Nat]
  BY <1>1 DEF PubTypeOK
<1>4. Number(c) \in Nat BY <1>3 DEF Number
<1>5. seq[c] % 2 = 1 <=> pub[p].pc \in Copying
  BY <1>1, <1>2 DEF Counts
<1>6. seq[c] % 2 = (IF pub[p].pc = "open" THEN 0 ELSE 1) BY <1>3, <1>5 DEF Copying
<1> QED BY <1>1, <1>2, <1>3, <1>4, <1>6

LEMMA EvenToOdd ==
  ASSUME NEW n \in Nat, n % 2 = 0
  PROVE  (n + 1) % 2 = 1 /\ (n + 1) \div 2 = n \div 2 /\ ((n + 1) + 1) \div 2 = n \div 2 + 1
OBVIOUS

LEMMA OddToEven ==
  ASSUME NEW n \in Nat, n % 2 = 1
  PROVE  (n + 1) % 2 = 0 /\ (n + 1) \div 2 = n \div 2 + 1 /\ ((n + 1) + 1) \div 2 = n \div 2 + 1
OBVIOUS

LEMMA BeginStep ==
  ASSUME PubInv, NEW p \in Writers, Begin(p)
  PROVE  PubInv'
<1> USE DEF PubInv, Agrees
<1> DEFINE c == pub[p].cell
           r == [pub[p] EXCEPT !.pc = "copy"]
<1>1. pub[p].pc = "open" /\ Number(c) < MaxPubs /\ pub' = [pub EXCEPT ![p] = r]
  BY DEF Begin
<1>2. seq' = [seq EXCEPT ![c] = @ + 1] /\ UNCHANGED <<cell, word, said, waiting, keeper, obs>>
  BY DEF Begin
<1>3. /\ c \in Cells /\ pub[p] \in WriterRecord
      /\ \A q \in Writers : q # p /\ pub[q].cell = c => pub[q].pc \notin {"open"} \cup Copying
      /\ seq[c] \in Nat /\ Number(c) \in Nat /\ seq[c] % 2 = 0 /\ ~pub[p].fault
  BY <1>1, Alone
<1>4. r \in WriterRecord /\ r.pc = "copy" /\ r.cell = c /\ ~r.fault
  BY <1>3 DEF WriterRecord, WriterPoints
<1> HIDE DEF r
<1>5. PubTypeOK' BY <1>1, <1>2, <1>3, <1>4 DEF PubTypeOK, waiting
<1>6. \A q \in Writers : pub'[q] = IF q = p THEN r ELSE pub[q] BY <1>1 DEF PubTypeOK
<1>7. \A d \in Cells : seq'[d] = IF d = c THEN seq[c] + 1 ELSE seq[d] BY <1>2 DEF PubTypeOK
<1>8. /\ (seq[c] + 1) % 2 = 1 /\ (seq[c] + 1) \div 2 = Number(c)
      /\ ((seq[c] + 1) + 1) \div 2 = Number(c) + 1
  BY <1>3, EvenToOdd DEF Number
<1>9. \A d \in Cells : Number(d)' = Number(d) BY <1>7, <1>8 DEF Number
<1>10. (Faults /\ Holds /\ Reserves)' BY <1>1, <1>2, <1>4, Publishing DEF Copying
<1>11. Counts'
  <2> SUFFICES ASSUME NEW d \in Cells
               PROVE  /\ seq'[d] % 2 = 1 <=> \E q \in Writers : pub'[q].cell = d /\ pub'[q].pc \in Copying
                      /\ (seq'[d] + 1) \div 2 <= MaxPubs
                      /\ said[d][0] = 0
    BY <1>2 DEF Counts
  <2>1. CASE d = c BY <1>1, <1>3, <1>4, <1>6, <1>7, <1>8, <2>1, PubAssumption DEF Counts, Copying
  <2>2. CASE d # c BY <1>4, <1>6, <1>7, <2>2 DEF Counts
  <2> QED BY <2>1, <2>2
<1>12. Words'
  <2> SUFFICES ASSUME NEW d \in Cells
               PROVE  /\ (\A q \in Writers : pub'[q].cell = d => pub'[q].pc \notin {"half", "copied"}) =>
                           \A w \in 1..2 : word[d][w] = said[d][Number(d)]
                      /\ \A q \in Writers : pub'[q].cell = d =>
                           /\ pub'[q].pc = "half" => word[d][1] = Number(d) + 1
                           /\ pub'[q].pc = "copied" => \A w \in 1..2 : word[d][w] = Number(d) + 1
    BY <1>2, <1>9 DEF Words
  <2> QED BY <1>1, <1>4, <1>6 DEF Words
<1>13. Views'
  <2>1. \A d \in Cells : seq[d] \in Nat BY DEF PubTypeOK
  <2>2. \A d \in Cells : seq[d] <= seq'[d] BY <1>7, <2>1
  <2> QED BY <1>2, <1>5, <2>2, ViewsStand DEF PubTypeOK
<1> QED BY <1>5, <1>10, <1>11, <1>12, <1>13

LEMMA CopyStep ==
  ASSUME PubInv, NEW p \in Writers, CopyFirst(p) \/ CopySecond(p)
  PROVE  PubInv'
<1> USE DEF PubInv, Agrees
<1> DEFINE c == pub[p].cell
           first == pub[p].pc = "copy"
           w == IF first THEN 1 ELSE 2
           pc == IF first THEN "half" ELSE "copied"
           r == [pub[p] EXCEPT !.pc = pc]
           y == [word[c] EXCEPT ![w] = Number(c) + 1]
<1>1. /\ pub[p].pc \in {"copy", "half"} /\ pub' = [pub EXCEPT ![p] = r]
      /\ word' = [word EXCEPT ![c] = y] /\ UNCHANGED <<cell, seq, said, waiting, keeper, obs>>
  BY DEF CopyFirst, CopySecond
<1>2. /\ c \in Cells /\ pub[p] \in WriterRecord /\ ~pub[p].fault
      /\ \A q \in Writers : q # p /\ pub[q].cell = c => pub[q].pc \notin {"open"} \cup Copying
      /\ seq[c] \in Nat /\ Number(c) \in Nat /\ word[c] \in [1..2 -> Nat] /\ seq[c] % 2 = 1
  BY <1>1, Alone DEF Copying
<1>3. r \in WriterRecord /\ r.pc = pc /\ r.cell = c /\ ~r.fault
  BY <1>2 DEF WriterRecord, WriterPoints
<1>4. y \in [1..2 -> Nat] /\ y[w] = Number(c) + 1 /\ \A x \in 1..2 : x # w => y[x] = word[c][x]
  BY <1>2
<1> HIDE DEF r, y
<1>5. PubTypeOK' BY <1>1, <1>2, <1>3, <1>4 DEF PubTypeOK, waiting
<1>6. \A q \in Writers : pub'[q] = IF q = p THEN r ELSE pub[q] BY <1>1 DEF PubTypeOK
<1>7. \A d \in Cells : word'[d] = IF d = c THEN y ELSE word[d] BY <1>1 DEF PubTypeOK
<1>8. (Faults /\ Holds /\ Reserves)' BY <1>1, <1>3, Publishing DEF Copying
<1>9. Counts' BY <1>1, <1>3, <1>6 DEF Counts, Copying
<1>10. Words'
  <2> SUFFICES ASSUME NEW d \in Cells
               PROVE  /\ (\A q \in Writers : pub'[q].cell = d => pub'[q].pc \notin {"half", "copied"}) =>
                           \A x \in 1..2 : word'[d][x] = said[d][Number(d)]
                      /\ \A q \in Writers : pub'[q].cell = d =>
                           /\ pub'[q].pc = "half" => word'[d][1] = Number(d) + 1
                           /\ pub'[q].pc = "copied" => \A x \in 1..2 : word'[d][x] = Number(d) + 1
    BY <1>1 DEF Words, Number
  <2>1. CASE d = c
    <3>1. pub'[p].pc \in {"half", "copied"} /\ pub'[p].cell = d BY <1>3, <1>6, <2>1
    <3>2. ASSUME NEW q \in Writers, q # p, pub'[q].cell = d
          PROVE  pub'[q].pc \notin {"half", "copied"}
      BY <1>2, <1>6, <2>1, <3>2 DEF Copying
    <3>3. pub'[p].pc = "half" => word'[d][1] = Number(d) + 1 BY <1>3, <1>4, <1>6, <1>7, <2>1
    <3>4. pub'[p].pc = "copied" => \A x \in 1..2 : word'[d][x] = Number(d) + 1
      <4>1. CASE first BY <1>3, <1>6, <4>1
      <4>2. CASE ~first
        <5>1. word[c][1] = Number(c) + 1 BY <1>1, <1>2, <4>2 DEF Words
        <5> QED BY <1>4, <1>7, <2>1, <4>2, <5>1
      <4> QED BY <4>1, <4>2
    <3> QED BY <3>1, <3>2, <3>3, <3>4
  <2>2. CASE d # c
    <3>1. word'[d] = word[d] BY <1>7, <2>2
    <3>2. \A q \in Writers : /\ pub'[q].cell = d <=> pub[q].cell = d
                             /\ pub[q].cell = d => pub'[q] = pub[q]
      BY <1>3, <1>6, <2>2
    <3> QED BY <3>1, <3>2 DEF Words
  <2> QED BY <2>1, <2>2
<1>11. Views'
  <2>1. \A d \in Cells : seq[d] \in Nat /\ seq'[d] = seq[d] BY <1>1 DEF PubTypeOK
  <2>2. \A d \in Cells : seq[d] % 2 = 0 => word'[d] = word[d] BY <1>2, <1>7
  <2> QED BY <1>1, <1>5, <2>1, <2>2, ViewsStand DEF PubTypeOK
<1> QED BY <1>5, <1>8, <1>9, <1>10, <1>11

LEMMA PublishStep ==
  ASSUME PubInv, NEW p \in Writers, Publish(p)
  PROVE  PubInv'
<1> USE DEF PubInv, Agrees
<1> DEFINE c == pub[p].cell
           r == [pub[p] EXCEPT !.pc = "look", !.at = 1]
           s == [said[c] EXCEPT ![Number(c) + 1] = word[c][1]]
<1>1. /\ pub[p].pc = "copied" /\ pub' = [pub EXCEPT ![p] = r] /\ said' = [said EXCEPT ![c] = s]
      /\ seq' = [seq EXCEPT ![c] = @ + 1] /\ UNCHANGED <<cell, word, waiting, keeper, obs>>
  BY DEF Publish
<1>2. /\ c \in Cells /\ pub[p] \in WriterRecord /\ ~pub[p].fault
      /\ \A q \in Writers : q # p /\ pub[q].cell = c => pub[q].pc \notin {"open"} \cup Copying
      /\ seq[c] \in Nat /\ Number(c) \in Nat /\ said[c] \in [0..MaxPubs -> Nat]
      /\ word[c] \in [1..2 -> Nat] /\ seq[c] % 2 = 1
  BY <1>1, Alone DEF Copying
<1>3. r \in WriterRecord /\ r.pc = "look" /\ r.cell = c /\ ~r.fault
  <2>1. 1 \in 0..NWaiters BY PubAssumption
  <2> QED BY <1>2, <2>1 DEF WriterRecord, WriterPoints
<1>4. /\ (seq[c] + 1) % 2 = 0 /\ (seq[c] + 1) \div 2 = Number(c) + 1
      /\ ((seq[c] + 1) + 1) \div 2 = Number(c) + 1
  BY <1>2, OddToEven DEF Number
<1>5. Number(c) + 1 <= MaxPubs BY <1>2, <1>4 DEF Counts
<1>6. /\ s \in [0..MaxPubs -> Nat] /\ s[Number(c) + 1] = word[c][1]
      /\ \A n \in Nat : n <= Number(c) => s[n] = said[c][n]
  <2>1. Number(c) + 1 \in 0..MaxPubs BY <1>2, <1>5, PubAssumption
  <2>2. \A n \in Nat : n <= Number(c) => n \in 0..MaxPubs /\ n # Number(c) + 1
    BY <1>2, <1>5, PubAssumption
  <2>3. word[c][1] \in Nat BY <1>2
  <2>4. s \in [0..MaxPubs -> Nat] BY <1>2, <2>3
  <2>5. s[Number(c) + 1] = word[c][1] BY <1>2, <2>1
  <2>6. ASSUME NEW n \in Nat, n <= Number(c) PROVE s[n] = said[c][n] BY <1>2, <2>2, <2>6
  <2> QED BY <2>4, <2>5, <2>6
<1> HIDE DEF r, s
<1>7. PubTypeOK'
  <2>1. seq' \in [Cells -> Nat] BY <1>1, <1>2 DEF PubTypeOK
  <2>2. said' \in [Cells -> [0..MaxPubs -> Nat]] BY <1>1, <1>6 DEF PubTypeOK
  <2>3. pub' \in [Writers -> WriterRecord] BY <1>1, <1>3 DEF PubTypeOK
  <2> QED BY <1>1, <2>1, <2>2, <2>3 DEF PubTypeOK, waiting
<1>8. \A q \in Writers : pub'[q] = IF q = p THEN r ELSE pub[q] BY <1>1 DEF PubTypeOK
<1>9. \A d \in Cells : /\ seq'[d] = IF d = c THEN seq[c] + 1 ELSE seq[d]
                       /\ said'[d] = IF d = c THEN s ELSE said[d]
  BY <1>1 DEF PubTypeOK
<1>10. \A d \in Cells : Number(d)' = IF d = c THEN Number(c) + 1 ELSE Number(d)
  BY <1>4, <1>9 DEF Number
<1>11. (Faults /\ Holds /\ Reserves)' BY <1>1, <1>3, Publishing DEF Copying
<1>12. Counts'
  <2> SUFFICES ASSUME NEW d \in Cells
               PROVE  /\ seq'[d] % 2 = 1 <=> \E q \in Writers : pub'[q].cell = d /\ pub'[q].pc \in Copying
                      /\ (seq'[d] + 1) \div 2 <= MaxPubs
                      /\ said'[d][0] = 0
    BY DEF Counts
  <2>1. CASE d = c
    <3>1. \A q \in Writers : pub'[q].cell = d => pub'[q].pc \notin Copying
      BY <1>2, <1>3, <1>8, <2>1 DEF Copying
    <3>2. said'[d][0] = 0
      <4>1. s[0] = said[c][0] BY <1>2, <1>6
      <4> QED BY <1>2, <1>9, <2>1, <4>1 DEF Counts
    <3>3. seq'[d] % 2 = 0 /\ (seq'[d] + 1) \div 2 <= MaxPubs BY <1>4, <1>5, <1>9, <2>1
    <3> QED BY <3>1, <3>2, <3>3
  <2>2. CASE d # c BY <1>3, <1>8, <1>9, <2>2 DEF Counts
  <2> QED BY <2>1, <2>2
<1>13. Words'
  <2> SUFFICES ASSUME NEW d \in Cells
               PROVE  /\ (\A q \in Writers : pub'[q].cell = d => pub'[q].pc \notin {"half", "copied"}) =>
                           \A x \in 1..2 : word[d][x] = said'[d][Number(d)']
                      /\ \A q \in Writers : pub'[q].cell = d =>
                           /\ pub'[q].pc = "half" => word[d][1] = Number(d)' + 1
                           /\ pub'[q].pc = "copied" => \A x \in 1..2 : word[d][x] = Number(d)' + 1
    BY <1>1 DEF Words
  <2>1. CASE d = c
    <3>1. \A q \in Writers : pub'[q].cell = d => pub'[q].pc \notin {"half", "copied"}
      BY <1>2, <1>3, <1>8, <2>1 DEF Copying
    <3>2. \A x \in 1..2 : word[c][x] = Number(c) + 1 BY <1>1, <1>2 DEF Words
    <3>3. \A x \in 1..2 : word[d][x] = said'[d][Number(d)']
      <4>1. said'[d] = s /\ Number(d)' = Number(c) + 1 BY <1>9, <1>10, <2>1
      <4>2. s[Number(c) + 1] = Number(c) + 1 BY <1>6, <3>2
      <4> QED BY <2>1, <3>2, <4>1, <4>2
    <3> QED BY <3>1, <3>3
  <2>2. CASE d # c
    <3>1. said'[d] = said[d] /\ Number(d)' = Number(d) BY <1>9, <1>10, <2>2
    <3>2. \A q \in Writers : /\ pub'[q].cell = d <=> pub[q].cell = d
                             /\ pub[q].cell = d => pub'[q] = pub[q]
      BY <1>3, <1>8, <2>2
    <3> QED BY <3>1, <3>2 DEF Words
  <2> QED BY <2>1, <2>2
<1>14. Views'
  <2>0. \A d \in Cells : seq[d] \in Nat BY DEF PubTypeOK
  <2>1. \A d \in Cells : seq[d] <= seq'[d] BY <1>9, <2>0
  <2>2. \A d \in Cells : \A n \in Nat : n <= Number(d) => said'[d][n] = said[d][n] BY <1>6, <1>9
  <2> QED BY <1>1, <1>7, <2>1, <2>2, ViewsStand DEF PubTypeOK
<1> QED BY <1>7, <1>11, <1>12, <1>13, <1>14

(***************************************************************************)
(* The end of a writer, and of a cell.                                     *)
(***************************************************************************)
LEMMA EndedStep ==
  ASSUME PubInv, NEW p \in Writers, Ended(p)
  PROVE  PubInv'
<1> USE DEF PubInv, Agrees
<1> DEFINE c == pub[p].cell
           kept == IF cell[c].reserved = p THEN NoProc ELSE cell[c].reserved
           was == IF cell[c].last = p THEN NoProc ELSE cell[c].last
           bad == cell[c].fault \/ Marks(p, c)
           k == [cell[c] EXCEPT !.reserved = kept, !.last = was, !.fault = bad]
           r == [pub[p] EXCEPT !.pc = "look", !.at = 1]
           s == [said[c] EXCEPT ![Number(c) + 1] = said[c][Number(c)]]
<1>1. /\ pub[p].pc = "ended" /\ keeper = NoProc /\ (Marks(p, c) => Number(c) < MaxPubs)
      /\ cell' = [cell EXCEPT ![c] = k] /\ UNCHANGED <<word, waiting, obs>>
  BY DEF Ended, Unlocked
<1>2. /\ c \in Cells /\ pub[p] \in WriterRecord /\ cell[c] \in CellRecord
      /\ seq[c] \in Nat /\ Number(c) \in Nat /\ said[c] \in [0..MaxPubs -> Nat]
  BY <1>1, HasCell DEF PubTypeOK, Number
<1>3. /\ k \in CellRecord /\ k.reserved = kept
      /\ k.held <=> cell[c].held
      /\ k.by = cell[c].by
  <2>1. kept \in Writers \cup {NoProc} /\ was \in Writers \cup {NoProc} BY <1>2 DEF CellRecord
  <2>2. bad \in BOOLEAN BY <1>2 DEF CellRecord
  <2> HIDE DEF kept, was, bad
  <2> QED BY <1>2, <2>1, <2>2 DEF CellRecord
<1> HIDE DEF k
<1>4. cell' \in [Cells -> CellRecord] BY <1>1, <1>3 DEF PubTypeOK
<1>5. \A d \in Cells : cell'[d] = IF d = c THEN k ELSE cell[d] BY <1>1 DEF PubTypeOK
\* Whatever p becomes, nobody else's claim on the cell changes.
<1>6. ASSUME NEW v \in WriterRecord, pub' = [pub EXCEPT ![p] = v], v.pc = "out" \/ v.fault
      PROVE  (Holds /\ Reserves)'
  <2>1. \A q \in Writers : pub'[q] = IF q = p THEN v ELSE pub[q] BY <1>6 DEF PubTypeOK
  <2>2. ASSUME NEW q \in Writers, pub'[q].pc \in PastOpen, ~pub'[q].fault
        PROVE  /\ pub'[q].cell \in Cells
               /\ cell'[pub'[q].cell].held /\ cell'[pub'[q].cell].by = q
    <3>1. pub'[q] = pub[q] BY <1>6, <2>1, <2>2 DEF PastOpen
    <3>2. pub[q].cell \in Cells /\ cell[pub[q].cell].held /\ cell[pub[q].cell].by = q
      BY <2>2, <3>1 DEF Holds
    <3>3. cell'[pub[q].cell].held /\ cell'[pub[q].cell].by = q BY <1>3, <1>5, <3>2
    <3> QED BY <3>1, <3>2, <3>3
  <2>3. ASSUME NEW q \in Writers, q \in Declared, pub'[q].pc \notin {"out", "ended"},
               ~pub'[q].fault
        PROVE  KeptFor(cell'[pub'[q].cell], q)
    <3>1. q # p /\ pub'[q] = pub[q] BY <1>6, <2>1, <2>3
    <3>2. pub[q].cell \in Cells /\ KeptFor(cell[pub[q].cell], q)
      BY <2>3, <3>1, HasCell DEF Reserves
    <3>3. KeptFor(cell'[pub[q].cell], q) BY <1>3, <1>5, <3>1, <3>2 DEF KeptFor
    <3> QED BY <3>1, <3>3
  <2> QED BY <2>2, <2>3 DEF Holds, Reserves
<1>7. CASE ~Marks(p, c)
  <2>1. pub' = [pub EXCEPT ![p] = Out] /\ UNCHANGED <<seq, said, keeper>> BY <1>7 DEF Ended
  <2>2. Out.pc = "out" /\ Out.cell = NoCell /\ ~Out.fault /\ Out \in WriterRecord
    BY Empties DEF Out
  <2>3. \A q \in Writers : pub'[q] = IF q = p THEN Out ELSE pub[q] BY <2>1 DEF PubTypeOK
  <2>4. PubTypeOK' BY <1>1, <1>4, <2>1, <2>2 DEF PubTypeOK, waiting
  <2>5. Faults' BY <2>1, <2>2, <2>3 DEF Faults, Copying
  <2>6. (Counts /\ Words /\ Views)' BY <1>1, <2>1, <2>2, StoreStands DEF Copying
  <2> QED BY <1>6, <2>1, <2>2, <2>4, <2>5, <2>6
<1>8. CASE Marks(p, c)
  <2>1. /\ pub' = [pub EXCEPT ![p] = r] /\ keeper' = p /\ seq' = [seq EXCEPT ![c] = @ + 2]
        /\ said' = [said EXCEPT ![c] = s]
    BY <1>8 DEF Ended
  <2>2. Number(c) < MaxPubs /\ pub[p].fault /\ ~cell[c].held BY <1>1, <1>8 DEF Marks
  <2>3. r \in WriterRecord /\ r.pc = "look" /\ r.cell = c /\ r.fault
    <3>1. 1 \in 0..NWaiters BY PubAssumption
    <3>2. /\ r \in WriterRecord /\ r.pc = "look" /\ r.cell = c
          /\ r.fault <=> pub[p].fault
      BY <1>2, <3>1 DEF WriterRecord, WriterPoints
    <3> QED BY <2>2, <3>2
  \* Nobody holds the cell, so that nobody copies into it.
  <2>4. \A q \in Writers : pub[q].cell = c => pub[q].pc \notin Copying
    BY <2>2 DEF Holds, Faults, PastOpen, Copying
  <2>5. seq[c] % 2 = 0 BY <1>2, <2>4 DEF Counts
  <2>6. /\ (seq[c] + 2) % 2 = 0 /\ (seq[c] + 2) \div 2 = Number(c) + 1
        /\ ((seq[c] + 2) + 1) \div 2 = Number(c) + 1
    BY <1>2, <2>5 DEF Number
  <2>7. /\ s \in [0..MaxPubs -> Nat] /\ s[Number(c) + 1] = said[c][Number(c)]
        /\ \A n \in Nat : n <= Number(c) => s[n] = said[c][n]
    <3>1. Number(c) + 1 \in 0..MaxPubs /\ Number(c) \in 0..MaxPubs BY <1>2, <2>2, PubAssumption
    <3>2. said[c][Number(c)] \in Nat BY <1>2, <3>1
    <3>3. s \in [0..MaxPubs -> Nat] BY <1>2, <3>2
    <3>4. s[Number(c) + 1] = said[c][Number(c)] BY <1>2, <3>1
    <3>5. ASSUME NEW n \in Nat, n <= Number(c) PROVE s[n] = said[c][n]
      BY <1>2, <2>2, <3>5, PubAssumption
    <3> QED BY <3>3, <3>4, <3>5
  <2> HIDE DEF r, s
  <2>8. PubTypeOK'
    <3>1. seq' \in [Cells -> Nat] BY <1>2, <2>1 DEF PubTypeOK
    <3>2. said' \in [Cells -> [0..MaxPubs -> Nat]] BY <2>1, <2>7 DEF PubTypeOK
    <3>3. pub' \in [Writers -> WriterRecord] BY <2>1, <2>3 DEF PubTypeOK
    <3> QED BY <1>1, <1>4, <2>1, <3>1, <3>2, <3>3 DEF PubTypeOK, waiting
  <2>9. \A q \in Writers : pub'[q] = IF q = p THEN r ELSE pub[q] BY <2>1 DEF PubTypeOK
  <2>10. \A d \in Cells : /\ seq'[d] = IF d = c THEN seq[c] + 2 ELSE seq[d]
                         /\ said'[d] = IF d = c THEN s ELSE said[d]
    BY <2>1 DEF PubTypeOK
  <2>11. \A d \in Cells : Number(d)' = IF d = c THEN Number(c) + 1 ELSE Number(d)
    BY <2>6, <2>10 DEF Number
  <2>12. Faults' BY <1>1, <1>2, <2>1, <2>3, <2>9, PubAssumption DEF Faults, Copying
  <2>13. Counts'
    <3> SUFFICES ASSUME NEW d \in Cells
                 PROVE  /\ seq'[d] % 2 = 1 <=>
                             \E q \in Writers : pub'[q].cell = d /\ pub'[q].pc \in Copying
                        /\ (seq'[d] + 1) \div 2 <= MaxPubs
                        /\ said'[d][0] = 0
      BY DEF Counts
    <3>1. CASE d = c
      <4>1. \A q \in Writers : pub'[q].cell = d => pub'[q].pc \notin Copying
        BY <2>3, <2>4, <2>9, <3>1 DEF Copying
      <4>2. s[0] = said[c][0] BY <1>2, <2>7
      <4>3. said'[d][0] = 0 BY <1>2, <2>10, <3>1, <4>2 DEF Counts
      <4>4. seq'[d] % 2 = 0 /\ (seq'[d] + 1) \div 2 <= MaxPubs
        BY <1>2, <2>2, <2>6, <2>10, <3>1, PubAssumption
      <4> QED BY <4>1, <4>3, <4>4
    <3>2. CASE d # c BY <2>3, <2>9, <2>10, <3>2 DEF Counts
    <3> QED BY <3>1, <3>2
  <2>14. Words'
    <3> SUFFICES ASSUME NEW d \in Cells
                 PROVE  /\ (\A q \in Writers : pub'[q].cell = d => pub'[q].pc \notin {"half", "copied"}) =>
                             \A x \in 1..2 : word[d][x] = said'[d][Number(d)']
                        /\ \A q \in Writers : pub'[q].cell = d =>
                             /\ pub'[q].pc = "half" => word[d][1] = Number(d)' + 1
                             /\ pub'[q].pc = "copied" => \A x \in 1..2 : word[d][x] = Number(d)' + 1
      BY <1>1 DEF Words
    <3>1. CASE d = c
      <4>1. \A q \in Writers : pub'[q].cell = d => pub'[q].pc \notin {"half", "copied"}
        BY <2>3, <2>4, <2>9, <3>1 DEF Copying
      <4>2. \A x \in 1..2 : word[c][x] = said[c][Number(c)] BY <1>2, <2>4 DEF Words, Copying
      <4>3. said'[d] = s /\ Number(d)' = Number(c) + 1 BY <2>10, <2>11, <3>1
      <4> QED BY <2>7, <3>1, <4>1, <4>2, <4>3
    <3>2. CASE d # c
      <4>1. said'[d] = said[d] /\ Number(d)' = Number(d) BY <2>10, <2>11, <3>2
      <4>2. \A q \in Writers : /\ pub'[q].cell = d <=> pub[q].cell = d
                               /\ pub[q].cell = d => pub'[q] = pub[q]
        BY <2>3, <2>9, <3>2
      <4> QED BY <4>1, <4>2 DEF Words
    <3> QED BY <3>1, <3>2
  <2>15. Views'
    <3>1. \A d \in Cells : seq[d] \in Nat BY DEF PubTypeOK
    <3>2. \A d \in Cells : seq[d] <= seq'[d] BY <2>10, <3>1
    <3>3. \A d \in Cells : \A n \in Nat : n <= Number(d) => said'[d][n] = said[d][n] BY <2>7, <2>10
    <3> QED BY <1>1, <2>8, <3>2, <3>3, ViewsStand DEF PubTypeOK
  <2> QED BY <1>6, <2>1, <2>3, <2>8, <2>12, <2>13, <2>14, <2>15
<1> QED BY <1>7, <1>8

LEMMA ToldStep ==
  ASSUME PubInv, NEW p \in Writers, Told(p)
  PROVE  PubInv'
<1> USE DEF PubInv, Agrees
<1>1. /\ pub[p].pc = "told" /\ keeper' = NoProc /\ pub' = [pub EXCEPT ![p] = Out]
      /\ UNCHANGED <<cell, seq, word, said, waiting, obs>>
  BY DEF Told, store
<1>2. Out.pc = "out" /\ Out.cell = NoCell /\ ~Out.fault /\ Out \in WriterRecord
  BY Empties DEF Out
<1>3. \A q \in Writers : pub'[q] = IF q = p THEN Out ELSE pub[q] BY <1>1 DEF PubTypeOK
<1>4. PubTypeOK' BY <1>1, <1>2 DEF PubTypeOK, waiting
\* Nobody else had the lock.
<1>5. keeper = p BY <1>1 DEF Faults
<1>6. Faults' BY <1>2, <1>3, <1>5 DEF Faults, Copying
<1>7. Holds' BY <1>1, <1>2, <1>3 DEF Holds, PastOpen
<1>8. Reserves' BY <1>1, <1>2, <1>3 DEF Reserves
<1>9. (Counts /\ Words /\ Views)' BY <1>1, <1>2, StoreStands DEF Copying
<1> QED BY <1>4, <1>6, <1>7, <1>8, <1>9

\* A cell is removed when nobody has it open or keeps it.
LEMMA RemoveStep ==
  ASSUME PubInv, NEW c \in Cells, Remove(c)
  PROVE  PubInv'
<1> USE DEF PubInv, Agrees
<1> DEFINE s == [n \in 0..MaxPubs |-> 0]
<1>1. /\ ~cell[c].held /\ cell[c].reserved = NoProc /\ Readers(c) = {}
      /\ UNCHANGED <<waiting, keeper, pub, obs>>
  BY DEF Remove
<1>2. /\ cell' = [cell EXCEPT ![c] = Blank] /\ seq' = [seq EXCEPT ![c] = 0]
      /\ word' = [word EXCEPT ![c] = Zeros] /\ said' = [said EXCEPT ![c] = s]
  BY DEF Remove
<1>3. s \in [0..MaxPubs -> Nat] /\ s[0] = 0 BY PubAssumption
<1> HIDE DEF s
<1>4. PubTypeOK'
  <2>1. cell' \in [Cells -> CellRecord] BY <1>2, Empties DEF PubTypeOK
  <2>2. seq' \in [Cells -> Nat] /\ word' \in [Cells -> [1..2 -> Nat]]
    BY <1>2, Empties DEF PubTypeOK
  <2>3. said' \in [Cells -> [0..MaxPubs -> Nat]] BY <1>2, <1>3 DEF PubTypeOK
  <2> QED BY <1>1, <2>1, <2>2, <2>3 DEF PubTypeOK, waiting
<1>5. \A d \in Cells : d # c =>
         cell'[d] = cell[d] /\ seq'[d] = seq[d] /\ word'[d] = word[d] /\ said'[d] = said[d]
  BY <1>2
<1>6. seq'[c] = 0 /\ word'[c] = Zeros /\ said'[c] = s BY <1>2 DEF PubTypeOK
<1>7. \A q \in Writers : pub[q].pc \in Copying => pub[q].cell # c
  BY <1>1 DEF Faults, Holds, Copying, PastOpen
<1>8. Faults' BY <1>1 DEF Faults
<1>9. Holds' BY <1>1, <1>5 DEF Holds
<1>10. Reserves'
  <2> SUFFICES ASSUME NEW q \in Writers, q \in Declared, pub[q].pc \notin {"out", "ended"},
                      ~pub[q].fault
               PROVE  KeptFor(cell'[pub[q].cell], q)
    BY <1>1 DEF Reserves
  <2>1. pub[q].cell \in Cells /\ KeptFor(cell[pub[q].cell], q) BY HasCell DEF Reserves
  <2>2. pub[q].cell # c BY <1>1, <2>1, PubAssumption DEF KeptFor
  <2> QED BY <1>5, <2>1, <2>2
<1>11. Number(c)' = 0 BY <1>6 DEF Number
<1>12. Counts'
  <2> SUFFICES ASSUME NEW d \in Cells
               PROVE  /\ seq'[d] % 2 = 1 <=> \E q \in Writers : pub[q].cell = d /\ pub[q].pc \in Copying
                      /\ (seq'[d] + 1) \div 2 <= MaxPubs
                      /\ said'[d][0] = 0
    BY <1>1 DEF Counts
  <2>1. CASE d = c BY <1>3, <1>6, <1>7, <2>1, PubAssumption
  <2>2. CASE d # c BY <1>5, <2>2 DEF Counts
  <2> QED BY <2>1, <2>2
<1>13. Words'
  <2> SUFFICES ASSUME NEW d \in Cells
               PROVE  /\ (\A q \in Writers : pub[q].cell = d => pub[q].pc \notin {"half", "copied"}) =>
                           \A x \in 1..2 : word'[d][x] = said'[d][Number(d)']
                      /\ \A q \in Writers : pub[q].cell = d =>
                           /\ pub[q].pc = "half" => word'[d][1] = Number(d)' + 1
                           /\ pub[q].pc = "copied" => \A x \in 1..2 : word'[d][x] = Number(d)' + 1
    BY <1>1 DEF Words
  <2>1. CASE d = c
    <3>1. \A x \in 1..2 : Zeros[x] = 0 BY DEF Zeros
    <3> QED BY <1>3, <1>6, <1>7, <1>11, <2>1, <3>1 DEF Copying
  <2>2. CASE d # c BY <1>5, <2>2 DEF Words, Number
  <2> QED BY <2>1, <2>2
<1>14. Views'
  <2>1. ASSUME NEW d \in Cells, Readers(d) # {}
        PROVE  seq'[d] = seq[d] /\ said'[d] = said[d] /\ word'[d] = word[d]
    BY <1>1, <1>5, <2>1
  <2>2. \A d \in Cells : seq[d] \in Nat BY DEF PubTypeOK
  <2>3. UNCHANGED obs /\ seq' \in [Cells -> Nat] BY <1>1, <1>4 DEF PubTypeOK
  <2> QED BY <2>1, <2>2, <2>3, ViewsStand
<1> QED BY <1>4, <1>8, <1>9, <1>10, <1>12, <1>13, <1>14

(***************************************************************************)
(* The theorems.                                                           *)
(***************************************************************************)
LEMMA PubInvInit == PubInit => PubInv
<1> SUFFICES ASSUME PubInit PROVE Agrees BY PubTypesInit DEF PubInv
<1> USE DEF PubInit
<1>1. \A p \in Writers : pub[p].pc = "out" /\ pub[p].cell = NoCell /\ ~pub[p].fault BY DEF Out
<1>2. Faults BY <1>1 DEF Faults, Copying
<1>3. Holds /\ Reserves BY <1>1 DEF Holds, Reserves, PastOpen
<1>4. \A c \in Cells : /\ seq[c] = 0 /\ Number(c) = 0 /\ said[c][0] = 0
                       /\ \A x \in 1..2 : word[c][x] = 0
  BY PubAssumption DEF Number, Zeros
<1>5. Counts BY <1>1, <1>4, PubAssumption DEF Counts, Copying
<1>6. Words BY <1>1, <1>4, PubAssumption DEF Words
<1>7. Views BY PubAssumption DEF Views, View, Away
<1> QED BY <1>2, <1>3, <1>5, <1>6, <1>7 DEF Agrees

LEMMA PubInvStep == ASSUME OutsideCopy, PubInv, [PubNext]_pubVars PROVE PubInv'
<1>1. ASSUME NEW p \in Writers, WriterNext(p) PROVE PubInv'
  BY <1>1, AdmitStep, OpenStep, BeginStep, CopyStep, PublishStep, WakesWaiters, EndsStep, EndedStep,
     ToldStep DEF WriterNext
<1>2. ASSUME NEW o \in Observers, ObserverNext(o) PROVE PubInv' BY <1>2, ObserverStep
<1>3. ASSUME NEW c \in Cells, Remove(c) PROVE PubInv' BY <1>3, RemoveStep
<1>4. CASE UNCHANGED pubVars
  BY <1>4 DEF pubVars, PubInv, PubTypeOK, Agrees, Faults, Holds, Reserves, Counts, Words, Views,
              View, Copied, Number
<1> QED BY <1>1, <1>2, <1>3, <1>4 DEF PubNext

\* As long as no writer is stopped inside its copy, a cell is held from a
\* writer's open to its close, its counter is odd exactly while it is copied,
\* and what an observer has copied is there while the counter has not moved.
THEOREM PubInvHolds == ASSUME OutsideCopy PROVE PubSpec => []PubInv
<1>1. PubInit => PubInv BY PubInvInit
<1>2. PubInv /\ [PubNext]_pubVars => PubInv' BY PubInvStep
<1> QED BY <1>1, <1>2, PTL DEF PubSpec

\* Whatever an observer gets is all from one publication, the one whose number
\* it carries: "The bytes handed back are all from one publication" (pfm.c).
THEOREM SnapshotsWhole == ASSUME OutsideCopy PROVE PubSpec => []SnapshotsAreWhole
<1>1. PubInv => SnapshotsAreWhole
  BY DEF PubInv, Agrees, Views, View, SnapshotsAreWhole, PubTypeOK, ObserverRecord
<1> QED BY <1>1, PubInvHolds, PTL

\* One writer at a cell: whoever is past its open holds it, and a declared cell
\* is kept for its process until that ends: nobody else has it open to write, if
\* its own manifest names the cell or not (pfm.c: pfm_reserve_writer and pfm_open).
THEOREM OneWriterAlways == ASSUME OutsideCopy PROVE PubSpec => []OneWriter
<1>1. ASSUME PubInv, NEW p \in Writers, NEW c \in Cells, pub[p].cell = c
      PROVE  /\ pub[p].pc \in {"open", "copy", "half", "copied"} => cell[c].held /\ cell[c].by = p
             /\ p \in Declared /\ pub[p].pc # "ended" /\ ~pub[p].fault => KeptFor(cell[c], p)
  <2>1. pub[p].pc # "out" BY <1>1, PubAssumption DEF PubInv, Agrees, Faults
  <2> QED BY <1>1, <2>1 DEF PubInv, Agrees, Faults, Holds, Reserves, PastOpen, Copying
<1>2. PubInv => OneWriter BY <1>1 DEF PubInv, OneWriter, KeptFor
<1> QED BY <1>2, PubInvHolds, PTL

(***************************************************************************)
(* Nobody sleeps through a change.                                         *)
(***************************************************************************)

\* A writer is stopped in its wake only where manifests name the cells: the
\* reservation keeps the cell, and its mark of the last writer, until the end
\* of the stopped one is noticed.
WakesEnd ==
  /\ StopsAt \subseteq {"closed", "open", "look", "take"}
  /\ Writers \subseteq Declared \/ StopsAt \subseteq {"closed", "open"}

\* An observer's waiter is its own, and of its cell.
Seat(o) ==
  /\ obs[o].slot # 0 =>
       /\ obs[o].cell # NoCell /\ waiter[obs[o].slot].cell = obs[o].cell
       /\ \A x \in Observers : obs[x].slot = obs[o].slot => x = o
  /\ obs[o].pc \in {"arm", "check", "sleep", "disarm", "last"} => obs[o].slot # 0

Seats == \A o \in Observers : Seat(o)

\* Somebody has taken the arm of waiter i and not given yet.
Giving(i) == \E p \in Writers : pub[p].pc = "give" /\ pub[p].at = i

\* Between the arm and the end of the sleep.
Armed(o) ==
  obs[o].pc \in {"check", "sleep"} =>
    waiter[obs[o].slot].armed \/ sem[obs[o].slot] \/ Giving(obs[o].slot)

\* A stopped writer will wake the watchers of its cell: pfm_ended finds its mark.
Owes(p, c) ==
  /\ p \in Declared /\ pub[p].pc = "ended" /\ pub[p].cell = c /\ Marks(p, c)

Comes(p, c, i) ==
  \/ WillWake(p, c, i) /\ pub[p].pc # "ended"
  \/ Owes(p, c)

\* Asleep on what has moved on.
Owed(o) ==
  obs[o].pc = "sleep" /\ Number(obs[o].cell) # obs[o].seen =>
    \/ sem[obs[o].slot] \/ Giving(obs[o].slot)
    \/ waiter[obs[o].slot].armed /\ \E p \in Writers : Comes(p, obs[o].cell, obs[o].slot)

\* A declared cell is its process's, as the last to write it too.
Kept ==
  \A p \in Declared \cap Writers :
    pub[p].pc # "out" /\ (pub[p].fault => pub[p].pc = "ended") =>
      cell[pub[p].cell].reserved = p /\ cell[pub[p].cell].last = p

\* What is open has no fault.
Sound ==
  \A p \in Writers :
    pub[p].pc \in PastOpen /\ ~pub[p].fault => ~cell[pub[p].cell].fault

Sleeps == \A o \in Observers : Armed(o) /\ Owed(o)

WaitInv == Seats /\ Kept /\ Sound /\ Sleeps

\* A step of one writer leaves observers, other writers and whose waiter is whose.
LEMMA WriterAlone ==
  ASSUME PubTypeOK, NEW p \in Writers, WriterNext(p)
  PROVE  /\ UNCHANGED obs
         /\ \A q \in Writers : q # p => pub'[q] = pub[q]
         /\ \A i \in Waiters : waiter'[i].cell = waiter[i].cell
<1> USE DEF PubTypeOK
<1>1. ASSUME NEW c \in Cells, Admit(p, c)
      PROVE  UNCHANGED <<obs, waiter>> /\ \A q \in Writers : q # p => pub'[q] = pub[q]
  BY <1>1 DEF Admit, waiting
<1>2. CASE OpenWrite(p) \/ Begin(p) \/ CopyFirst(p) \/ CopySecond(p) \/ Publish(p)
  BY <1>2 DEF OpenWrite, Begin, CopyFirst, CopySecond, Publish, waiting
<1>3. CASE Look(p) BY <1>3 DEF Look, Onward, waiting
<1>4. CASE Disarm(p) BY <1>4 DEF Disarm, Onward
<1>5. CASE Give(p) BY <1>5 DEF Give, Onward
<1>6. CASE CloseWrite(p) \/ \E fault \in BOOLEAN : WriterEnds(p, fault)
  BY <1>6 DEF CloseWrite, WriterEnds, waiting
<1>7. CASE Ended(p)
  <2>1. UNCHANGED <<obs, waiter>> BY <1>7 DEF Ended, waiting
  <2>2. \A q \in Writers : q # p => pub'[q] = pub[q]
    <3>1. CASE Marks(p, pub[p].cell) BY <1>7, <3>1 DEF Ended
    <3>2. CASE ~Marks(p, pub[p].cell) BY <1>7, <3>2 DEF Ended
    <3> QED BY <3>1, <3>2
  <2> QED BY <2>1, <2>2
<1>8. CASE Told(p) BY <1>8 DEF Told, waiting
<1> QED BY <1>1, <1>2, <1>3, <1>4, <1>5, <1>6, <1>7, <1>8 DEF WriterNext

\* What a writer's step does to its own record and to the cells.
LEMMA KeptStep ==
  ASSUME PubInv, PubInv', Kept, Sound, NEW p \in Writers, WriterNext(p)
  PROVE  Kept' /\ Sound'
<1> DEFINE c == pub[p].cell
<1>0. PubTypeOK /\ PubTypeOK' /\ Faults /\ Faults' /\ Holds BY DEF PubInv, Agrees
<1>1. \A q \in Writers : q # p => pub'[q] = pub[q] BY <1>0, WriterAlone
<1>2. \A q \in Writers : pub[q].pc # "out" => pub[q].cell \in Cells BY <1>0, HasCell
<1>3. \A q \in Writers : pub'[q] \in WriterRecord BY <1>0 DEF PubTypeOK
\* The others of the same cell keep what they have where the step does not take it.
<1>4. ASSUME \A q \in Writers : q # p /\ pub[q].pc # "out" /\ cell[pub[q].cell].reserved = q
                                 /\ cell[pub[q].cell].last = q =>
               cell'[pub[q].cell].reserved = q /\ cell'[pub[q].cell].last = q,
             \A q \in Writers : q # p /\ pub[q].pc # "out" /\ cell'[pub[q].cell].fault =>
               cell[pub[q].cell].fault,
             p \in Declared /\ pub'[p].pc # "out" /\ (pub'[p].fault => pub'[p].pc = "ended") =>
               cell'[pub'[p].cell].reserved = p /\ cell'[pub'[p].cell].last = p,
             pub'[p].pc \in PastOpen /\ ~pub'[p].fault => ~cell'[pub'[p].cell].fault
      PROVE  Kept' /\ Sound'
  <2>1. Kept'
    <3> SUFFICES ASSUME NEW q \in Declared \cap Writers, pub'[q].pc # "out",
                        pub'[q].fault => pub'[q].pc = "ended"
                 PROVE  cell'[pub'[q].cell].reserved = q /\ cell'[pub'[q].cell].last = q
      BY DEF Kept
    <3> QED BY <1>1, <1>4 DEF Kept
  <2>2. Sound'
    <3> SUFFICES ASSUME NEW q \in Writers, pub'[q].pc \in PastOpen, ~pub'[q].fault
                 PROVE  ~cell'[pub'[q].cell].fault
      BY DEF Sound
    <3>1. CASE q # p
      <4>1. pub[q].pc \in PastOpen /\ ~pub[q].fault /\ pub[q].pc # "out" /\ pub'[q] = pub[q]
        BY <1>1, <3>1 DEF PastOpen
      <4> QED BY <1>4, <3>1, <4>1 DEF Sound
    <3> QED BY <1>4, <3>1
  <2> QED BY <2>1, <2>2
<1>5. CASE UNCHANGED cell /\ pub[p].pc # "out" /\ pub'[p].cell = pub[p].cell
             /\ (pub'[p].pc \in PastOpen /\ ~pub'[p].fault => pub[p].pc \in PastOpen /\ ~pub[p].fault)
             /\ (pub'[p].pc # "out" /\ (pub'[p].fault => pub'[p].pc = "ended") =>
                   (pub[p].fault => pub[p].pc = "ended"))
  <2>1. p \in Declared /\ pub'[p].pc # "out" /\ (pub'[p].fault => pub'[p].pc = "ended") =>
          cell'[pub'[p].cell].reserved = p /\ cell'[pub'[p].cell].last = p
    BY <1>5 DEF Kept
  <2>2. pub'[p].pc \in PastOpen /\ ~pub'[p].fault => ~cell'[pub'[p].cell].fault
    BY <1>5 DEF Sound
  <2> QED BY <1>4, <1>5, <2>1, <2>2
<1>6. ASSUME NEW d \in Cells, Admit(p, d) PROVE Kept' /\ Sound'
  <2>1. pub'[p].pc = "closed" /\ pub'[p].cell = d /\ ~pub'[p].fault
    BY <1>0, <1>6 DEF Admit, PubTypeOK, Out
  <2>2. CASE p \in Declared
    <3>1. /\ Reservable(d, p)
          /\ cell' = [cell EXCEPT ![d].made = TRUE, ![d].reserved = p, ![d].last = p]
      BY <1>6, <2>2 DEF Admit
    <3>2. /\ cell'[d].reserved = p /\ cell'[d].last = p /\ cell'[d].fault = cell[d].fault
          /\ \A e \in Cells : e # d => cell'[e] = cell[e]
      BY <1>0, <1>6, <3>1 DEF PubTypeOK, CellRecord
    <3>3. \A q \in Writers : q # p => q # NoProc BY PubAssumption
    <3>4. \A q \in Writers : q # p => cell[d].reserved # q BY <3>1, <3>3 DEF Reservable
    <3> QED BY <1>2, <1>4, <2>1, <3>2, <3>4 DEF PastOpen
  <2>3. CASE p \notin Declared
    <3>1. UNCHANGED cell BY <1>6, <2>3 DEF Admit
    <3> QED BY <1>4, <2>1, <2>3, <3>1 DEF PastOpen
  <2> QED BY <2>2, <2>3
<1>7. CASE OpenWrite(p)
  <2>1. /\ pub[p].pc = "closed" /\ c \in Cells /\ Writable(c, p)
        /\ cell' = [cell EXCEPT ![c].made = TRUE, ![c].held = TRUE, ![c].by = p, ![c].last = p,
                                ![c].fault = FALSE]
        /\ pub' = [pub EXCEPT ![p].pc = "open"]
    BY <1>2, <1>7 DEF OpenWrite
  <2>2. pub'[p].pc = "open" /\ pub'[p].cell = c /\ pub'[p].fault = pub[p].fault
    BY <1>0, <2>1 DEF PubTypeOK, WriterRecord
  <2>3. /\ cell'[c].last = p /\ cell'[c].fault = FALSE /\ cell'[c].reserved = cell[c].reserved
        /\ \A e \in Cells : e # c => cell'[e] = cell[e]
    BY <1>0, <2>1 DEF PubTypeOK, CellRecord
  <2>4. \A q \in Writers : q # p => cell[c].reserved # q BY <2>1, PubAssumption DEF Writable
  <2>5. p \in Declared => cell[c].reserved = p BY <1>0, <2>1 DEF Kept, Faults
  <2> QED BY <1>2, <1>4, <2>2, <2>3, <2>4, <2>5
<1>8. CASE Begin(p) \/ CopyFirst(p) \/ CopySecond(p) \/ Publish(p)
  BY <1>0, <1>5, <1>8 DEF Begin, CopyFirst, CopySecond, Publish, PubTypeOK, WriterRecord, PastOpen
<1>9. CASE Look(p) \/ Disarm(p) \/ Give(p)
  <2>1. UNCHANGED cell /\ pub[p].pc \in {"look", "take", "give"}
    BY <1>9 DEF Look, Disarm, Give, store
  <2>2. /\ pub'[p].cell = pub[p].cell /\ pub'[p].fault = pub[p].fault
        /\ pub'[p].pc \in {"look", "take", "give", "told", "open"}
    BY <1>0, <1>9 DEF Look, Disarm, Give, Onward, PubTypeOK, WriterRecord
  <2> QED BY <1>5, <2>1, <2>2 DEF PastOpen
<1>10. CASE CloseWrite(p) \/ \E fault \in BOOLEAN : WriterEnds(p, fault)
  <2>1. /\ pub[p].pc # "out" /\ Unlocked
        /\ \/ UNCHANGED cell
           \/ cell' = [cell EXCEPT ![c].held = FALSE, ![c].by = NoProc]
        /\ pub'[p].cell = c /\ pub'[p].pc \in {"closed", "ended"}
    <3>1. CASE CloseWrite(p) BY <1>0, <3>1 DEF CloseWrite, PubTypeOK, WriterRecord
    <3>2. ASSUME NEW fault \in BOOLEAN, WriterEnds(p, fault)
          PROVE  /\ Unlocked
                 /\ \/ UNCHANGED cell
                    \/ cell' = [cell EXCEPT ![c].held = FALSE, ![c].by = NoProc]
                 /\ pub'[p].cell = c /\ pub'[p].pc = "ended"
      BY <1>0, <3>2 DEF WriterEnds, PubTypeOK, WriterRecord
    <3>3. pub[p].pc # "out"
      <4>1. pub'[p].cell = c /\ pub'[p].pc # "out" BY <1>10, <3>1, <3>2, <1>0 DEF CloseWrite, PubTypeOK
      <4> QED BY <1>0, <4>1 DEF Faults
    <3> QED BY <1>10, <3>1, <3>2, <3>3
  <2>2. \A e \in Cells : /\ cell'[e].reserved = cell[e].reserved /\ cell'[e].last = cell[e].last
                         /\ cell'[e].fault = cell[e].fault
    <3>1. \A e \in Cells : cell[e] \in CellRecord BY <1>0 DEF PubTypeOK
    <3>2. CASE UNCHANGED cell BY <3>2
    <3>3. CASE cell' = [cell EXCEPT ![c].held = FALSE, ![c].by = NoProc]
      BY <1>0, <3>1, <3>3 DEF PubTypeOK, CellRecord
    <3> QED BY <2>1, <3>2, <3>3
  <2>3. pub[p].fault => pub[p].pc = "ended" BY <1>0, <2>1, PubAssumption DEF Unlocked, Faults
  <2>4. c \in Cells BY <1>2, <2>1
  <2>5. p \in Declared => cell[c].reserved = p /\ cell[c].last = p BY <2>1, <2>3 DEF Kept
  <2>6. pub'[p].pc \notin PastOpen BY <2>1 DEF PastOpen
  <2> QED BY <1>2, <1>4, <2>1, <2>2, <2>4, <2>5, <2>6
<1>11. CASE Ended(p)
  <2>1. /\ pub[p].pc = "ended" /\ c \in Cells
        /\ cell' = [cell EXCEPT ![c].reserved = IF @ = p THEN NoProc ELSE @,
                                ![c].last = IF @ = p THEN NoProc ELSE @,
                                ![c].fault = @ \/ Marks(p, c)]
    BY <1>2, <1>11 DEF Ended
  <2>2. /\ cell'[c].reserved = IF cell[c].reserved = p THEN NoProc ELSE cell[c].reserved
        /\ cell'[c].last = IF cell[c].last = p THEN NoProc ELSE cell[c].last
        /\ cell'[c].fault = (cell[c].fault \/ Marks(p, c))
        /\ \A e \in Cells : e # c => cell'[e] = cell[e]
    BY ZenonT(40), <1>0, <2>1 DEF PubTypeOK, CellRecord
  <2>3. Marks(p, c) => pub[p].fault /\ ~cell[c].held BY DEF Marks
  <2>4. \/ pub'[p].pc = "out"
        \/ pub'[p].pc = "look" /\ pub'[p].fault
    <3>1. CASE Marks(p, c) BY <1>0, <1>11, <2>3, <3>1 DEF Ended, PubTypeOK, WriterRecord
    <3>2. CASE ~Marks(p, c) BY <1>0, <1>11, <3>2 DEF Ended, PubTypeOK, Out
    <3> QED BY <3>1, <3>2
  <2>5. ASSUME NEW q \in Writers, q # p, pub[q].pc # "out", pub[q].cell = c, q \in Declared,
               cell[c].reserved = q
        PROVE  cell'[c].reserved = q
    BY <2>2, <2>5
  <2>6. \A q \in Writers : q # p /\ pub[q].pc # "out" /\ q \in Declared
                            /\ (pub[q].fault => pub[q].pc = "ended") =>
          cell'[pub[q].cell].reserved = q /\ cell'[pub[q].cell].last = q
    BY <1>2, <2>2 DEF Kept
  <2>7. Kept' BY <1>1, <2>4, <2>6 DEF Kept
  <2>8. ASSUME NEW q \in Writers, pub'[q].pc \in PastOpen, ~pub'[q].fault
        PROVE  ~cell'[pub'[q].cell].fault
    <3>1. q # p /\ pub'[q] = pub[q] BY <1>1, <2>4, <2>8 DEF PastOpen
    <3>2. cell[pub[q].cell].held /\ ~cell[pub[q].cell].fault /\ pub[q].cell \in Cells
      BY <1>0, <2>8, <3>1 DEF Holds, Sound
    <3> QED BY <2>2, <2>3, <3>1, <3>2
  <2> QED BY <2>7, <2>8 DEF Sound
<1>12. CASE Told(p)
  <2>1. UNCHANGED cell /\ pub'[p].pc = "out"
    BY <1>0, <1>12 DEF Told, store, PubTypeOK, Out
  <2> QED BY <1>4, <2>1 DEF PastOpen
<1> QED BY <1>6, <1>7, <1>8, <1>9, <1>10, <1>11, <1>12 DEF WriterNext


\* One that owes a wake goes on owing it: its cell is kept for it.
LEMMA OwesStep ==
  ASSUME PubInv, Kept, NEW p \in Writers, WriterNext(p),
         NEW q \in Writers, q # p, NEW c \in Cells, Owes(q, c)
  PROVE  Owes(q, c)'
<1>0. PubTypeOK /\ Faults /\ Holds BY DEF PubInv, Agrees
<1>1. pub'[q] = pub[q] BY <1>0, WriterAlone
<1>2. /\ q \in Declared /\ pub[q].pc = "ended" /\ pub[q].cell = c /\ pub[q].fault
      /\ cell[c].last = q /\ ~cell[c].held /\ ~cell[c].fault
    BY DEF Owes, Marks
<1>3. cell[c].reserved = q BY <1>2 DEF Kept
<1>4. q # NoProc /\ p # NoProc BY PubAssumption
<1>5. SUFFICES cell'[c].last = q /\ ~cell'[c].held /\ ~cell'[c].fault
  BY <1>1, <1>2 DEF Owes, Marks
<1>6. CASE UNCHANGED cell BY <1>2, <1>6
<1>7. ASSUME NEW d \in Cells, Admit(p, d), ~UNCHANGED cell
      PROVE  cell'[c].last = q /\ ~cell'[c].held /\ ~cell'[c].fault
  <2>1. /\ Reservable(d, p)
        /\ cell' = [cell EXCEPT ![d].made = TRUE, ![d].reserved = p, ![d].last = p]
    BY <1>7 DEF Admit
  <2>2. d # c BY <1>3, <1>4, <2>1 DEF Reservable
  <2>3. cell'[c] = cell[c] BY <1>0, <2>1, <2>2 DEF PubTypeOK
  <2> QED BY <1>2, <2>3
<1>8. CASE OpenWrite(p)
  <2>1. /\ Writable(pub[p].cell, p) /\ pub[p].cell # c
        /\ cell' = [cell EXCEPT ![pub[p].cell].made = TRUE, ![pub[p].cell].held = TRUE,
                                ![pub[p].cell].by = p, ![pub[p].cell].last = p,
                                ![pub[p].cell].fault = FALSE]
    BY <1>3, <1>4, <1>8 DEF OpenWrite, Writable
  <2>2. cell'[c] = cell[c] BY <1>0, <2>1 DEF PubTypeOK
  <2> QED BY <1>2, <2>2
<1>9. CASE /\ ~UNCHANGED cell
           /\ CloseWrite(p) \/ \E fault \in BOOLEAN : WriterEnds(p, fault)
  <2>1. cell' = [cell EXCEPT ![pub[p].cell].held = FALSE, ![pub[p].cell].by = NoProc]
    BY <1>9 DEF CloseWrite, WriterEnds
  <2>2. /\ cell'[c].last = cell[c].last /\ cell'[c].fault = cell[c].fault
        /\ cell'[c].held => cell[c].held
    BY <1>0, <2>1 DEF PubTypeOK, CellRecord
  <2> QED BY <1>2, <2>2
<1>10. CASE Ended(p)
  <2>1. cell' = [cell EXCEPT ![pub[p].cell].reserved = IF @ = p THEN NoProc ELSE @,
                             ![pub[p].cell].last = IF @ = p THEN NoProc ELSE @,
                             ![pub[p].cell].fault = @ \/ Marks(p, pub[p].cell)]
    BY <1>10 DEF Ended
  <2>2. CASE pub[p].cell # c
    <3>1. cell'[c] = cell[c] BY <1>0, <2>1, <2>2 DEF PubTypeOK
    <3> QED BY <1>2, <3>1
  <2>3. CASE pub[p].cell = c
    <3>1. ~Marks(p, c) BY <1>2 DEF Marks
    <3>2. /\ cell'[c].last = cell[c].last /\ cell'[c].held = cell[c].held
          /\ cell'[c].fault = cell[c].fault
      BY <1>0, <1>2, <2>1, <2>3, <3>1 DEF PubTypeOK, CellRecord
    <3> QED BY <1>2, <3>2
  <2> QED BY <2>2, <2>3
<1>11. CASE Begin(p) \/ CopyFirst(p) \/ CopySecond(p) \/ Publish(p) \/ Look(p) \/ Disarm(p)
              \/ Give(p) \/ Told(p)
  BY <1>6, <1>11 DEF Begin, CopyFirst, CopySecond, Publish, Look, Disarm, Give, Told, store
<1> QED BY <1>6, <1>7, <1>8, <1>9, <1>10, <1>11 DEF WriterNext

\* What has been given, or is being given, stays for the observer to find; an
\* arm goes only to be given.
LEMMA SignalStays ==
  ASSUME PubInv, WakesEnd, NEW p \in Writers, WriterNext(p), NEW i \in Waiters
  PROVE  /\ sem[i] \/ Giving(i) => sem'[i] \/ Giving(i)'
         /\ waiter[i].armed => waiter'[i].armed \/ Giving(i)'
<1>0. PubTypeOK BY DEF PubInv
<1>1. \A q \in Writers : q # p => pub'[q] = pub[q] BY <1>0, WriterAlone
<1>2. ASSUME pub[p].pc # "give" PROVE Giving(i) => Giving(i)'
  BY <1>1, <1>2 DEF Giving
<1>3. CASE Disarm(p)
  <2>1. UNCHANGED sem /\ pub[p].pc = "take" BY <1>3 DEF Disarm
  <2>2. ASSUME waiter[i].armed, ~waiter'[i].armed PROVE Giving(i)'
    <3>1. pub[p].at = i /\ pub' = [pub EXCEPT ![p].pc = "give"]
      BY <1>0, <1>3, <2>2 DEF Disarm, PubTypeOK
    <3>2. pub'[p].pc = "give" /\ pub'[p].at = i BY <1>0, <3>1 DEF PubTypeOK, WriterRecord
    <3> QED BY <3>2 DEF Giving
  <2> QED BY <1>2, <2>1, <2>2
<1>4. CASE Give(p)
  <2>1. UNCHANGED waiter /\ sem' = [sem EXCEPT ![pub[p].at] = TRUE] BY <1>4 DEF Give
  <2>2. CASE pub[p].at = i BY <1>0, <2>1, <2>2 DEF PubTypeOK
  <2>3. CASE pub[p].at # i
    <3>1. Giving(i) => Giving(i)' BY <1>1, <2>3 DEF Giving
    <3>2. sem'[i] = sem[i] BY <1>0, <2>1, <2>3 DEF PubTypeOK
    <3> QED BY <2>1, <3>1, <3>2
  <2> QED BY <2>2, <2>3
<1>5. CASE UNCHANGED waiting /\ pub[p].pc # "give" BY <1>2, <1>5 DEF waiting
<1>6. ASSUME NEW c \in Cells, Admit(p, c) PROVE UNCHANGED waiting /\ pub[p].pc # "give"
  BY <1>6 DEF Admit
<1>7. CASE OpenWrite(p) \/ Begin(p) \/ CopyFirst(p) \/ CopySecond(p) \/ Publish(p)
             \/ CloseWrite(p) \/ Ended(p) \/ Told(p) \/ Look(p)
  BY <1>5, <1>7
     DEF OpenWrite, Begin, CopyFirst, CopySecond, Publish, CloseWrite, Ended, Told, Look
<1>8. ASSUME NEW fault \in BOOLEAN, WriterEnds(p, fault)
      PROVE  UNCHANGED waiting /\ pub[p].pc # "give"
  BY <1>8 DEF WriterEnds, WakesEnd
<1> QED BY <1>3, <1>4, <1>5, <1>6, <1>7, <1>8 DEF WriterNext

\* Who is to come past an armed waiter comes, or has taken its arm.
LEMMA ComesStays ==
  ASSUME PubInv, WakesEnd, Kept, Sound, NEW p \in Writers, WriterNext(p),
         NEW c \in Cells, NEW i \in Waiters, waiter[i].cell = c, waiter[i].armed,
         NEW q \in Writers, Comes(q, c, i)
  PROVE  Giving(i)' \/ Comes(q, c, i)'
<1>0. PubTypeOK /\ Faults BY DEF PubInv, Agrees
<1>1. CASE q # p
  <2>1. pub'[q] = pub[q] BY <1>0, <1>1, WriterAlone
  <2>2. CASE Owes(q, c) BY <1>1, <2>2, OwesStep DEF Comes
  <2>3. CASE WillWake(q, c, i) /\ pub[q].pc # "ended"
    <3>1. WillWake(q, c, i)' /\ pub'[q].pc # "ended" BY <2>1, <2>3 DEF WillWake
    <3> QED BY <3>1 DEF Comes
  <2> QED BY <2>2, <2>3 DEF Comes
<1>2. CASE q = p
  <2>1. /\ pub[p] \in WriterRecord /\ pub[p].cell = c /\ i \in 1..NWaiters /\ pub[p].at \in Nat
        /\ \/ pub[p].pc \in {"look", "take"} /\ pub[p].at <= i
           \/ pub[p].pc = "give" /\ pub[p].at < i
           \/ pub[p].pc = "ended" /\ Owes(p, c)
    BY <1>0, <1>2 DEF Comes, WillWake, Owes, PubTypeOK, WriterRecord, Waiters
  \* Going on past an earlier waiter.
  <2>2. ASSUME pub' = Onward(p), pub[p].at < i, pub[p].pc # "ended" PROVE Comes(p, c, i)'
    <3>1. pub'[p].cell = c /\ pub'[p].pc = "look" /\ pub'[p].at = pub[p].at + 1
      BY <1>0, <2>1, <2>2, PubAssumption DEF Onward, PubTypeOK, WriterRecord
    <3>2. pub'[p].at <= i BY <2>1, <2>2, <3>1
    <3> QED BY <3>1, <3>2 DEF Comes, WillWake
  <2>3. CASE Look(p)
    <3>1. CASE waiter[pub[p].at].cell = c
      <4>1. pub'[p].cell = c /\ pub'[p].pc = "take" /\ pub'[p].at = pub[p].at
        BY <1>0, <2>1, <2>3, <3>1 DEF Look, PubTypeOK, WriterRecord
      <4>2. pub'[p].at <= i BY <2>1, <2>3, <4>1 DEF Look
      <4> QED BY <1>2, <4>1, <4>2 DEF Comes, WillWake
    <3>2. CASE waiter[pub[p].at].cell # c
      <4>1. pub[p].pc = "look" /\ pub[p].at <= i BY <2>1, <2>3 DEF Look
      <4>2. pub[p].at # i BY <3>2
      <4>3. pub[p].at < i BY <2>1, <4>1, <4>2
      <4> QED BY <1>2, <2>1, <2>2, <2>3, <3>2, <4>1, <4>3 DEF Look
    <3> QED BY <3>1, <3>2
  <2>4. CASE Disarm(p)
    <3>1. pub[p].pc = "take" /\ pub[p].at <= i BY <2>1, <2>4 DEF Disarm
    <3>2. CASE waiter[pub[p].at].armed
      <4>1. pub'[p].cell = c /\ pub'[p].pc = "give" /\ pub'[p].at = pub[p].at
        BY <1>0, <2>1, <2>4, <3>2 DEF Disarm, PubTypeOK, WriterRecord
      <4>2. pub'[p].at = i \/ pub'[p].at < i BY <2>1, <3>1, <4>1
      <4> QED BY <1>2, <4>1, <4>2 DEF Giving, Comes, WillWake
    <3>3. CASE ~waiter[pub[p].at].armed
      <4>1. pub[p].at # i BY <3>3
      <4>2. pub[p].at < i BY <2>1, <3>1, <4>1
      <4> QED BY <1>2, <2>2, <2>4, <3>1, <3>3, <4>2 DEF Disarm
    <3> QED BY <3>2, <3>3
  <2>5. CASE Give(p)
    <3>1. pub[p].pc = "give" /\ pub[p].at < i BY <2>1, <2>5 DEF Give
    <3> QED BY <1>2, <2>2, <2>5, <3>1 DEF Give
  <2>6. ASSUME NEW fault \in BOOLEAN, WriterEnds(p, fault) PROVE Comes(p, c, i)'
    <3>1. /\ pub[p].pc \in {"look", "take"} /\ fault = TRUE /\ Unlocked
          /\ p \in Declared
      BY <2>1, <2>6 DEF WriterEnds, WakesEnd
    <3>2. ~pub[p].fault BY <1>0, <3>1, PubAssumption DEF Unlocked, Faults
    <3>3. cell[c].last = p /\ ~cell[c].fault BY <2>1, <3>1, <3>2 DEF Kept, Sound, PastOpen
    <3>4. cell' = [cell EXCEPT ![c].held = FALSE, ![c].by = NoProc]
      BY <2>1, <2>6, <3>1 DEF WriterEnds
    <3>5. cell'[c].last = p /\ ~cell'[c].fault /\ ~cell'[c].held
      BY <1>0, <3>3, <3>4 DEF PubTypeOK, CellRecord
    <3>6. pub'[p].pc = "ended" /\ pub'[p].fault /\ pub'[p].cell = c
      BY <1>0, <2>1, <2>6, <3>1 DEF WriterEnds, PubTypeOK, WriterRecord
    <3> QED BY <3>1, <3>5, <3>6 DEF Comes, Owes, Marks
  <2>7. CASE Ended(p)
    <3>1. Marks(p, c) BY <2>1, <2>7 DEF Ended, Owes
    <3>2. pub' = [pub EXCEPT ![p].pc = "look", ![p].at = 1] BY <2>1, <2>7, <3>1 DEF Ended
    <3>3. pub'[p].pc = "look" /\ pub'[p].at = 1 /\ pub'[p].cell = c
      BY <1>0, <2>1, <3>2 DEF PubTypeOK, WriterRecord
    <3> QED BY <1>2, <2>1, <3>3 DEF Comes, WillWake
  <2>8. pub[p].pc \in {"look", "take", "give", "ended"} BY <2>1
  <2>9. ~(\E d \in Cells : Admit(p, d)) BY <2>8 DEF Admit
  <2>10. ~(OpenWrite(p) \/ Begin(p) \/ CopyFirst(p) \/ CopySecond(p) \/ Publish(p)
             \/ CloseWrite(p) \/ Told(p))
    BY <2>8 DEF OpenWrite, Begin, CopyFirst, CopySecond, Publish, CloseWrite, Told
  <2> QED BY <1>2, <2>3, <2>4, <2>5, <2>6, <2>7, <2>9, <2>10 DEF WriterNext
<1> QED BY <1>1, <1>2

\* The number of a cell moves only where its writer goes on to wake everybody.
LEMMA NumberMoves ==
  ASSUME PubInv, NEW p \in Writers, WriterNext(p), NEW c \in Cells, NEW i \in Waiters,
         Number(c)' # Number(c)
  PROVE  WillWake(p, c, i)' /\ pub'[p].pc # "ended"
<1>0. PubTypeOK BY DEF PubInv
<1>1. seq'[c] # seq[c] /\ i \in Nat /\ 1 <= i BY DEF Number, Waiters
<1>2. CASE pub[p].pc = "open" /\ Begin(p)
  <2>1. /\ pub[p].cell \in Cells /\ seq[pub[p].cell] \in Nat /\ seq[pub[p].cell] % 2 = 0
    BY <1>2, Alone
  <2>2. seq' = [seq EXCEPT ![pub[p].cell] = @ + 1] BY <1>2 DEF Begin
  <2>3. seq'[c] = seq[c] + 1 /\ seq[c] \in Nat /\ seq[c] % 2 = 0
    BY <1>0, <1>1, <2>1, <2>2 DEF PubTypeOK
  <2>4. (seq[c] + 1) \div 2 = seq[c] \div 2 BY <2>3
  <2> QED BY <2>3, <2>4 DEF Number
<1>3. CASE Publish(p) \/ (Ended(p) /\ Marks(p, pub[p].cell))
  <2>1. pub' = [pub EXCEPT ![p].pc = "look", ![p].at = 1]
    BY <1>3 DEF Publish, Ended
  <2>2. \E k \in Nat : seq' = [seq EXCEPT ![pub[p].cell] = @ + k] BY <1>3 DEF Publish, Ended
  <2>3. pub[p].cell = c BY <1>0, <1>1, <2>2 DEF PubTypeOK
  <2>4. pub'[p].pc = "look" /\ pub'[p].at = 1 /\ pub'[p].cell = c
    BY <1>0, <2>1, <2>3 DEF PubTypeOK, WriterRecord
  <2> QED BY <1>1, <2>4 DEF WillWake
<1>4. ~UNCHANGED seq BY <1>1
<1>5. \/ \E d \in Cells : Admit(p, d)
      \/ OpenWrite(p) \/ CopyFirst(p) \/ CopySecond(p) \/ Look(p) \/ Disarm(p) \/ Give(p)
      \/ CloseWrite(p) \/ (\E fault \in BOOLEAN : WriterEnds(p, fault)) \/ Told(p)
      \/ (Ended(p) /\ ~Marks(p, pub[p].cell))
      => UNCHANGED seq
  BY DEF Admit, OpenWrite, CopyFirst, CopySecond, Look, Disarm, Give, CloseWrite, WriterEnds, Told,
         Ended, store
<1>6. Begin(p) => pub[p].pc = "open" BY DEF Begin
<1> QED BY <1>2, <1>3, <1>4, <1>5, <1>6 DEF WriterNext

\* A writer's step, for one observer.
LEMMA SleepsOn ==
  ASSUME PubInv, WakesEnd, Seats, Kept, Sound, Sleeps, NEW p \in Writers, WriterNext(p),
         NEW o \in Observers
  PROVE  (Armed(o) /\ Owed(o))'
<1>0. PubTypeOK BY DEF PubInv
<1>1. obs'[o] = obs[o] BY <1>0, WriterAlone
<1>8. PICK i : i = obs[o].slot OBVIOUS
<1>9. PICK c : c = obs[o].cell OBVIOUS
<1>2. SUFFICES ASSUME obs[o].pc \in {"check", "sleep"} PROVE (Armed(o) /\ Owed(o))'
  BY <1>1 DEF Armed, Owed
<1>3. i \in Waiters /\ c \in Cells /\ waiter[i].cell = c
  <2>1. obs[o].slot # 0 /\ c # NoCell /\ waiter[i].cell = c BY <1>2, <1>8, <1>9 DEF Seats, Seat
  <2>2. obs[o].slot \in 0..NWaiters /\ c \in Cells \cup {NoCell}
    BY <1>0, <1>9 DEF PubTypeOK, ObserverRecord
  <2> QED BY <1>8, <1>9, <2>1, <2>2, PubAssumption DEF Waiters
<1>4. Armed(o) /\ Owed(o) BY DEF Sleeps
<1>5. waiter'[i].armed \/ sem'[i] \/ Giving(i)' BY <1>2, <1>3, <1>4, <1>8, SignalStays DEF Armed
<1>6. Armed(o)' BY <1>1, <1>5, <1>8 DEF Armed
<1>7. Owed(o)'
  <2>1. SUFFICES ASSUME obs[o].pc = "sleep", Number(c)' # obs[o].seen
                 PROVE  \/ sem'[i] \/ Giving(i)'
                        \/ waiter'[i].armed /\ \E q \in Writers : Comes(q, c, i)'
    BY <1>1, <1>8, <1>9 DEF Owed, Number
  <2>2. CASE Number(c)' # Number(c)
    <3>1. Comes(p, c, i)' BY <1>3, <2>2, NumberMoves DEF Comes
    <3> QED BY <1>5, <3>1
  <2>3. CASE Number(c)' = Number(c)
    <3>1. CASE sem[i] \/ Giving(i) BY <1>3, <3>1, SignalStays
    <3>2. ASSUME waiter[i].armed, NEW q \in Writers, Comes(q, c, i)
          PROVE  Giving(i)' \/ Comes(q, c, i)' BY <1>3, <3>2, ComesStays
    <3> QED BY <1>4, <1>5, <1>8, <1>9, <2>1, <2>3, <3>1, <3>2 DEF Owed
  <2> QED BY <2>2, <2>3
<1> QED BY <1>6, <1>7

LEMMA WriterWakes ==
  ASSUME PubInv, PubInv', WakesEnd, WaitInv, NEW p \in Writers, WriterNext(p)
  PROVE  WaitInv'
<1> USE DEF WaitInv
<1>0. PubTypeOK BY DEF PubInv
<1>1. Kept' /\ Sound' BY KeptStep
<1>2. Sleeps'
  <2>1. \A o \in Observers : Armed(o)' /\ Owed(o)' BY SleepsOn
  <2> QED BY <2>1 DEF Sleeps
<1>3. Seats'
  <2>1. \A o \in Observers : obs[o].slot # 0 => obs[o].slot \in Waiters
    BY <1>0, PubAssumption DEF PubTypeOK, ObserverRecord, Waiters
  <2>2. UNCHANGED obs /\ \A i \in Waiters : waiter'[i].cell = waiter[i].cell
    BY <1>0, WriterAlone
  <2> QED BY <2>1, <2>2 DEF Seats, Seat
<1> QED BY <1>1, <1>2, <1>3

(***************************************************************************)
(* An observer's step is of its own waiter.                                *)
(***************************************************************************)
LEMMA Sits ==
  ASSUME PubTypeOK, WaitInv, NEW o \in Observers, UNCHANGED <<cell, seq, pub>>,
         \A x \in Observers \ {o} :
           /\ obs'[x] = obs[x]
           /\ obs[x].slot # 0 =>
                /\ waiter'[obs[x].slot] = waiter[obs[x].slot] /\ sem'[obs[x].slot] = sem[obs[x].slot]
                /\ obs'[o].slot # obs[x].slot,
         obs'[o].slot # 0 => obs'[o].cell # NoCell /\ waiter'[obs'[o].slot].cell = obs'[o].cell,
         obs'[o].pc \in {"arm", "check", "sleep", "disarm", "last"} => obs'[o].slot # 0,
         Armed(o)', Owed(o)'
  PROVE  WaitInv'
<1> USE DEF WaitInv
<1>0. UNCHANGED <<cell, seq, pub>> OBVIOUS
<1>1. Kept' /\ Sound' BY <1>0 DEF Kept, Sound
<1>2. \A i \in Waiters : Giving(i)' = Giving(i) BY <1>0 DEF Giving
<1>3. \A q \in Writers, c \in Cells, i \in Waiters : Comes(q, c, i) => Comes(q, c, i)'
  BY <1>0 DEF Comes, WillWake, Owes, Marks
<1>4. ASSUME NEW x \in Observers \ {o} PROVE Seat(x)' /\ Armed(x)' /\ Owed(x)'
  <2>1. Seat(x) /\ Armed(x) /\ Owed(x) /\ obs'[x] = obs[x] BY DEF Seats, Sleeps
  <2>2. Seat(x)' BY <2>1 DEF Seat
  <2>3. ASSUME obs[x].pc \in {"check", "sleep"}
        PROVE  /\ obs[x].slot \in Waiters /\ obs[x].cell \in Cells
               /\ waiter'[obs[x].slot] = waiter[obs[x].slot]
               /\ sem'[obs[x].slot] = sem[obs[x].slot]
    <3>1. obs[x].slot # 0 /\ obs[x].cell # NoCell BY <2>1, <2>3 DEF Seat
    <3>2. obs[x].slot \in 0..NWaiters /\ obs[x].cell \in Cells \cup {NoCell}
      BY DEF PubTypeOK, ObserverRecord
    <3> QED BY <3>1, <3>2, PubAssumption DEF Waiters
  <2>4. Armed(x)' BY <1>2, <2>1, <2>3 DEF Armed
  <2>5. Owed(x)'
    <3>1. SUFFICES ASSUME obs[x].pc = "sleep", Number(obs[x].cell) # obs[x].seen
                   PROVE  \/ sem'[obs[x].slot] \/ Giving(obs[x].slot)'
                          \/ /\ waiter'[obs[x].slot].armed
                             /\ \E q \in Writers : Comes(q, obs[x].cell, obs[x].slot)'
      BY <1>0, <2>1 DEF Owed, Number
    <3> QED BY <1>2, <1>3, <2>1, <2>3, <3>1 DEF Owed
  <2> QED BY <2>2, <2>4, <2>5
<1>5. Seat(o)'
  <2>1. ASSUME obs'[o].slot # 0, NEW x \in Observers, obs'[x].slot = obs'[o].slot PROVE x = o
    BY <2>1
  <2> QED BY <2>1 DEF Seat
<1>6. Seats' /\ Sleeps' BY <1>4, <1>5 DEF Seats, Sleeps
<1> QED BY <1>1, <1>6

LEMMA ObserverSits ==
  ASSUME PubInv, PubInv', WaitInv, NEW o \in Observers, ObserverNext(o)
  PROVE  WaitInv'
<1> USE DEF WaitInv
<1> DEFINE v == obs[o]
           c == obs[o].cell
<1>0. PubTypeOK /\ Views BY DEF PubInv, Agrees
<1>1. Seat(o) /\ Armed(o) /\ Owed(o) /\ \A x \in Observers : Seat(x) BY DEF Seats, Sleeps
<1>2. v \in ObserverRecord /\ \A x \in Observers : obs[x] \in ObserverRecord
  BY <1>0 DEF PubTypeOK
<1>3. \A x \in Observers \ {o} : obs[x].slot # 0 => obs[o].slot # obs[x].slot
  BY <1>1 DEF Seat
\* With the waiters of others as they are, and not asleep.
<1>4. ASSUME obs'[o].cell = c, obs'[o].slot = v.slot, obs'[o].pc \notin {"check", "sleep"},
             \A x \in Observers \ {o} : obs'[x] = obs[x],
             obs'[o].pc \in {"arm", "disarm", "last"} => v.slot # 0,
             UNCHANGED <<cell, seq, pub, waiter>>,
             \A i \in Waiters : i # v.slot => sem'[i] = sem[i]
      PROVE  WaitInv'
  <2>1. \A x \in Observers : obs[x].slot # 0 => obs[x].slot \in Waiters
    BY <1>2, PubAssumption DEF ObserverRecord, Waiters
  <2>2. Armed(o)' /\ Owed(o)' BY <1>4 DEF Armed, Owed
  <2>3. \A x \in Observers \ {o} : obs[x].slot # 0 => sem'[obs[x].slot] = sem[obs[x].slot]
    BY <1>3, <1>4, <2>1
  <2>4. obs'[o].slot # 0 => obs'[o].cell # NoCell /\ waiter'[obs'[o].slot].cell = obs'[o].cell
    BY <1>1, <1>4 DEF Seat
  <2> QED BY <1>0, <1>3, <1>4, <2>2, <2>3, <2>4, Sits
<1>5. ASSUME NEW d \in Cells, OpenRead(o, d) PROVE WaitInv'
  <2> DEFINE r == [Away EXCEPT !.pc = "idle", !.cell = d]
  <2>1. obs' = [obs EXCEPT ![o] = r] /\ UNCHANGED <<store, waiting, keeper, pub>>
    BY <1>5 DEF OpenRead
  <2>2. r.slot = 0 /\ r.pc = "idle" BY DEF Away
  <2>3. obs'[o] = r /\ \A x \in Observers \ {o} : obs'[x] = obs[x] BY <1>0, <2>1 DEF PubTypeOK
  <2>4. Armed(o)' /\ Owed(o)' BY <2>2, <2>3 DEF Armed, Owed
  <2> QED BY <1>0, <2>1, <2>2, <2>3, <2>4, Sits DEF waiting, store
<1>6. CASE CloseRead(o)
  <2>1. /\ UNCHANGED <<cell, seq, pub, sem>> /\ obs' = [obs EXCEPT ![o] = Away]
        /\ waiter' = [i \in Waiters |-> IF i = v.slot THEN [cell |-> NoCell, armed |-> FALSE]
                                        ELSE waiter[i]]
    BY <1>6 DEF CloseRead, store
  <2>2. Away.slot = 0 /\ Away.pc = "away" BY DEF Away
  <2>3. obs'[o] = Away /\ \A x \in Observers \ {o} : obs'[x] = obs[x]
    BY <1>0, <2>1 DEF PubTypeOK
  <2>4. \A x \in Observers : obs[x].slot # 0 => obs[x].slot \in Waiters
    BY <1>2, PubAssumption DEF ObserverRecord, Waiters
  <2>5. \A x \in Observers \ {o} : obs[x].slot # 0 =>
          waiter'[obs[x].slot] = waiter[obs[x].slot] /\ sem'[obs[x].slot] = sem[obs[x].slot]
    BY <1>3, <2>1, <2>4
  <2>6. Armed(o)' /\ Owed(o)' BY <2>2, <2>3 DEF Armed, Owed
  <2> QED BY <1>0, <2>1, <2>2, <2>3, <2>5, <2>6, Sits
<1>7. /\ v.slot \in 0..NWaiters
      /\ v.pc # "away" => c \in Cells
  BY <1>0, <1>2 DEF Views, View, ObserverRecord
\* Copying, and moving on while the waiters stand.
<1>8. CASE Read(o) \/ ReadBefore(o) \/ ReadFirst(o) \/ ReadSecond(o) \/ ReadAfter(o)
  <2>1. \A x \in Observers \ {o} : obs'[x] = obs[x]
    BY <1>0, <1>8 DEF Read, ReadBefore, ReadFirst, ReadSecond, ReadAfter, Again, PubTypeOK
  <2>2. /\ obs'[o].cell = c /\ obs'[o].slot = v.slot
        /\ obs'[o].pc \in {"before", "first", "second", "after", "idle"}
    <3>1. CASE Read(o) BY <1>0, <1>2, <3>1 DEF Read, PubTypeOK, ObserverRecord
    <3>2. CASE ReadBefore(o)
      BY <1>0, <1>2, <3>2 DEF ReadBefore, Again, PubTypeOK, ObserverRecord
    <3>3. CASE ReadFirst(o) BY <1>0, <1>2, <3>3 DEF ReadFirst, PubTypeOK, ObserverRecord
    <3>4. CASE ReadSecond(o) BY <1>0, <1>2, <3>4 DEF ReadSecond, PubTypeOK, ObserverRecord
    <3>5. CASE ReadAfter(o)
      BY <1>0, <1>2, <3>5 DEF ReadAfter, Again, PubTypeOK, ObserverRecord
    <3> QED BY <1>8, <3>1, <3>2, <3>3, <3>4, <3>5
  <2>3. UNCHANGED <<cell, seq, pub, waiter, sem>>
    BY <1>8 DEF Read, ReadBefore, ReadFirst, ReadSecond, ReadAfter, store, waiting
  <2> QED BY <1>4, <2>1, <2>2, <2>3
<1>9. CASE Wait(o) \/ LastLook(o) \/ TimedOut(o)
  <2>1. \A x \in Observers \ {o} : obs'[x] = obs[x]
    BY <1>0, <1>9 DEF Wait, LastLook, TimedOut, Sees, PubTypeOK
  <2>2. /\ obs'[o].cell = c /\ obs'[o].slot = v.slot
        /\ obs'[o].pc \in {"idle", "slot", "arm", "disarm"}
        /\ obs'[o].pc \in {"arm", "disarm"} => v.slot # 0
    <3>1. CASE Wait(o) BY <1>0, <1>2, <3>1 DEF Wait, Sees, PubTypeOK, ObserverRecord
    <3>2. CASE LastLook(o) BY <1>0, <1>2, <3>2 DEF LastLook, Sees, PubTypeOK, ObserverRecord
    <3>3. CASE TimedOut(o) BY <1>0, <1>1, <1>2, <3>3 DEF TimedOut, Seat, PubTypeOK, ObserverRecord
    <3> QED BY <1>9, <3>1, <3>2, <3>3
  <2>3. UNCHANGED <<cell, seq, pub, waiter, sem>>
    BY <1>9 DEF Wait, LastLook, TimedOut, store, waiting
  <2> QED BY <1>4, <2>1, <2>2, <2>3
\* The waiter itself: taken, armed, looked past, woken, disarmed.
<1>10. CASE ClaimSlot(o)
  <2> DEFINE free == {i \in Waiters : waiter[i].cell = NoCell}
  <2>1. CASE free = {}
    <3>1. /\ obs'[o].cell = c /\ obs'[o].slot = v.slot /\ obs'[o].pc = "idle"
          /\ \A x \in Observers \ {o} : obs'[x] = obs[x]
      BY <1>0, <1>2, <1>10, <2>1 DEF ClaimSlot, PubTypeOK, ObserverRecord
    <3>2. UNCHANGED <<cell, seq, pub, waiter, sem>>
      BY <1>10, <2>1 DEF ClaimSlot, store, waiting
    <3> QED BY <1>4, <3>1, <3>2
  <2>2. CASE free # {}
    <3>1. PICK i \in free :
            /\ waiter' = [waiter EXCEPT ![i] = [cell |-> c, armed |-> FALSE]]
            /\ sem' = [sem EXCEPT ![i] = FALSE]
            /\ obs' = [obs EXCEPT ![o].pc = "arm", ![o].slot = i]
      <4> HIDE DEF free
      <4>0. free \in SUBSET Nat BY DEF free, Waiters
      <4>1. \E i \in free : \A j \in free : i <= j BY <2>2, <4>0, LowestNumber
      <4> QED BY <1>10, <2>2, <4>1 DEF ClaimSlot, free
    <3>2. i \in Waiters /\ waiter[i].cell = NoCell /\ i # 0 BY DEF Waiters
    <3>3. c \in Cells /\ c # NoCell BY <1>7, <1>10, PubAssumption DEF ClaimSlot
    <3>4. /\ obs'[o].pc = "arm" /\ obs'[o].slot = i /\ obs'[o].cell = c
          /\ \A x \in Observers \ {o} : obs'[x] = obs[x]
      BY <1>0, <1>2, <3>1 DEF PubTypeOK, ObserverRecord
    <3>5. \A x \in Observers \ {o} : obs[x].slot # 0 =>
             obs[x].slot # i /\ obs[x].slot \in Waiters
      BY <1>1, <1>2, <3>2, PubAssumption DEF Seat, ObserverRecord, Waiters
    <3>6. /\ waiter'[i].cell = c
          /\ \A j \in Waiters : j # i => waiter'[j] = waiter[j] /\ sem'[j] = sem[j]
      BY <1>0, <3>1, <3>2 DEF PubTypeOK
    <3>7. Armed(o)' /\ Owed(o)' BY <3>4 DEF Armed, Owed
    <3>8. UNCHANGED <<cell, seq, pub>> BY <1>10 DEF ClaimSlot, store
    <3> QED BY <1>0, <3>2, <3>3, <3>4, <3>5, <3>6, <3>7, <3>8, Sits
  <2> QED BY <2>1, <2>2
<1>11. CASE Arm(o) \/ LeaveWait(o)
  <2>1. PICK b \in BOOLEAN, pc \in {"check", "last"} :
          /\ waiter' = [waiter EXCEPT ![v.slot].armed = b] /\ obs' = [obs EXCEPT ![o].pc = pc]
          /\ pc = "check" => b = TRUE
    BY <1>11 DEF Arm, LeaveWait
  <2>2. v.slot # 0 /\ v.slot \in Waiters /\ UNCHANGED <<cell, seq, pub, sem>>
    BY <1>1, <1>7, <1>11, PubAssumption DEF Seat, Arm, LeaveWait, store, Waiters
  <2>3. /\ obs'[o].pc = pc /\ obs'[o].cell = c /\ obs'[o].slot = v.slot
        /\ \A x \in Observers \ {o} : obs'[x] = obs[x]
    BY <1>0, <1>2, <2>1 DEF PubTypeOK, ObserverRecord
  <2>4. /\ waiter'[v.slot].cell = waiter[v.slot].cell /\ waiter'[v.slot].armed = b
        /\ \A j \in Waiters : j # v.slot => waiter'[j] = waiter[j]
    BY <1>0, <2>1, <2>2 DEF PubTypeOK
  <2>5. Armed(o)' /\ Owed(o)' BY <2>1, <2>3, <2>4 DEF Armed, Owed
  <2>6. \A x \in Observers \ {o} : obs[x].slot # 0 =>
          waiter'[obs[x].slot] = waiter[obs[x].slot] /\ obs[x].slot # v.slot
    BY <1>2, <1>3, <2>4, PubAssumption DEF ObserverRecord, Waiters
  <2>7. c # NoCell /\ waiter'[v.slot].cell = c BY <1>1, <2>2, <2>4 DEF Seat
  <2> QED BY <1>0, <2>2, <2>3, <2>5, <2>6, <2>7, Sits
<1>12. CASE Check(o)
  <2>1. v.pc = "check" /\ v.slot # 0 /\ UNCHANGED <<store, waiting, pub>>
    BY <1>1, <1>12 DEF Check, Seat
  <2>2. CASE Number(c) # v.seen
    <3>1. /\ obs'[o].cell = c /\ obs'[o].slot = v.slot /\ obs'[o].pc = "disarm"
          /\ \A x \in Observers \ {o} : obs'[x] = obs[x]
      BY <1>0, <1>2, <1>12, <2>2 DEF Check, PubTypeOK, ObserverRecord
    <3>2. UNCHANGED <<cell, seq, pub, waiter, sem>> BY <2>1 DEF store, waiting
    <3> QED BY <1>4, <2>1, <3>1, <3>2
  <2>3. CASE Number(c) = v.seen
    <3>1. /\ obs'[o].pc = "sleep" /\ obs'[o].cell = c /\ obs'[o].slot = v.slot
          /\ obs'[o].seen = v.seen /\ \A x \in Observers \ {o} : obs'[x] = obs[x]
      BY <1>0, <1>2, <1>12, <2>3 DEF Check, PubTypeOK, ObserverRecord
    <3>2. UNCHANGED <<cell, seq, pub, waiter, sem>> BY <2>1 DEF store, waiting
    <3>3. Armed(o)' BY <1>1, <2>1, <3>1, <3>2 DEF Armed, Giving
    <3>4. Owed(o)' BY <2>3, <3>1, <3>2 DEF Owed, Number
    <3>5. c # NoCell /\ waiter'[v.slot].cell = c BY <1>1, <2>1, <3>2 DEF Seat
    <3> QED BY <1>0, <1>3, <2>1, <3>1, <3>2, <3>3, <3>4, <3>5, Sits
  <2> QED BY <2>2, <2>3
<1>13. CASE Woken(o)
  <2>1. /\ obs'[o].cell = c /\ obs'[o].slot = v.slot /\ obs'[o].pc = "arm"
        /\ \A x \in Observers \ {o} : obs'[x] = obs[x]
    BY <1>0, <1>2, <1>13 DEF Woken, PubTypeOK, ObserverRecord
  <2>2. v.slot # 0 /\ UNCHANGED <<cell, seq, pub, waiter>>
    BY <1>1, <1>13 DEF Woken, Seat, store
  <2>3. \A i \in Waiters : i # v.slot => sem'[i] = sem[i] BY <1>0, <1>13 DEF Woken, PubTypeOK
  <2> QED BY <1>4, <2>1, <2>2, <2>3
<1> QED BY <1>5, <1>6, <1>8, <1>9, <1>10, <1>11, <1>12, <1>13 DEF ObserverNext

\* A cell goes only when nobody has it open or reserved.
LEMMA RemoveWakes ==
  ASSUME PubInv, WaitInv, NEW c \in Cells, Remove(c)
  PROVE  WaitInv'
<1> USE DEF WaitInv
<1>0. PubTypeOK /\ Faults /\ Holds BY DEF PubInv, Agrees
<1>1. /\ UNCHANGED <<waiter, sem, pub, obs>> /\ ~cell[c].held /\ cell[c].reserved = NoProc
      /\ \A d \in Cells : d # c => cell'[d] = cell[d] /\ seq'[d] = seq[d]
      /\ \A o \in Observers : obs[o].cell # c
      /\ cell'[c] = Blank
  BY <1>0 DEF Remove, waiting, Readers, PubTypeOK
<1>2. Seats' BY <1>1 DEF Seats, Seat
<1>3. Kept'
  <2> SUFFICES ASSUME NEW q \in Declared \cap Writers, pub[q].pc # "out",
                      pub[q].fault => pub[q].pc = "ended"
               PROVE  cell'[pub[q].cell].reserved = q /\ cell'[pub[q].cell].last = q
    BY <1>1 DEF Kept
  <2>1. pub[q].cell \in Cells /\ pub[q].cell # c
    BY <1>0, <1>1, HasCell, PubAssumption DEF Kept
  <2> QED BY <1>1, <2>1 DEF Kept
<1>4. Sound'
  <2> SUFFICES ASSUME NEW q \in Writers, pub[q].pc \in PastOpen, ~pub[q].fault
               PROVE  ~cell'[pub[q].cell].fault
    BY <1>1 DEF Sound
  <2>1. pub[q].cell \in Cells /\ pub[q].cell # c BY <1>0, <1>1 DEF Holds
  <2> QED BY <1>1, <2>1 DEF Sound
<1>5. ASSUME NEW o \in Observers PROVE Armed(o)' /\ Owed(o)'
  <2>1. Armed(o) /\ Owed(o) BY DEF Sleeps
  <2>2. Armed(o)' BY <1>1, <2>1 DEF Armed, Giving
  <2>3. obs[o].pc = "sleep" => obs[o].cell \in Cells
    BY <1>0 DEF Seats, Seat, PubTypeOK, ObserverRecord
  <2>4. Owed(o)'
    BY <1>1, <2>1, <2>3 DEF Owed, Number, Giving, Comes, WillWake, Owes, Marks
  <2> QED BY <2>2, <2>4
<1> QED BY <1>2, <1>3, <1>4, <1>5 DEF Sleeps

\* An observer asleep on a cell that has moved on will be woken, with any number
\* of writers, observers and waiters, where a writer stopped in its wake is of a
\* declared cell.
THEOREM ChangesWake == ASSUME WakesEnd PROVE PubSpec => []NoSleepThroughChange
<1>1. OutsideCopy BY DEF WakesEnd, OutsideCopy
<1>2. PubInit => WaitInv
  <2> SUFFICES ASSUME PubInit PROVE WaitInv OBVIOUS
  <2>1. /\ \A o \in Observers : obs[o].pc = "away" /\ obs[o].slot = 0
        /\ \A p \in Writers : pub[p].pc = "out"
    BY DEF PubInit, Away, Out
  <2> QED BY <2>1 DEF WaitInv, Seats, Seat, Kept, Sound, PastOpen, Sleeps, Armed, Owed
<1>3. PubInv /\ PubInv' /\ WaitInv /\ [PubNext]_pubVars => WaitInv'
  <2> SUFFICES ASSUME PubInv, PubInv', WaitInv, [PubNext]_pubVars PROVE WaitInv' OBVIOUS
  <2>1. CASE UNCHANGED pubVars
    BY <2>1 DEF pubVars, WaitInv, Seats, Seat, Kept, Sound, Sleeps, Armed, Owed, Giving, Comes,
                WillWake, Owes, Marks, Number
  <2>2. ASSUME NEW p \in Writers, WriterNext(p) PROVE WaitInv' BY <2>2, WriterWakes
  <2>3. ASSUME NEW o \in Observers, ObserverNext(o) PROVE WaitInv' BY <2>3, ObserverSits
  <2>4. ASSUME NEW c \in Cells, Remove(c) PROVE WaitInv' BY <2>4, RemoveWakes
  <2> QED BY <2>1, <2>2, <2>3, <2>4 DEF PubNext
<1>4. WaitInv => NoSleepThroughChange
  <2> SUFFICES ASSUME WaitInv, NEW o \in Observers, obs[o].pc = "sleep",
                      Number(obs[o].cell) # obs[o].seen
               PROVE  WakeUnderWay(obs[o].cell, obs[o].slot)
    BY DEF NoSleepThroughChange
  <2>1. Owed(o) BY DEF WaitInv, Sleeps
  <2>2. \A p \in Writers : Comes(p, obs[o].cell, obs[o].slot) => WillWake(p, obs[o].cell, obs[o].slot)
    BY DEF Comes, Owes, Marks, WillWake
  <2> QED BY <2>1, <2>2 DEF Owed, WakeUnderWay, Giving
<1> QED BY <1>1, <1>2, <1>3, <1>4, PubInvHolds, PTL DEF PubSpec

=============================================================================
