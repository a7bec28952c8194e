------------------------------ MODULE RvPublish ------------------------------
(***************************************************************************)
(* Publication cells: components/rv9_io/src/pfm.c.                         *)
(*                                                                         *)
(* A cell's writer publishes under a sequence counter and no lock, and     *)
(* wakes whoever is armed; an observer copies the cell and looks at the    *)
(* counter again, or arms a waiter, looks, and sleeps.  Between any two    *)
(* accesses to what they share, others run.  A value is two words, so that *)
(* half of one can be seen.                                                *)
(***************************************************************************)
EXTENDS Naturals, FiniteSets

CONSTANTS
  Writers,   \* processes that publish
  Observers, \* processes that watch, one path each
  Cells,     \* names, and the places for them
  NWaiters,  \* PFM_MAX_WAITERS
  MaxTries,  \* PFM_MAX_TRIES
  MaxPubs,   \* bound: publications into one cell
  Declared,  \* writers whose manifest names the cell
  StopsAt,   \* where a writer may be stopped
  NoCell, NoProc

ASSUME PubAssumption ==
  /\ NWaiters \in Nat \ {0} /\ MaxTries \in Nat /\ MaxPubs \in Nat
  /\ NoCell \notin Cells /\ NoProc \notin Writers

VARIABLES
  cell,    \* [made, held, by, reserved, last, fault]
  seq,     \* odd while a publication is being written
  word,    \* the two words of the value
  said,    \* what each publication so far said
  waiter,  \* [cell, armed]; cell is NoCell where it is free
  sem,     \* gives of a waiter's semaphore, at most one
  keeper,  \* who holds the device's lock
  pub,     \* writers: [pc, cell, at, fault]
  obs      \* observers: [pc, cell, seen, slot, tries, before, copy, got]

store == <<cell, seq, word, said>>
waiting == <<waiter, sem>>
pubVars == <<cell, seq, word, said, waiter, sem, keeper, pub, obs>>

Waiters == 1..NWaiters
Zeros == [w \in 1..2 |-> 0]
NoGot == [n |-> 0, copy |-> Zeros]
Blank == [made |-> FALSE, held |-> FALSE, by |-> NoProc, reserved |-> NoProc,
          last |-> NoProc, fault |-> FALSE]
Out == [pc |-> "out", cell |-> NoCell, at |-> 0, fault |-> FALSE]
Away == [pc |-> "away", cell |-> NoCell, seen |-> 0, slot |-> 0, tries |-> 0,
         before |-> 0, copy |-> Zeros, got |-> NoGot]

PubInit ==
  /\ cell = [c \in Cells |-> Blank] /\ seq = [c \in Cells |-> 0]
  /\ word = [c \in Cells |-> Zeros] /\ said = [c \in Cells |-> [n \in 0..MaxPubs |-> 0]]
  /\ waiter = [i \in Waiters |-> [cell |-> NoCell, armed |-> FALSE]]
  /\ sem = [i \in Waiters |-> FALSE] /\ keeper = NoProc
  /\ pub = [p \in Writers |-> Out] /\ obs = [o \in Observers |-> Away]

Number(c) == seq[c] \div 2
Unlocked == keeper = NoProc
Readers(c) == {o \in Observers : obs[o].cell = c}

(***************************************************************************)
(* A writer: admitted, open, publishing.                                   *)
(***************************************************************************)
Reservable(c, p) ==
  /\ cell[c].reserved \in {NoProc, p}
  /\ cell[c].held => cell[c].by = p

\* pfm_reserve_writer, at fork; a program refused is undone and gone.
Admit(p, c) ==
  /\ pub[p].pc = "out" /\ Unlocked
  /\ p \in Declared => Reservable(c, p)
  /\ pub' = [pub EXCEPT ![p] = [Out EXCEPT !.pc = "closed", !.cell = c]]
  /\ IF p \in Declared
     THEN cell' = [cell EXCEPT ![c].made = TRUE, ![c].reserved = p, ![c].last = p]
     ELSE UNCHANGED cell
  /\ UNCHANGED <<seq, word, said, waiting, keeper, obs>>

\* Bug: only that nobody has it open is asked.
WritableIfFree(c, p) == ~cell[c].held

Writable(c, p) == cell[c].reserved \in {NoProc, p} /\ ~cell[c].held

\* pfm_open, to write.
OpenWrite(p) ==
  LET c == pub[p].cell IN
  /\ pub[p].pc = "closed" /\ Unlocked /\ Writable(c, p)
  /\ cell' = [cell EXCEPT ![c].made = TRUE, ![c].held = TRUE, ![c].by = p, ![c].last = p,
                          ![c].fault = FALSE]
  /\ pub' = [pub EXCEPT ![p].pc = "open"]
  /\ UNCHANGED <<seq, word, said, waiting, keeper, obs>>

\* pfm_write: odd, copy, even.
Begin(p) ==
  LET c == pub[p].cell IN
  /\ pub[p].pc = "open" /\ Number(c) < MaxPubs
  /\ seq' = [seq EXCEPT ![c] = @ + 1] /\ pub' = [pub EXCEPT ![p].pc = "copy"]
  /\ UNCHANGED <<cell, word, said, waiting, keeper, obs>>

CopyFirst(p) ==
  LET c == pub[p].cell IN
  /\ pub[p].pc = "copy"
  /\ word' = [word EXCEPT ![c][1] = Number(c) + 1] /\ pub' = [pub EXCEPT ![p].pc = "half"]
  /\ UNCHANGED <<cell, seq, said, waiting, keeper, obs>>

CopySecond(p) ==
  LET c == pub[p].cell IN
  /\ pub[p].pc = "half"
  /\ word' = [word EXCEPT ![c][2] = Number(c) + 1] /\ pub' = [pub EXCEPT ![p].pc = "copied"]
  /\ UNCHANGED <<cell, seq, said, waiting, keeper, obs>>

Publish(p) ==
  LET c == pub[p].cell IN
  /\ pub[p].pc = "copied"
  /\ seq' = [seq EXCEPT ![c] = @ + 1]
  /\ said' = [said EXCEPT ![c][Number(c) + 1] = word[c][1]]
  /\ pub' = [pub EXCEPT ![p].pc = "look", ![p].at = 1]
  /\ UNCHANGED <<cell, word, waiting, keeper, obs>>

\* wake_watchers: for each waiter of this cell, take its arm, then give.
Onward(p) ==
  [pub EXCEPT ![p].at = IF @ < NWaiters THEN @ + 1 ELSE 0,
              ![p].pc = IF pub[p].at < NWaiters THEN "look"
                        ELSE IF pub[p].fault THEN "told" ELSE "open"]

Look(p) ==
  /\ pub[p].pc = "look"
  /\ pub' = IF waiter[pub[p].at].cell = pub[p].cell THEN [pub EXCEPT ![p].pc = "take"]
            ELSE Onward(p)
  /\ UNCHANGED <<store, waiting, keeper, obs>>

Disarm(p) ==
  /\ pub[p].pc = "take"
  /\ pub' = IF waiter[pub[p].at].armed THEN [pub EXCEPT ![p].pc = "give"] ELSE Onward(p)
  /\ waiter' = [waiter EXCEPT ![pub[p].at].armed = FALSE]
  /\ UNCHANGED <<store, sem, keeper, obs>>

Give(p) ==
  /\ pub[p].pc = "give"
  /\ sem' = [sem EXCEPT ![pub[p].at] = TRUE] /\ pub' = Onward(p)
  /\ UNCHANGED <<store, waiter, keeper, obs>>

\* pfm_close.  A process that goes on may open the cell again.
CloseWrite(p) ==
  LET c == pub[p].cell IN
  /\ pub[p].pc = "open" /\ Unlocked
  /\ cell' = [cell EXCEPT ![c].held = FALSE, ![c].by = NoProc]
  /\ pub' = [pub EXCEPT ![p].pc = "closed"]
  /\ UNCHANGED <<seq, word, said, waiting, keeper, obs>>

\* It ends, by itself or stopped from outside: the exit hook closes its path.
WriterEnds(p, fault) ==
  LET c == pub[p].cell IN
  /\ pub[p].pc \in (IF fault THEN StopsAt ELSE {"open", "closed"}) /\ Unlocked
  /\ IF pub[p].pc = "closed" THEN UNCHANGED cell
     ELSE cell' = [cell EXCEPT ![c].held = FALSE, ![c].by = NoProc]
  /\ pub' = [pub EXCEPT ![p].pc = "ended", ![p].fault = fault, ![p].at = 0]
  /\ UNCHANGED <<seq, word, said, waiting, keeper, obs>>

\* Whether pfm_ended marks the cell: p was the last to write it, and failed.
Marks(p, c) ==
  cell[c].last = p /\ pub[p].fault /\ ~cell[c].held /\ ~cell[c].fault

\* pfm_ended, under the device's lock until everybody is woken.
Ended(p) ==
  LET c == pub[p].cell IN
  /\ pub[p].pc = "ended" /\ Unlocked /\ (Marks(p, c) => Number(c) < MaxPubs)
  /\ cell' = [cell EXCEPT ![c].reserved = IF @ = p THEN NoProc ELSE @,
                          ![c].last = IF @ = p THEN NoProc ELSE @,
                          ![c].fault = @ \/ Marks(p, c)]
  /\ IF Marks(p, c)
     THEN /\ seq' = [seq EXCEPT ![c] = @ + 2]
          /\ said' = [said EXCEPT ![c][Number(c) + 1] = said[c][Number(c)]]
          /\ keeper' = p /\ pub' = [pub EXCEPT ![p].pc = "look", ![p].at = 1]
     ELSE pub' = [pub EXCEPT ![p] = Out] /\ UNCHANGED <<seq, said, keeper>>
  /\ UNCHANGED <<word, waiting, obs>>

Told(p) ==
  /\ pub[p].pc = "told" /\ keeper' = NoProc /\ pub' = [pub EXCEPT ![p] = Out]
  /\ UNCHANGED <<store, waiting, obs>>

\* pfm_remove.
Remove(c) ==
  /\ Unlocked /\ cell[c].made /\ ~cell[c].held /\ Readers(c) = {} /\ cell[c].reserved = NoProc
  /\ cell' = [cell EXCEPT ![c] = Blank] /\ seq' = [seq EXCEPT ![c] = 0]
  /\ word' = [word EXCEPT ![c] = Zeros]
  /\ said' = [said EXCEPT ![c] = [n \in 0..MaxPubs |-> 0]]
  /\ UNCHANGED <<waiting, keeper, pub, obs>>

(***************************************************************************)
(* An observer: a snapshot.                                                *)
(***************************************************************************)
OpenRead(o, c) ==
  /\ obs[o].pc = "away" /\ Unlocked /\ cell[c].made
  /\ obs' = [obs EXCEPT ![o] = [Away EXCEPT !.pc = "idle", !.cell = c]]
  /\ UNCHANGED <<store, waiting, keeper, pub>>

\* pfm_close frees the waiter.
CloseRead(o) ==
  /\ obs[o].pc = "idle" /\ Unlocked
  /\ waiter' = [i \in Waiters |-> IF i = obs[o].slot THEN [cell |-> NoCell, armed |-> FALSE]
                                  ELSE waiter[i]]
  /\ obs' = [obs EXCEPT ![o] = Away]
  /\ UNCHANGED <<store, sem, keeper, pub>>

Read(o) ==
  /\ obs[o].pc = "idle"
  /\ obs' = [obs EXCEPT ![o].pc = "before", ![o].tries = 0, ![o].got = NoGot]
  /\ UNCHANGED <<store, waiting, keeper, pub>>

Again(o) ==
  [obs EXCEPT ![o].tries = IF @ + 1 < MaxTries THEN @ + 1 ELSE 0,
              ![o].pc = IF obs[o].tries + 1 < MaxTries THEN "before" ELSE "idle",
              ![o].before = 0, ![o].copy = Zeros]

ReadBefore(o) ==
  LET c == obs[o].cell IN
  /\ obs[o].pc = "before"
  /\ obs' = IF seq[c] % 2 = 1 THEN Again(o)
            ELSE [obs EXCEPT ![o].pc = "first", ![o].before = seq[c]]
  /\ UNCHANGED <<store, waiting, keeper, pub>>

ReadFirst(o) ==
  /\ obs[o].pc = "first"
  /\ obs' = [obs EXCEPT ![o].pc = "second", ![o].copy[1] = word[obs[o].cell][1]]
  /\ UNCHANGED <<store, waiting, keeper, pub>>

ReadSecond(o) ==
  /\ obs[o].pc = "second"
  /\ obs' = [obs EXCEPT ![o].pc = "after", ![o].copy[2] = word[obs[o].cell][2]]
  /\ UNCHANGED <<store, waiting, keeper, pub>>

\* Bug: an even counter is as good as the same one.
ReadAfterEven(o) ==
  /\ obs[o].pc = "after"
  /\ obs' = IF seq[obs[o].cell] % 2 = 1 THEN Again(o)
            ELSE [obs EXCEPT ![o].pc = "idle", ![o].tries = 0, ![o].before = 0, ![o].copy = Zeros,
                             ![o].got = [n |-> obs[o].before \div 2, copy |-> obs[o].copy]]
  /\ UNCHANGED <<store, waiting, keeper, pub>>

ReadAfter(o) ==
  /\ obs[o].pc = "after"
  /\ obs' = IF seq[obs[o].cell] # obs[o].before THEN Again(o)
            ELSE [obs EXCEPT ![o].pc = "idle", ![o].tries = 0, ![o].before = 0, ![o].copy = Zeros,
                             ![o].got = [n |-> obs[o].before \div 2, copy |-> obs[o].copy]]
  /\ UNCHANGED <<store, waiting, keeper, pub>>

(***************************************************************************)
(* An observer: waiting for a publication past the one it has seen.        *)
(***************************************************************************)
Sees(o, then) == [obs EXCEPT ![o].pc = then, ![o].seen = Number(obs[o].cell), ![o].got = NoGot]

Wait(o) ==
  LET c == obs[o].cell IN
  /\ obs[o].pc = "idle"
  /\ obs' = IF Number(c) # obs[o].seen THEN Sees(o, "idle")
            ELSE [obs EXCEPT ![o].pc = IF obs[o].slot = 0 THEN "slot" ELSE "arm", ![o].got = NoGot]
  /\ UNCHANGED <<store, waiting, keeper, pub>>

\* claim_slot: a give left from the last owner is taken away.
ClaimSlot(o) ==
  /\ obs[o].pc = "slot" /\ Unlocked
  /\ LET free == {i \in Waiters : waiter[i].cell = NoCell} IN
     IF free = {}
     THEN obs' = [obs EXCEPT ![o].pc = "idle"] /\ UNCHANGED waiting
     ELSE LET i == CHOOSE i \in free : \A j \in free : i <= j IN
          /\ waiter' = [waiter EXCEPT ![i] = [cell |-> obs[o].cell, armed |-> FALSE]]
          /\ sem' = [sem EXCEPT ![i] = FALSE]
          /\ obs' = [obs EXCEPT ![o].pc = "arm", ![o].slot = i]
  /\ UNCHANGED <<store, keeper, pub>>

\* Bug: look, then arm.
ArmLate(o) ==
  /\ obs[o].pc = "arm"
  /\ waiter' = [waiter EXCEPT ![obs[o].slot].armed = TRUE]
  /\ obs' = [obs EXCEPT ![o].pc = "sleep"]
  /\ UNCHANGED <<store, sem, keeper, pub>>

\* Arm, then look again, then sleep.
Arm(o) ==
  /\ obs[o].pc = "arm"
  /\ waiter' = [waiter EXCEPT ![obs[o].slot].armed = TRUE]
  /\ obs' = [obs EXCEPT ![o].pc = "check"]
  /\ UNCHANGED <<store, sem, keeper, pub>>

Check(o) ==
  /\ obs[o].pc = "check"
  /\ obs' = IF Number(obs[o].cell) # obs[o].seen THEN [obs EXCEPT ![o].pc = "disarm"]
            ELSE [obs EXCEPT ![o].pc = "sleep"]
  /\ UNCHANGED <<store, waiting, keeper, pub>>

\* rv9_sem_take: a give, whoever's it was, or the end of the slice.
Woken(o) ==
  /\ obs[o].pc = "sleep" /\ sem[obs[o].slot]
  /\ sem' = [sem EXCEPT ![obs[o].slot] = FALSE]
  /\ obs' = [obs EXCEPT ![o].pc = "arm"]
  /\ UNCHANGED <<store, waiter, keeper, pub>>

TimedOut(o) ==
  /\ obs[o].pc = "sleep"
  /\ obs' = [obs EXCEPT ![o].pc = "disarm"]
  /\ UNCHANGED <<store, waiting, keeper, pub>>

LeaveWait(o) ==
  /\ obs[o].pc = "disarm"
  /\ waiter' = [waiter EXCEPT ![obs[o].slot].armed = FALSE]
  /\ obs' = [obs EXCEPT ![o].pc = "last"]
  /\ UNCHANGED <<store, sem, keeper, pub>>

LastLook(o) ==
  /\ obs[o].pc = "last" /\ obs' = Sees(o, "idle")
  /\ UNCHANGED <<store, waiting, keeper, pub>>

WriterNext(p) ==
  \/ \E c \in Cells : Admit(p, c)
  \/ OpenWrite(p) \/ Begin(p) \/ CopyFirst(p) \/ CopySecond(p) \/ Publish(p)
  \/ Look(p) \/ Disarm(p) \/ Give(p) \/ CloseWrite(p)
  \/ (\E fault \in BOOLEAN : WriterEnds(p, fault)) \/ Ended(p) \/ Told(p)

ObserverNext(o) ==
  \/ \E c \in Cells : OpenRead(o, c)
  \/ CloseRead(o) \/ Read(o) \/ ReadBefore(o) \/ ReadFirst(o) \/ ReadSecond(o) \/ ReadAfter(o)
  \/ Wait(o) \/ ClaimSlot(o) \/ Arm(o) \/ Check(o) \/ Woken(o) \/ TimedOut(o)
  \/ LeaveWait(o) \/ LastLook(o)

PubNext ==
  \/ \E p \in Writers : WriterNext(p)
  \/ \E o \in Observers : ObserverNext(o)
  \/ \E c \in Cells : Remove(c)

PubSpec == PubInit /\ [][PubNext]_pubVars

(***************************************************************************)
(* Properties.                                                             *)
(***************************************************************************)
CellRecord == [made : BOOLEAN, held : BOOLEAN, by : Writers \cup {NoProc},
               reserved : Writers \cup {NoProc}, last : Writers \cup {NoProc}, fault : BOOLEAN]
WriterPoints == {"out", "closed", "open", "copy", "half", "copied", "look", "take", "give",
                 "ended", "told"}
WriterRecord == [pc : WriterPoints, cell : Cells \cup {NoCell}, at : 0..NWaiters, fault : BOOLEAN]
ObserverPoints == {"away", "idle", "before", "first", "second", "after", "slot", "arm", "check",
                   "sleep", "disarm", "last"}
ObserverRecord == [pc : ObserverPoints, cell : Cells \cup {NoCell}, seen : Nat,
                   slot : 0..NWaiters, tries : Nat, before : Nat, copy : [1..2 -> Nat],
                   got : [n : Nat, copy : [1..2 -> Nat]]]

\* Every variable keeps its type.
PubTypeOK ==
  /\ cell \in [Cells -> CellRecord]
  /\ seq \in [Cells -> Nat] /\ word \in [Cells -> [1..2 -> Nat]]
  /\ said \in [Cells -> [0..MaxPubs -> Nat]]
  /\ waiter \in [Waiters -> [cell : Cells \cup {NoCell}, armed : BOOLEAN]]
  /\ sem \in [Waiters -> BOOLEAN] /\ keeper \in Writers \cup {NoProc}
  /\ pub \in [Writers -> WriterRecord]
  /\ obs \in [Observers -> ObserverRecord]

\* "The bytes handed back are all from one publication", and from the one
\* whose number they carry, whatever was written while they were copied.
SnapshotsAreWhole ==
  \A o \in Observers :
    obs[o].cell # NoCell =>
      \A w \in 1..2 : obs[o].got.copy[w] = said[obs[o].cell][obs[o].got.n]

\* One writer, always: whoever is past its open is the one that holds the
\* cell, and as long as a process goes on whose manifest declares a cell it
\* is kept for it: nobody else has it open, who declared it or did not.
OneWriter ==
  /\ PubTypeOK
  /\ \A p \in Writers, c \in Cells :
       /\ pub[p].cell = c /\ pub[p].pc \in {"open", "copy", "half", "copied"} =>
            cell[c].held /\ cell[c].by = p
       /\ pub[p].cell = c /\ p \in Declared /\ pub[p].pc # "ended" /\ ~pub[p].fault =>
            cell[c].reserved = p /\ (cell[c].held => cell[c].by = p)

\* Who will still wake the waiter i of cell c: a writer that has published
\* and not come past it, one about to, or the end of a stopped one.
WillWake(p, c, i) ==
  /\ pub[p].cell = c
  /\ \/ pub[p].pc \in {"look", "take"} /\ pub[p].at <= i
     \/ pub[p].pc = "give" /\ pub[p].at < i
     \/ pub[p].pc = "ended" /\ pub[p].fault /\ cell[c].last = p

WakeUnderWay(c, i) ==
  \/ sem[i]
  \/ \E p \in Writers : pub[p].pc = "give" /\ pub[p].at = i
  \/ waiter[i].armed /\ \E p \in Writers : WillWake(p, c, i)

\* An observer asleep on a cell that has moved on will be woken: it has a
\* give, one is on its way, or it is armed and somebody is still to look.
NoSleepThroughChange ==
  \A o \in Observers :
    obs[o].pc = "sleep" /\ Number(obs[o].cell) # obs[o].seen =>
      WakeUnderWay(obs[o].cell, obs[o].slot)

=============================================================================
