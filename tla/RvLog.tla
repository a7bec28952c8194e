-------------------------------- MODULE RvLog --------------------------------
(***************************************************************************)
(* The log's hand-off of lines from real-time context, in main/logring.c:  *)
(* such a line is put in a small ring and goes to the port with the next   *)
(* ordinary line.  Real-time tasks come between any two steps of those     *)
(* that log ordinary lines: RV-9's kernel, whose threads do not take the   *)
(* processor from each other here, and the host's own tasks.               *)
(***************************************************************************)
EXTENDS Naturals, Sequences, Functions, FiniteSets

CONSTANTS
  Loggers,    \* ordinary tasks that log
  DeferLines, \* DEFER_LINES
  MaxLines,   \* bound: lines logged from real-time context
  NoLine

ASSUME LogAssumption ==
  /\ DeferLines \in Nat \ {0, 1} /\ MaxLines \in Nat
  /\ IsFiniteSet(Loggers) /\ NoLine \notin Nat

VARIABLES
  deferHead, deferTail, deferred, lost, flushing,  \* s_defer and its indices
  doing,    \* where a logger is
  line,     \* the line it has taken from the hand-off
  tally,   \* the count it has taken
  logged,   \* how many lines were logged from real-time context
  port,     \* those of them the port was given
  told      \* how many the port was told it never got

logVars == <<deferHead, deferTail, deferred, lost, flushing, doing, line, tally, logged, port, told>>
handoff == <<deferHead, deferTail, deferred, lost>>
wire == <<logged, port, told>>

LogInit ==
  /\ deferHead = 0 /\ deferTail = 0 /\ lost = 0 /\ flushing = FALSE
  /\ deferred = [i \in 0..(DeferLines - 1) |-> NoLine]
  /\ doing = [k \in Loggers |-> "idle"] /\ line = [k \in Loggers |-> NoLine]
  /\ tally = [k \in Loggers |-> 0] /\ logged = 0 /\ port = <<>> /\ told = 0

\* defer_waiting, in the arithmetic of an index that wraps.
Waiting == (deferHead + DeferLines - deferTail) % DeferLines

\* Bug: all of the ring is used, and full looks like empty.
RoomInAll == TRUE

Room == Waiting # DeferLines - 1

\* defer_put, with interrupts off.
Defer ==
  /\ logged < MaxLines /\ logged' = logged + 1
  /\ IF Room
     THEN /\ deferred' = [deferred EXCEPT ![deferHead] = logged + 1]
          /\ deferHead' = (deferHead + 1) % DeferLines /\ UNCHANGED lost
     ELSE lost' = lost + 1 /\ UNCHANGED <<deferred, deferHead>>
  /\ UNCHANGED <<deferTail, flushing, doing, line, tally, port, told>>

Goes(k, from, to) == doing[k] = from /\ doing' = [doing EXCEPT ![k] = to]

\* An ordinary line, or somebody who flushes: is there anything held back?
LookBack(k) ==
  /\ Goes(k, "idle", IF Waiting = 0 /\ lost = 0 THEN "idle" ELSE "test")
  /\ UNCHANGED <<handoff, flushing, line, tally, wire>>

\* s_flushing is looked at, and only then set.
TestFlushing(k) ==
  /\ Goes(k, "test", IF flushing THEN "idle" ELSE "set")
  /\ UNCHANGED <<handoff, flushing, line, tally, wire>>

SetFlushing(k) ==
  /\ Goes(k, "set", "take") /\ flushing' = TRUE
  /\ UNCHANGED <<handoff, line, tally, wire>>

TakeLine(k) ==
  /\ Waiting > 0 /\ Goes(k, "take", "send")
  /\ line' = [line EXCEPT ![k] = deferred[deferTail]]
  /\ deferTail' = (deferTail + 1) % DeferLines
  /\ UNCHANGED <<deferHead, deferred, lost, flushing, tally, wire>>

TakeCount(k) ==
  /\ Waiting = 0 /\ Goes(k, "take", "tell")
  /\ tally' = [tally EXCEPT ![k] = lost] /\ lost' = 0
  /\ UNCHANGED <<deferHead, deferTail, deferred, flushing, line, wire>>

SendLine(k) ==
  /\ Goes(k, "send", "take")
  /\ port' = Append(port, line[k]) /\ line' = [line EXCEPT ![k] = NoLine]
  /\ UNCHANGED <<handoff, flushing, tally, logged, told>>

Tell(k) ==
  /\ Goes(k, "tell", "clear")
  /\ told' = told + tally[k] /\ tally' = [tally EXCEPT ![k] = 0]
  /\ UNCHANGED <<handoff, flushing, line, logged, port>>

ClearFlushing(k) ==
  /\ Goes(k, "clear", "idle") /\ flushing' = FALSE
  /\ UNCHANGED <<handoff, line, tally, wire>>

LogNext ==
  \/ Defer
  \/ \E k \in Loggers : \/ LookBack(k) \/ TestFlushing(k) \/ SetFlushing(k) \/ TakeLine(k)
                        \/ TakeCount(k) \/ SendLine(k) \/ Tell(k) \/ ClearFlushing(k)

LogSpec == LogInit /\ [][LogNext]_logVars

(***************************************************************************)
(* Properties.                                                             *)
(***************************************************************************)
InRing == [i \in 1..Waiting |-> deferred[(deferTail + i - 1) % DeferLines]]
InHand == {line[k] : k \in Loggers} \ {NoLine}
CountedLost == lost + told + SumFunction(tally)

\* No line from real-time context is lost without a word, or sent twice, however
\* many flush at once (main/logring.c, on overflow: "it is never silent"): it is
\* in the hand-off, oldest first, in the hand of whoever is sending it, at the
\* port, or in the count of those the port never got.
NeverSilent ==
  /\ \A i, j \in DOMAIN InRing : i < j => InRing[i] < InRing[j]
  /\ Range(InRing) \cap (InHand \cup Range(port)) = {} /\ InHand \cap Range(port) = {}
  /\ \A i, j \in DOMAIN port : i # j => port[i] # port[j]
  /\ Len(InRing) + Cardinality(InHand) + Len(port) + CountedLost = logged
=============================================================================
