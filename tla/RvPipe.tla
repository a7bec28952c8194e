------------------------------- MODULE RvPipe -------------------------------
(***************************************************************************)
(* PIPEFM: components/rv9_io/src/pipefm.c.                                 *)
(*                                                                         *)
(* A fixed set of pipes in the driver's store, each a ring with counts; a  *)
(* path is one opening of a named pipe.  Every look at a pipe is one hold  *)
(* of the device's lock; between two looks a reader or a writer sleeps,    *)
(* and anything may happen to the pipe, its name and its ends.             *)
(***************************************************************************)
EXTENDS Naturals, Sequences, FiniteSets

CONSTANTS
  Ends,         \* paths, each opened by a process of its own
  Names,        \* the names pipes are opened by
  NPipes,       \* pipe_dev_t.count
  Capacity,     \* bytes per pipe
  OpenModes,    \* what paths are opened for: sets of "r" and "w", not empty
  Lengths,      \* the lengths of reads and writes
  Cancellable,  \* the ends whose process may be asked to stop
  MaxBytes,     \* bound: how much one end writes in all
  NoName, NoPipe, Blank

ASSUME PipeAssumption ==
  /\ NPipes \in Nat \ {0} /\ Capacity \in Nat \ {0} /\ MaxBytes \in Nat
  /\ OpenModes \subseteq (SUBSET {"r", "w"}) \ {{}} /\ Lengths \subseteq Nat \ {0} /\ NoName \notin Names /\ NoPipe \notin 1..NPipes
  /\ IsFiniteSet(Ends)

Pipes == 1..NPipes
Cells == 0..(Capacity - 1)

VARIABLES
  name,                       \* pipe_t.in_use and .name
  head, tail, count, data,    \* pipe_t: the ring
  readers, writers, seen,     \* pipe_t.readers, .writers, .seen_writer
  pipe, mode,                 \* pipe_path_t of an end
  pc, left,                   \* the call it is in, and how much of it is to do
  cancelled,                  \* ends whose process is asked to stop
  got, sent                   \* what it read last; how much it has written

ring == <<head, tail, count, data>>
calls == <<pc, left, cancelled>>
vars == <<name, head, tail, count, data, readers, writers, seen, pipe, mode,
          pc, left, cancelled, got, sent>>

Bytes == Ends \X (1..MaxBytes)

Init ==
  /\ name = [p \in Pipes |-> NoName]
  /\ head = [p \in Pipes |-> 0] /\ tail = [p \in Pipes |-> 0] /\ count = [p \in Pipes |-> 0]
  /\ data = [p \in Pipes |-> [c \in Cells |-> Blank]]
  /\ readers = [p \in Pipes |-> 0] /\ writers = [p \in Pipes |-> 0]
  /\ seen = [p \in Pipes |-> FALSE]
  /\ pipe = [e \in Ends |-> NoPipe] /\ mode = [e \in Ends |-> {}]
  /\ pc = [e \in Ends |-> "idle"] /\ left = [e \in Ends |-> 0] /\ cancelled = {}
  /\ got = [e \in Ends |-> <<>>] /\ sent = [e \in Ends |-> 0]

(***************************************************************************)
(* pipe_open and pipe_close.                                               *)
(***************************************************************************)
\* find: the pipe in use under that name; make: the first that is not in use.
Found(n) == {p \in Pipes : name[p] = n}
Unused == {p \in Pipes : name[p] = NoName /\ \A q \in Pipes : name[q] = NoName => p <= q}

\* Bug: a fresh pipe is laid out for every open.
MadeAnew(n) == Unused

Chosen(n) == IF Found(n) # {} THEN Found(n) ELSE Unused

\* With no pipe to be had the open is refused, and nothing changes.
OpenPipe(e, n, m) ==
  \E p \in Chosen(n) :
    /\ pipe[e] = NoPipe /\ pc[e] = "idle"
    /\ name' = [name EXCEPT ![p] = n]
    /\ readers' = [readers EXCEPT ![p] = IF "r" \in m THEN @ + 1 ELSE @]
    /\ writers' = [writers EXCEPT ![p] = IF "w" \in m THEN @ + 1 ELSE @]
    /\ seen' = [seen EXCEPT ![p] = @ \/ "w" \in m]
    /\ pipe' = [pipe EXCEPT ![e] = p] /\ mode' = [mode EXCEPT ![e] = m]
    /\ UNCHANGED <<ring, calls, got, sent>>

\* Nobody left at either end: the name goes, and so does what was in it.
Emptied(p) ==
  /\ name' = [name EXCEPT ![p] = NoName] /\ seen' = [seen EXCEPT ![p] = FALSE]
  /\ head' = [head EXCEPT ![p] = 0] /\ tail' = [tail EXCEPT ![p] = 0] /\ count' = [count EXCEPT ![p] = 0]

Without(cnt, e, m) ==
  [cnt EXCEPT ![pipe[e]] = IF m \in mode[e] /\ @ > 0 THEN @ - 1 ELSE @]

\* A close by the process, or as it ends, stopped where it slept in a call.
ClosePipe(e) ==
  /\ pipe[e] # NoPipe
  /\ readers' = Without(readers, e, "r") /\ writers' = Without(writers, e, "w")
  /\ IF readers'[pipe[e]] = 0 /\ writers'[pipe[e]] = 0
     THEN Emptied(pipe[e]) ELSE UNCHANGED <<name, seen, head, tail, count>>
  /\ pipe' = [pipe EXCEPT ![e] = NoPipe] /\ mode' = [mode EXCEPT ![e] = {}]
  /\ pc' = [pc EXCEPT ![e] = "idle"] /\ left' = [left EXCEPT ![e] = 0]
  /\ UNCHANGED <<data, cancelled, got, sent>>

(***************************************************************************)
(* pipe_read and pipe_write: a call, its looks, and its end.               *)
(***************************************************************************)
Call(e, which, m, len) ==
  /\ pc[e] = "idle" /\ pipe[e] # NoPipe /\ m \in mode[e]
  /\ pc' = [pc EXCEPT ![e] = which] /\ left' = [left EXCEPT ![e] = len]
  /\ UNCHANGED <<name, ring, readers, writers, seen, pipe, mode, cancelled, got, sent>>

CallRead(e, len) == Call(e, "read", "r", len)
CallWrite(e, len) == sent[e] + len <= MaxBytes /\ Call(e, "write", "w", len)

Returned(e) == pc' = [pc EXCEPT ![e] = "idle"] /\ left' = [left EXCEPT ![e] = 0]

Lesser(a, b) == IF a < b THEN a ELSE b

\* Bug: the copy runs on from the head without wrapping.
CopiedPast(p, k) == [i \in 1..k |-> data[p][Lesser(head[p] + i - 1, Capacity - 1)]]

\* Up to the end of the buffer, then from the start again.
Copied(p, k) == [i \in 1..k |-> data[p][(head[p] + i - 1) % Capacity]]

ReadSome(e) ==
  LET p == pipe[e]
      k == Lesser(count[p], left[e])
  IN /\ pc[e] = "read" /\ count[p] > 0
     /\ got' = [got EXCEPT ![e] = Copied(p, k)]
     /\ head' = [head EXCEPT ![p] = (@ + k) % Capacity]
     /\ count' = [count EXCEPT ![p] = @ - k]
     /\ Returned(e)
     /\ UNCHANGED <<name, tail, data, readers, writers, seen, pipe, mode, cancelled, sent>>

\* Bug: the pipe has finished only when its readers have gone as well.
FinishedAlone(p) == writers[p] = 0 /\ seen[p] /\ readers[p] = 0

\* The last writer has gone, which is not the same as there being none yet.
Finished(p) == writers[p] = 0 /\ seen[p]

ReadEnd(e) ==
  /\ pc[e] = "read" /\ count[pipe[e]] = 0 /\ Finished(pipe[e])
  /\ got' = [got EXCEPT ![e] = <<>>]
  /\ Returned(e)
  /\ UNCHANGED <<name, ring, readers, writers, seen, pipe, mode, cancelled, sent>>

\* k bytes from t on, round the end of the buffer.
Filled(d, t, k, new) ==
  [c \in Cells |-> IF \E i \in 1..k : c = (t + i - 1) % Capacity
                   THEN new[CHOOSE i \in 1..k : c = (t + i - 1) % Capacity] ELSE d[c]]

WriteSome(e) ==
  LET p == pipe[e]
      k == Lesser(Capacity - count[p], left[e])
      new == [i \in 1..k |-> <<e, sent[e] + i>>]
  IN /\ pc[e] = "write" /\ count[p] < Capacity
     /\ data' = [data EXCEPT ![p] = Filled(@, tail[p], k, new)]
     /\ tail' = [tail EXCEPT ![p] = (@ + k) % Capacity]
     /\ count' = [count EXCEPT ![p] = @ + k]
     /\ sent' = [sent EXCEPT ![e] = @ + k]
     /\ IF k = left[e] THEN Returned(e)
        ELSE left' = [left EXCEPT ![e] = @ - k] /\ UNCHANGED pc
     /\ UNCHANGED <<name, head, readers, writers, seen, pipe, mode, cancelled, got>>

\* Full, and nobody is reading: a hang would be worse than an error.
Broken(p) == count[p] = Capacity /\ readers[p] = 0

WriteBroken(e) ==
  /\ pc[e] = "write" /\ Broken(pipe[e])
  /\ Returned(e)
  /\ UNCHANGED <<name, ring, readers, writers, seen, pipe, mode, cancelled, got, sent>>

\* Having nothing to do, a cancelled call gives up rather than sleep again.
Waiting(e) ==
  \/ pc[e] = "read" /\ count[pipe[e]] = 0 /\ ~Finished(pipe[e])
  \/ pc[e] = "write" /\ count[pipe[e]] = Capacity /\ ~Broken(pipe[e])

GiveUp(e) ==
  /\ Waiting(e) /\ e \in cancelled
  /\ Returned(e)
  /\ UNCHANGED <<name, ring, readers, writers, seen, pipe, mode, cancelled, got, sent>>

\* rv9_task_cancelled() of the caller turns true: a kill refused for now.
Cancel(e) ==
  /\ e \in Cancellable \ cancelled
  /\ cancelled' = cancelled \cup {e}
  /\ UNCHANGED <<name, ring, readers, writers, seen, pipe, mode, pc, left, got, sent>>

\* One look of a call that is under way.
Look(e) == ReadSome(e) \/ ReadEnd(e) \/ WriteSome(e) \/ WriteBroken(e) \/ GiveUp(e)

Use(e) ==
  \/ \E n \in Names, m \in OpenModes : OpenPipe(e, n, m)
  \/ \E len \in Lengths : CallRead(e, len) \/ CallWrite(e, len)
  \/ ClosePipe(e) \/ Cancel(e)

Next == \E e \in Ends : Look(e) \/ Use(e)

Spec == Init /\ [][Next]_vars

\* A sleeping call looks again every PIPE_SLICE_MS; nothing makes a process
\* open, call or close.
FairSpec == Spec /\ \A e \in Ends : WF_vars(Look(e))

(***************************************************************************)
(* What the pipes promise.                                                 *)
(***************************************************************************)
TypeOK ==
  /\ name \in [Pipes -> Names \cup {NoName}]
  /\ head \in [Pipes -> Cells] /\ tail \in [Pipes -> Cells] /\ count \in [Pipes -> 0..Capacity]
  /\ data \in [Pipes -> [Cells -> Bytes \cup {Blank}]]
  /\ readers \in [Pipes -> Nat] /\ writers \in [Pipes -> Nat] /\ seen \in [Pipes -> BOOLEAN]
  /\ pipe \in [Ends -> Pipes \cup {NoPipe}] /\ mode \in [Ends -> SUBSET {"r", "w"}]
  /\ pc \in [Ends -> {"idle", "read", "write"}] /\ left \in [Ends -> Nat]
  /\ cancelled \subseteq Ends /\ sent \in [Ends -> 0..MaxBytes]

\* The counts a reader's end of file and a writer's error are decided by are
\* those of the paths that are open, a pipe has its name exactly as long as it
\* has one, and no two pipes have the same name.
EndsOf(p, m) == {e \in Ends : pipe[e] = p /\ m \in mode[e]}
PipesHaveEnds ==
  /\ \A p \in Pipes :
       /\ readers[p] = Cardinality(EndsOf(p, "r")) /\ writers[p] = Cardinality(EndsOf(p, "w"))
       /\ name[p] # NoName <=> \E e \in Ends : pipe[e] = p
  /\ \A e \in Ends : pipe[e] # NoPipe <=> mode[e] # {}
  /\ \A p, q \in Pipes : name[p] = name[q] /\ name[p] # NoName => p = q

Contents(p) == [i \in 1..count[p] |-> data[p][(head[p] + i - 1) % Capacity]]
NameAt(e) == IF pipe[e] = NoPipe THEN NoName ELSE name[pipe[e]]
InPipe(n) == IF Found(n) = {} THEN <<>> ELSE Contents(CHOOSE p \in Found(n) : TRUE)

Channel == INSTANCE RvChannel
  WITH text <- [n \in Names |-> InPipe(n)], at <- [e \in Ends |-> NameAt(e)],
       begun <- {n \in Names : \E p \in Found(n) : seen[p]}

\* Two opens of a name find one channel: every byte accepted under a name is
\* read once, in order, by whoever has it open, or goes with the last of them,
\* and nobody hears the end of the file before all of it was read.
ImplementsChannel == Channel!Spec

\* reference.md:242: "A reader learns the run is over when the last writer
\* closes"; and a writer does not "wait for a reader that is not coming -- which
\* is a hang" (pipefm.c:376-378).
EndsAreHeard ==
  \A e \in Ends :
    /\ (pc[e] = "read" /\ seen[pipe[e]] /\ writers[pipe[e]] = 0)
         ~> (pc[e] # "read" \/ writers[pipe[e]] > 0)
    /\ (pc[e] = "write" /\ readers[pipe[e]] = 0) ~> (pc[e] # "write" \/ readers[pipe[e]] > 0)
=============================================================================
