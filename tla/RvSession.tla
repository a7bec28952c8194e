----------------------------- MODULE RvSession -----------------------------
(***************************************************************************)
(* Paths and sessions of a device whose driver establishes one on first    *)
(* open: components/rv9_io/src/io.c, over a driver shaped like             *)
(* components/rv9_ssh/src/drv_ssh.c.                                       *)
(*                                                                         *)
(* The I/O lock is held where the code holds it, which is never while the  *)
(* driver opens, closes or transfers: an open waits there for a client, a  *)
(* close drains for up to three seconds, a read waits for a key.  A        *)
(* process may be stopped wherever it sleeps without holding anything.     *)
(*                                                                         *)
(* What a collector does for a dead process is the process's own close.    *)
(***************************************************************************)
EXTENDS Naturals, FiniteSets

CONSTANTS
  Procs,        \* processes
  Paths,        \* path descriptors
  MaxMade,      \* bound: how many sessions the driver establishes
  MaxSession,   \* bound: how often the device is hung up
  MaxBusy,      \* bound: calls counted inside
  Worlds,       \* what may happen beside the calls themselves, chosen once
  NoPath, Nil

ASSUME SessionAssumption ==
  /\ NoPath \notin Paths /\ Nil \notin Nat /\ IsFiniteSet(Procs) /\ IsFiniteSet(Paths)
  /\ MaxMade \in Nat /\ MaxSession \in Nat /\ MaxBusy \in Nat
  /\ Worlds \subseteq [StopsAt : SUBSET {"in", "drain", "hangwait"},
                        CutsOff : BOOLEAN, MayJustClose : BOOLEAN]

Made == 1..MaxMade

VARIABLES
  world,
  open_count, hanging, session, busy,   \* rv9_dev_t
  drv,                                  \* rv9_dev_t.drv_state: a session, or Nil
  made, freed,                          \* how many were allocated; those freed
  at,                                   \* the path a process has, or NoPath
  refs, psession,                       \* rv9_path_t.refs, .session
  from,                                 \* the path a driver session was opened by
  pc, then,                             \* where a process is; after dev_last_close
  uses                                  \* the driver session it has in hand

dev == <<open_count, hanging, session>>
driver == <<drv, made, freed, from>>
paths == <<at, refs, psession>>
vars == <<world, open_count, hanging, session, busy, drv, made, freed, at, refs, psession,
          from, pc, then, uses>>

\* Where a process may be stopped; whether a call inside may outlast
\* HANGUP_WAIT_MS; whether a session's last path may be closed with no hangup.
StopsAt == world.StopsAt
CutsOff == world.CutsOff
MayJustClose == world.MayJustClose

Points == {"idle", "open", "close", "drain", "uncount", "enter", "in",
           "hang", "hangwait", "unhang", "dead"}

Init ==
  /\ world \in Worlds
  /\ open_count = 0 /\ hanging = FALSE /\ session = 0 /\ busy = 0
  /\ drv = Nil /\ made = 0 /\ freed = {}
  /\ at = [p \in Procs |-> NoPath] /\ refs = [d \in Paths |-> 0]
  /\ psession = [d \in Paths |-> 0] /\ from = [s \in Made |-> NoPath]
  /\ pc = [p \in Procs |-> "idle"] /\ then = [p \in Procs |-> "idle"]
  /\ uses = [p \in Procs |-> Nil]

Goes(p, x, y) == pc[p] = x /\ pc' = [pc EXCEPT ![p] = y]

(***************************************************************************)
(* rv9_io_open.                                                            *)
(***************************************************************************)
\* Bug: a hangup in progress refuses nobody.
RefusedUsed == open_count > 0

\* dev_open_refused, of a device whose driver has an open.
Refused == open_count > 0 \/ hanging

\* Under the lock: the path is built and counted before anybody waits.
Open(p, d) ==
  /\ Goes(p, "idle", "open") /\ at[p] = NoPath /\ ~Refused /\ refs[d] = 0
  /\ at' = [at EXCEPT ![p] = d] /\ refs' = [refs EXCEPT ![d] = 1]
  /\ psession' = [psession EXCEPT ![d] = session]
  /\ open_count' = open_count + 1
  /\ UNCHANGED <<hanging, session, busy, driver, then, uses>>

\* RV9_IO_ERR_EXISTS: somebody else has it.
OpenRefused(p) == pc[p] = "idle" /\ at[p] = NoPath /\ Refused /\ UNCHANGED vars

\* drv->open, not to be stopped in the middle of: a client came.
Established(p) ==
  /\ Goes(p, "open", "idle") /\ made < MaxMade
  /\ made' = made + 1 /\ drv' = made + 1
  /\ from' = [from EXCEPT ![made + 1] = at[p]]
  /\ UNCHANGED <<dev, busy, freed, paths, then, uses>>

\* None did: the open is undone, the driver told, then the path uncounted.
NotEstablished(p) ==
  /\ Goes(p, "open", "close") /\ then' = [then EXCEPT ![p] = "uncount"]
  /\ UNCHANGED <<dev, busy, driver, paths, uses>>

Uncount(p) ==
  /\ Goes(p, "uncount", "idle")
  /\ at' = [at EXCEPT ![p] = NoPath] /\ refs' = [refs EXCEPT ![at[p]] = 0]
  /\ open_count' = IF open_count > 0 THEN open_count - 1 ELSE 0
  /\ UNCHANGED <<hanging, session, busy, driver, psession, then, uses>>

(***************************************************************************)
(* dev_last_close, called without the lock: the driver reads drv_state,    *)
(* says goodbye and drains, and only then forgets and frees it.            *)
(***************************************************************************)
BeginClose(p) ==
  /\ Goes(p, "close", "drain")
  /\ uses' = [uses EXCEPT ![p] = drv]
  /\ UNCHANGED <<dev, busy, driver, paths, then>>

EndClose(p) ==
  /\ Goes(p, "drain", then[p])
  /\ IF uses[p] = Nil THEN UNCHANGED <<drv, freed>>
     ELSE drv' = Nil /\ freed' = freed \cup {uses[p]}
  /\ uses' = [uses EXCEPT ![p] = Nil]
  /\ UNCHANGED <<dev, busy, made, from, paths, then>>

(***************************************************************************)
(* rv9_io_dup2 and fork share a path; rv9_io_close and exit release it.    *)
(***************************************************************************)
Share(p, c) ==
  /\ pc[p] = "idle" /\ at[p] # NoPath /\ pc[c] = "idle" /\ at[c] = NoPath
  /\ at' = [at EXCEPT ![c] = at[p]] /\ refs' = [refs EXCEPT ![at[p]] = @ + 1]
  /\ UNCHANGED <<dev, busy, driver, psession, pc, then, uses>>

\* Bug: a path of an ended session uncounts the one that replaced it.
NeverStale(d) == FALSE

Stale(d) == psession[d] # session

Close(p) ==
  LET d == at[p]
      left == IF open_count > 0 THEN open_count - 1 ELSE 0
      last == refs[d] = 1 /\ ~Stale(d)
  IN /\ pc[p] \in {"idle", "dead"} /\ d # NoPath
     /\ last => MayJustClose
     /\ at' = [at EXCEPT ![p] = NoPath] /\ refs' = [refs EXCEPT ![d] = @ - 1]
     /\ open_count' = IF last THEN left ELSE open_count
     /\ IF last /\ left = 0
        THEN /\ pc' = [pc EXCEPT ![p] = "close"] /\ then' = [then EXCEPT ![p] = "idle"]
        ELSE /\ pc' = [pc EXCEPT ![p] = "idle"] /\ UNCHANGED then
     /\ UNCHANGED <<hanging, session, busy, driver, psession, uses>>

(***************************************************************************)
(* rv9_io_read and rv9_io_write: session_enter, the file manager's calls   *)
(* of the driver, session_leave.                                           *)
(***************************************************************************)
Enter(p) ==
  /\ Goes(p, "idle", "enter") /\ at[p] # NoPath /\ busy < MaxBusy
  /\ busy' = busy + 1
  /\ UNCHANGED <<dev, driver, paths, then, uses>>

\* Bug: whoever has a path is let in.
AnyAdmitted(p) == TRUE

Admitted(p) == psession[at[p]] = session

Check(p) ==
  /\ pc[p] = "enter"
  /\ IF Admitted(p) THEN Goes(p, "enter", "in") /\ UNCHANGED busy
     ELSE Goes(p, "enter", "idle") /\ busy' = busy - 1
  /\ UNCHANGED <<dev, driver, paths, then, uses>>

\* SCF calls the driver as often as it needs to; each call reads drv_state.
Drive(p) ==
  /\ pc[p] = "in" /\ uses[p] = Nil /\ drv # Nil
  /\ uses' = [uses EXCEPT ![p] = drv]
  /\ UNCHANGED <<dev, busy, driver, paths, pc, then>>

Driven(p) ==
  /\ pc[p] = "in" /\ uses[p] # Nil
  /\ uses' = [uses EXCEPT ![p] = Nil]
  /\ UNCHANGED <<dev, busy, driver, paths, pc, then>>

Leave(p) ==
  /\ Goes(p, "in", "idle") /\ uses[p] = Nil
  /\ busy' = busy - 1
  /\ UNCHANGED <<dev, driver, paths, then, uses>>

(***************************************************************************)
(* hangup: RV9_SS_HANGUP by whoever serves the session.                    *)
(***************************************************************************)
NextSession == session + 1

Hangup(p) ==
  /\ at[p] # NoPath /\ ~Stale(at[p]) /\ open_count > 0 /\ ~hanging
  /\ session < MaxSession
  /\ Goes(p, "idle", "hang")
  /\ hanging' = TRUE /\ session' = NextSession /\ open_count' = 0
  /\ UNCHANGED <<busy, driver, paths, then, uses>>

\* Bug: the session is closed whoever is inside.
NeverInside == FALSE

Inside == busy # 0

\* Nobody inside: an ordinary close.  Somebody: drv->hangup, and wait.
HangsUp(p) ==
  /\ IF Inside THEN Goes(p, "hang", "hangwait") /\ UNCHANGED then
     ELSE Goes(p, "hang", "close") /\ then' = [then EXCEPT ![p] = "unhang"]
  /\ UNCHANGED <<dev, busy, driver, paths, uses>>

AllOut(p) ==
  /\ Goes(p, "hangwait", "close") /\ ~Inside
  /\ then' = [then EXCEPT ![p] = "unhang"]
  /\ UNCHANGED <<dev, busy, driver, paths, uses>>

\* Bug: the wait for calls to leave has no end.
NeverWaited == FALSE

\* HANGUP_WAIT_MS is over.
Waited == CutsOff

\* Better lost than freed under a call still using it.
Abandon(p) ==
  /\ Goes(p, "hangwait", "unhang") /\ Inside /\ Waited
  /\ drv' = Nil
  /\ UNCHANGED <<dev, busy, made, freed, from, paths, then, uses>>

Unhang(p) ==
  /\ Goes(p, "unhang", "idle")
  /\ hanging' = FALSE
  /\ UNCHANGED <<open_count, session, busy, driver, paths, then, uses>>

\* rv9_proc_kill of a process asleep in the call it is in.
Killed(p) ==
  /\ pc[p] \in StopsAt
  /\ pc' = [pc EXCEPT ![p] = IF at[p] = NoPath THEN "idle" ELSE "dead"]
  /\ uses' = [uses EXCEPT ![p] = Nil]
  /\ UNCHANGED <<dev, busy, driver, paths, then>>

Opening(p) == \/ OpenRefused(p) \/ Established(p) \/ NotEstablished(p) \/ Uncount(p)
              \/ BeginClose(p) \/ EndClose(p)
              \/ \E d \in Paths : Open(p, d)
Sharing(p) == Close(p) \/ \E c \in Procs : Share(p, c)
Calling(p) == Enter(p) \/ Check(p) \/ Drive(p) \/ Driven(p) \/ Leave(p)
HangingUp(p) == Hangup(p) \/ HangsUp(p) \/ AllOut(p) \/ Abandon(p) \/ Unhang(p)

Next ==
  /\ \E p \in Procs : Opening(p) \/ Sharing(p) \/ Calling(p) \/ HangingUp(p) \/ Killed(p)
  /\ UNCHANGED world

Spec == Init /\ [][Next]_vars

\* A process goes on with what it is in the middle of, and the clock with what
\* it is waiting for.
FairSpec == Spec /\ \A p \in Procs :
  WF_vars(/\ BeginClose(p) \/ EndClose(p) \/ HangsUp(p) \/ AllOut(p) \/ Abandon(p) \/ Unhang(p)
          /\ UNCHANGED world)

(***************************************************************************)
(* What a session promises.                                                *)
(***************************************************************************)
TypeOK ==
  /\ open_count \in Nat /\ hanging \in BOOLEAN /\ session \in 0..MaxSession /\ busy \in Nat
  /\ drv \in Made \cup {Nil} /\ made \in 0..MaxMade /\ freed \subseteq Made
  /\ at \in [Procs -> Paths \cup {NoPath}] /\ refs \in [Paths -> Nat]
  /\ psession \in [Paths -> 0..MaxSession] /\ from \in [Made -> Paths \cup {NoPath}]
  /\ pc \in [Procs -> Points] /\ then \in [Procs -> {"idle", "uncount", "unhang"}]
  /\ uses \in [Procs -> Made \cup {Nil}]

\* design.md:3799-3800: "Freeing the session under it would be a
\* use-after-free."  No call has a freed session in hand, though it was cut off
\* or stopped, as long as a last close comes after a hangup.
NothingFreedInUse ==
  /\ TypeOK
  /\ ~MayJustClose => \A p \in Procs : uses[p] \notin freed

\* io.h:329-330: "`busy` counts calls inside the driver right now", as long
\* as nobody is stopped there.
BusyIsCalls == StopsAt = {} => busy = Cardinality({p \in Procs : pc[p] \in {"enter", "in"}})

\* design.md:3791-3793: a path "from an ended session gets RV9_IOE_IO without
\* reaching the driver": whatever driver session a call has in hand was
\* established for the path it came by, as long as calls leave when hung up on.
CallsReachTheirOwn ==
  ~CutsOff => \A p \in Procs : pc[p] = "in" /\ uses[p] # Nil => from[uses[p]] = at[p]

\* io.c:415-416: "a session belongs to whoever established it".  A path of the
\* current session, once open, has the session it established behind it.
SessionBehindPath ==
  \A p \in Procs :
    at[p] # NoPath /\ pc[p] # "dead" /\ ~Stale(at[p])
    /\ (\A q \in Procs : at[q] = at[p] => pc[q] \notin {"open", "close", "drain", "uncount"})
    => drv # Nil /\ from[drv] = at[p]

\* A session the driver established is the current one, or somebody is closing
\* it, or it has been freed: none is lost with what it holds (its socket, its
\* keys, its memory), where calls leave and a last close comes after a hangup.
NothingLost ==
  ~CutsOff /\ ~MayJustClose => \A s \in 1..made : s \in freed \/ drv = s \/ \E p \in Procs : uses[p] = s

\* What decides who is first and who is last, and who is refused: open_count is
\* the paths of the current session, references are what processes have, and
\* "`hanging` refuses new opens while a hangup is still in progress"
\* (io.h:331) and no longer.
DeviceAccounted ==
  /\ open_count = Cardinality({d \in Paths : refs[d] > 0 /\ psession[d] = session})
  /\ \A d \in Paths : refs[d] = Cardinality({p \in Procs : at[p] = d})
  /\ BusyIsCalls
  /\ hanging => \E p \in Procs :
       \/ pc[p] \in {"hang", "hangwait", "unhang"}
       \/ pc[p] \in {"close", "drain"} /\ then[p] = "unhang"

\* A hangup ends, however many calls are inside and stay, once HANGUP_WAIT_MS
\* has been waited; the device can be opened again.
HangupEnds == CutsOff => (hanging ~> ~hanging)
=============================================================================
