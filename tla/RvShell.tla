------------------------------ MODULE RvShell ------------------------------
(***************************************************************************)
(* What the shell (modules/shell/shell.c) does with its paths to run a     *)
(* command, a pipeline, or a command whose answer it keeps: it parks its   *)
(* own input and output, points them elsewhere, forks, takes them back and *)
(* waits.  The path tables are the I/O manager's (io.c): an open gets the  *)
(* lowest free slot, dup2 shares, a child has its parent's first three.    *)
(***************************************************************************)
EXTENDS Integers, FiniteSets

CONSTANTS
  Fds,           \* 0..RV9_MAX_PATHS - 1
  SaveOut, SaveIn,
  MaxStages,     \* PIPE_STAGES
  Homes          \* the tables a shell may have at its prompt

VARIABLES
  home, table,   \* the shell's paths at its prompt, and now
  step,          \* how far the command has come
  command,
  stage,         \* of its pipeline, the one in hand
  pw, pr, prevRead,  \* slots of run_pipeline and capture; NoFd
  saved,         \* what run() has parked
  broken,
  kids           \* per stage what its process has as its first three paths

shellVars == <<home, table, step, command, stage, pw, pr, prevRead, saved, broken, kids>>

NoFd == -1
Nothing == <<"none", 0>>

ASSUME ShellAssumption ==
  /\ Fds \subseteq Nat /\ IsFiniteSet(Fds) /\ {0, 1, 2, SaveOut, SaveIn} \subseteq Fds
  /\ SaveOut \notin {0, 1, SaveIn} /\ SaveIn \notin {0, 1} /\ MaxStages \in Nat \ {0}
  \* What it parks by is free at its prompt, and it holds no pipe of its own.
  /\ Homes \subseteq [Fds -> STRING \X Nat]
  /\ \A h \in Homes : h[SaveOut] = Nothing /\ h[SaveIn] = Nothing
  /\ \A h \in Homes : \A s \in Fds : h[s][1] \notin {"reader", "writer"}

Reader(i) == <<"reader", i>>
Writer(i) == <<"writer", i>>
NoKid == [in |-> Nothing, out |-> Nothing, err |-> Nothing, is |-> "never"]

Commands ==
  [is : {"run"}, stages : {1}, target : BOOLEAN, source : BOOLEAN, background : BOOLEAN]
    \cup [is : {"pipeline"}, stages : 2..MaxStages, target : BOOLEAN, source : BOOLEAN,
          background : BOOLEAN]
    \cup [is : {"capture"}, stages : {1}, target : {FALSE}, source : {FALSE}, background : {FALSE}]
NoCommand ==
  [is |-> "run", stages |-> 1, target |-> FALSE, source |-> FALSE, background |-> FALSE]

ShellInit ==
  /\ home \in Homes /\ table = home /\ step = "prompt" /\ command = NoCommand /\ stage = 1
  /\ pw = NoFd /\ pr = NoFd /\ prevRead = NoFd /\ saved = {} /\ broken = FALSE
  /\ kids = [i \in 1..MaxStages |-> NoKid]

(***************************************************************************)
(* The I/O manager: rv9_io_open, rv9_io_close, rv9_io_dup2, io_on_fork.    *)
(***************************************************************************)
FreeFds(t) == {s \in Fds : t[s] = Nothing}
FirstFree(t) ==
  IF FreeFds(t) = {} THEN NoFd ELSE CHOOSE s \in FreeFds(t) : \A r \in FreeFds(t) : s <= r

\* An open that succeeds; any may fail.
OpenAs(t, path) == [t EXCEPT ![FirstFree(t)] = path]
CanOpen(t) == FreeFds(t) # {}

CloseSlot(t, s) == IF s = NoFd THEN t ELSE [t EXCEPT ![s] = Nothing]
Dup2(t, old, new) == IF t[old] = Nothing THEN t ELSE [t EXCEPT ![new] = t[old]]
Moved(t, old, new) == CloseSlot(Dup2(t, old, new), old)

Child(t) == [in |-> t[0], out |-> t[1], err |-> t[2], is |-> "runs"]

\* The command is over: the shell is back at its prompt, and has forgotten it.
AtPrompt ==
  /\ step' = "prompt" /\ command' = NoCommand /\ stage' = 1 /\ saved' = {} /\ broken' = FALSE
  /\ pw' = NoFd /\ pr' = NoFd /\ prevRead' = NoFd
  /\ kids' = [i \in 1..MaxStages |-> NoKid]

EnterCommand(c) ==
  /\ step = "prompt" /\ step' = "park" /\ command' = c
  /\ UNCHANGED <<table, stage, pw, pr, prevRead, saved, broken, kids>>

(***************************************************************************)
(* Parking, before anything is opened.                                     *)
(***************************************************************************)
Parks ==
  CASE command.is = "run" -> (IF command.target THEN {SaveOut} ELSE {}) \cup
                             (IF command.source THEN {SaveIn} ELSE {})
    [] command.is = "pipeline" -> {SaveOut, SaveIn}
    [] command.is = "capture" -> {SaveOut}

Original(s) == IF s = SaveOut THEN 1 ELSE 0
Parked(t, ss) == [s \in Fds |-> IF s \in ss THEN t[Original(s)] ELSE t[s]]

\* A stream that is not open cannot be parked: what was parked is let go of again.
Park ==
  /\ step = "park"
  /\ IF \E s \in Parks : table[Original(s)] = Nothing
     THEN AtPrompt /\ UNCHANGED table
     ELSE /\ table' = Parked(table, Parks) /\ saved' = Parks
          /\ step' = IF command.is = "run" THEN "out" ELSE "pipe"
          /\ UNCHANGED <<command, stage, pw, pr, prevRead, broken, kids>>

\* Back from the copies, and these let go of.
TakenBack(t, ss) ==
  [s \in Fds |-> IF \E k \in ss : s = Original(k) THEN t[CHOOSE k \in ss : s = Original(k)]
                 ELSE t[s]]
Restored(t, ss) == [s \in Fds |-> IF s \in ss THEN Nothing ELSE TakenBack(t, ss)[s]]

(***************************************************************************)
(* Pipes, and where input and output go.                                   *)
(***************************************************************************)
\* Both ends, before either child.
OpenPipe ==
  /\ step = "pipe"
  /\ IF stage = command.stages /\ command.is = "pipeline"
     THEN step' = "out" /\ UNCHANGED <<table, pw, pr, broken>>
     ELSE LET w == OpenAs(table, Writer(stage))
          IN \/ /\ CanOpen(table) /\ CanOpen(w)
                /\ pw' = FirstFree(table) /\ pr' = FirstFree(w)
                /\ table' = OpenAs(w, Reader(stage)) /\ step' = "out" /\ UNCHANGED broken
             \* Neither, or the one without the other.
             \/ broken' = TRUE /\ step' = "finish" /\ UNCHANGED <<table, pw, pr>>
  /\ UNCHANGED <<command, stage, prevRead, saved, kids>>

AimOut ==
  /\ step = "out"
  /\ IF command.target /\ stage = command.stages
     THEN \/ /\ CanOpen(table) /\ step' = "in" /\ UNCHANGED broken
             /\ table' = Moved(OpenAs(table, <<"target", 0>>), FirstFree(table), 1)
          \/ broken' = TRUE /\ UNCHANGED table /\ step' = "in"
     ELSE /\ table' = IF pw = NoFd THEN table ELSE Dup2(table, pw, 1)
          /\ step' = "in" /\ UNCHANGED broken
  /\ UNCHANGED <<command, stage, pw, pr, prevRead, saved, kids>>

AimIn ==
  /\ step = "in"
  /\ \/ /\ broken /\ UNCHANGED <<table, broken>>
     \/ /\ ~broken /\ command.source /\ stage = 1
        /\ \/ /\ CanOpen(table) /\ UNCHANGED broken
              /\ table' = Moved(OpenAs(table, <<"source", 0>>), FirstFree(table), 0)
           \/ broken' = TRUE /\ UNCHANGED table
     \/ /\ ~broken /\ ~(command.source /\ stage = 1) /\ UNCHANGED broken
        /\ table' = IF prevRead = NoFd THEN table ELSE Dup2(table, prevRead, 0)
  /\ step' = "fork"
  /\ UNCHANGED <<command, stage, pw, pr, prevRead, saved, kids>>

\* fork_arg, unless something has failed, when run() has nothing left to do.
ForkStage ==
  /\ step = "fork"
  /\ \/ ~broken /\ kids' = [kids EXCEPT ![stage] = Child(table)] /\ UNCHANGED broken
     \/ broken' = TRUE /\ UNCHANGED kids
  /\ step' = IF command.is # "run" THEN "release"
             ELSE IF broken' \/ command.background THEN "finish" ELSE "wait"
  /\ UNCHANGED <<table, command, stage, pw, pr, prevRead, saved>>

\* A stage is on its way; there is another, or none.
NextStage ==
  \/ /\ command.is = "pipeline" /\ ~broken /\ stage < command.stages
     /\ stage' = stage + 1 /\ step' = "pipe"
  \/ /\ command.is = "pipeline" /\ (broken \/ stage = command.stages)
     /\ step' = "finish" /\ UNCHANGED stage
  \/ command.is = "capture" /\ step' = "finish" /\ UNCHANGED stage

\* Bug: the shell keeps the end it wrote by.
LetGoKeeping ==
  /\ step = "release" /\ NextStage
  /\ table' = CloseSlot(TakenBack(table, saved), prevRead)
  /\ prevRead' = pr /\ pw' = NoFd /\ pr' = NoFd
  /\ UNCHANGED <<command, saved, broken, kids>>

\* Its own back, and both ends let go of: "a reader learns a stage has finished
\* when the last writer closes".
LetGo ==
  /\ step = "release" /\ NextStage
  /\ table' = CloseSlot(CloseSlot(TakenBack(table, saved), prevRead), pw)
  /\ prevRead' = pr /\ pw' = NoFd /\ pr' = NoFd
  /\ UNCHANGED <<command, saved, broken, kids>>

\* What run() had parked, or what is left of a pipeline or a capture.
FinishCommand ==
  /\ step = "finish"
  /\ LET kept == command.is = "capture" /\ ~broken
         t == IF kept THEN table ELSE CloseSlot(table, prevRead)
     IN /\ table' = Restored(t, saved) /\ saved' = {}
        /\ prevRead' = IF kept THEN prevRead ELSE NoFd
        /\ step' = IF kept THEN "drain"
                   ELSE IF command.is = "pipeline" /\ ~command.background THEN "wait" ELSE "done"
  /\ UNCHANGED <<command, stage, pw, pr, broken, kids>>

(***************************************************************************)
(* Reading to the end, and waiting.                                        *)
(***************************************************************************)
\* Who writes by a pipe: a child, or the shell.
Writes(i) ==
  \/ \E k \in 1..MaxStages : kids[k].is = "runs" /\ Writer(i) \in {kids[k].out, kids[k].err}
  \/ \E s \in Fds : table[s] = Writer(i)

\* The end of the file is when nobody writes any more.
ReadAnswer ==
  /\ step = "drain" /\ ~Writes(1)
  /\ table' = CloseSlot(table, prevRead) /\ prevRead' = NoFd /\ step' = "wait"
  /\ UNCHANGED <<command, stage, pw, pr, saved, broken, kids>>

WaitForAll ==
  /\ step = "wait" /\ \A k \in 1..MaxStages : kids[k].is # "runs"
  /\ step' = IF command.is = "run" THEN "finish" ELSE "done"
  /\ UNCHANGED <<table, command, stage, pw, pr, prevRead, saved, broken, kids>>

\* The answer is the last stage's; what runs in the background runs on.
Forget == step = "done" /\ AtPrompt /\ UNCHANGED table

\* A process that reads by a pipe to its end, or one that does not, leaves.
KidLeaves(k) ==
  /\ kids[k].is = "runs"
  /\ \/ kids[k].in[1] = "reader" /\ ~Writes(kids[k].in[2])
     \/ kids[k].in[1] # "reader"
  /\ kids' = [kids EXCEPT ![k].is = "gone"]
  /\ UNCHANGED <<table, step, command, stage, pw, pr, prevRead, saved, broken>>

ShellNext ==
  /\ UNCHANGED home
  /\ \/ \E c \in Commands : EnterCommand(c)
     \/ Park \/ OpenPipe \/ AimOut \/ AimIn \/ ForkStage \/ LetGo \/ FinishCommand
     \/ ReadAnswer \/ WaitForAll \/ Forget
     \/ \E k \in 1..MaxStages : KidLeaves(k)

ShellSpec == ShellInit /\ [][ShellNext]_shellVars

(***************************************************************************)
(* Properties.                                                             *)
(***************************************************************************)
PathsHeld == {table[s] : s \in Fds}

\* Whatever failed on the way, the shell has at its prompt what it had at the last
\* one; and while it waits for its children or reads one's answer it holds no
\* end of a pipe but the one it reads by, so that every reader comes to an end.
LetsGo ==
  /\ step = "prompt" => table = home
  /\ step = "wait" => \A e \in PathsHeld : e[1] \notin {"reader", "writer"}
  /\ step = "drain" => \A e \in PathsHeld : e[1] # "writer"

\* What a stage writes is what the next one reads: opening the pipe did not land on
\* what was parked, and taking it back did not close the pipe.
Joined ==
  \A i \in 1..MaxStages : kids[i].is = "runs" /\ step # "prompt" =>
    /\ kids[i].out = IF command.is = "capture" \/ i < command.stages THEN Writer(i)
                     ELSE IF command.target THEN <<"target", 0>> ELSE home[1]
    \* A shell whose own input is closed opens a capture's pipe in its place.
    /\ command.is # "capture" \/ home[0] # Nothing =>
         kids[i].in = IF i > 1 THEN Reader(i - 1)
                      ELSE IF command.source THEN <<"source", 0>> ELSE home[0]

\* A command's paths are what its line says, and no end of a pipe is left behind
\* in the shell (shell.c:846 and shell.c:976), in a pipeline of any length, with
\* or without redirections, whatever does not open or does not start.
ShellLetsGo == LetsGo /\ Joined
=============================================================================
