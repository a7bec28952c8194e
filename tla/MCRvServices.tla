---------------------------- MODULE MCRvServices ----------------------------
(***************************************************************************)
(* Instances for TLC of the services that share no state with each other:  *)
(* locks, claims, publications, releases, admission, files, the flash disk, *)
(* the log, the kernel's heap, the module directory, listeners, a session  *)
(* of ssh and the shell.  A behaviour is of one of them, chosen at the     *)
(* start; the rest stand still.                                            *)
(***************************************************************************)
EXTENDS MCRvLock, RvClaims, RvPublish, MCRvRelease, RvAdmit, MCRvFile, RvFlash, RvLog, RvHeap,
        RvModules, RvListen, RvSsh, RvShell

CONSTANTS p1, p2, d1, d2, w1, w2, w3, o1, o2, c1, b1, b2, bit, kernel, radio, q1, q2, q3

VARIABLE service

\* What a program wants alone, and what it promises to park: nothing, what it
\* wants, and a device it has not asked for.
Manifest(needs, parks) == [needs |-> needs, parks |-> parks]
Plans == {Manifest({}, {}), Manifest({d1, d2}, {d1, d2}), Manifest({d2}, {d1})}

\* A writer is stopped outside its copy, and not between taking a waiter's
\* arm and giving to it.
BeforeOrAfter == {"closed", "open", "look", "take"}

\* One observer takes snapshots: they change nothing that another reads.
OneTakesSnapshots == \A o \in Observers \ {o1} : obs'[o].pc # "before"

\* Tight loops that push each other out of the way, one pinned where the others
\* must leave it, one that says it is routine, two released by events.
Loop(c, t, d, pin, event) == [c |-> c, t |-> t, d |-> d, pin |-> pin, event |-> event]
Loops == {Loop(1, 4, 2, "derived", TRUE), Loop(1, 6, 3, "derived", FALSE),
          Loop(2, 8, 4, "urgent", TRUE), Loop(1, 6, 6, "routine", FALSE)}

\* One writer's manifest does not name the cell it writes: it comes where nobody
\* watches, and takes turns with the two whose manifests do.
ThirdUnwatched == pub'[w3].pc = "out" \/ \A o \in Observers : obs'[o].pc = "away"

\* A small one, an odd one, a large one, one that is two, and one whose product
\* comes round.
Ask(count, each) == [count |-> count, each |-> each]
Asks == {Ask(1, 1), Ask(1, 3), Ask(1, 6), Ask(2, 4), Ask(8, 9)}

\* A store of two modules with a bad one between, and what may come by a path: a
\* newer one, and one of the same revision.
Module(name, revision, realtime) ==
  [what |-> "module", name |-> name, revision |-> revision, realtime |-> realtime]
Partition == <<Module("shell", 1, FALSE), [what |-> "rejected"], Module("control", 1, TRUE),
               [what |-> "end"]>>
Newcomers == {Module("shell", 2, FALSE), Module("control", 1, TRUE)}

\* Clients with credit that lasts, who try the login, make requests or type; and
\* one with hardly any.
Sitting(window, logins, asks, typed, writes) ==
  [window |-> window, logins |-> logins, asks |-> asks, typed |-> typed, said |-> writes]
Clients == {Sitting(9, 3, 0, 0, 0), Sitting(9, 1, 3, 0, 1), Sitting(9, 1, 2, 4, 0),
            Sitting(1, 1, 2, 2, 3)}

\* Shells that read a script, that do not, and that were given no input or no
\* output.
WithOpen(open) == [s \in Fds |-> IF s \in open THEN <<"tty", 0>> ELSE Nothing]
Prompts == {WithOpen({0, 1, 2, 3, 4}), WithOpen({0, 1, 2}), WithOpen({1, 2, 4}),
            WithOpen({0, 2, 3})}

ServicesInit ==
  /\ service \in {"lock", "claims", "publish", "release", "admit", "file", "flash", "log", "heap",
                 "modules", "listen", "ssh", "shell"}
  /\ CastInit /\ ClaimsInit /\ PubInit /\ RtInit /\ AdmitInit /\ FileInit
  /\ FlashInit /\ LogInit /\ HeapInit /\ ModInit /\ ListenInit /\ SshInit /\ ShellInit
  \* One start for those that stand still.
  /\ service # "lock" => cpu = 1 /\ cast.plays = {1, 2, 3} /\ ~cast.nests
  /\ service # "release" => at[loop] = "gone"
  /\ service # "file" => happens = {"truncate"}
  /\ service # "ssh" => sitting = Sitting(9, 3, 0, 0, 0)
  /\ service # "shell" => home = WithOpen({0, 1, 2})
  /\ service # "modules" => mapped /\ directory \in Scanned(Len(Store) - 1)

\* The others first: they stand still, and the steps of the one follow.
ServicesNext ==
  /\ UNCHANGED service
  /\ service # "lock" => UNCHANGED <<vars, cast>>
  /\ service # "claims" => UNCHANGED claimVars
  /\ service # "publish" => UNCHANGED pubVars
  /\ service # "release" => UNCHANGED rtVars
  /\ service # "admit" => UNCHANGED admitVars
  /\ service # "file" => UNCHANGED fileVars
  /\ service # "flash" => UNCHANGED flashVars
  /\ service # "log" => UNCHANGED logVars
  /\ service # "heap" => UNCHANGED heapVars
  /\ service # "modules" => UNCHANGED modVars
  /\ service # "listen" => UNCHANGED netVars
  /\ service # "ssh" => UNCHANGED sshVars
  /\ service # "shell" => UNCHANGED shellVars
  /\ \/ service = "lock" /\ CastNext
     \/ service = "claims" /\ ClaimsNext
     \/ service = "publish" /\ PubNext /\ OneTakesSnapshots /\ ThirdUnwatched
     \/ service = "release" /\ RtNext
     \/ service = "admit" /\ AdmitNext
     \/ service = "file" /\ FileNext /\ OneNameIsTorn
     \/ service = "flash" /\ FlashNext
     \/ service = "log" /\ LogNext
     \/ service = "heap" /\ HeapNext
     \/ service = "modules" /\ ModNext
     \/ service = "listen" /\ ListenNext
     \/ service = "ssh" /\ SshNext
     \/ service = "shell" /\ ShellNext

ServicesSpec ==
  ServicesInit /\ [][ServicesNext]_<<service, vars, cast, claimVars, pubVars, rtVars, admitVars,
                                     fileVars, flashVars, logVars, heapVars, modVars, netVars, sshVars, shellVars>>
=============================================================================
