-------------------------- MODULE RvSessionProofs --------------------------
(***************************************************************************)
(* What a program reaches through a path.  Paths, sessions and hangups of  *)
(* RvSession, for any number of processes, paths and sessions, and for     *)
(* every kind of world the runs check: what decides who is first and last  *)
(* agrees with who has what, a call has in hand the session of its own     *)
(* path, and none that is freed or lost.  The shell of RvShell, for any    *)
(* number of stages and of paths, whatever fails: it lets go of what it    *)
(* opens and redirects.  A session of ssh of RvSsh, for any client, sizes  *)
(* and windows: a client that stays to its end has heard everything.       *)
(***************************************************************************)
EXTENDS RvSession, RvShell, RvSsh, RvLemmas, FiniteSetTheorems, SequenceTheorems, TLAPS

Having(d) == {p \in Procs : at[p] = d}
Current == {d \in Paths : refs[d] > 0 /\ psession[d] = session}
Calls == {p \in Procs : pc[p] \in {"enter", "in"}}

\* In the middle of an open, of a hangup, and of a last close with neither.
Opens(p) == pc[p] \in {"open", "uncount"} \/ (pc[p] \in {"close", "drain"} /\ then[p] = "uncount")
Hangs(p) ==
  pc[p] \in {"hang", "hangwait", "unhang"} \/ (pc[p] \in {"close", "drain"} /\ then[p] = "unhang")
JustCloses(p) == pc[p] \in {"close", "drain"} /\ then[p] = "idle"

\* References are the processes that have a path, the count is the paths of
\* the current session, and no path is of a session to come.
Counted ==
  /\ \A d \in Paths : refs[d] = Cardinality(Having(d)) /\ psession[d] <= session
  /\ open_count = Cardinality(Current)

\* A call stopped inside is still counted.
BusyCounts == Cardinality(Calls) <= busy /\ BusyIsCalls

\* Who opens is alone with the one path of the session; there is one hangup at
\* a time, during which the session has none, and its own path is of the last.
Places ==
  /\ open_count <= 1 /\ (hanging => open_count = 0)
  /\ \A p \in Procs :
       /\ Opens(p) => at[p] \in Current /\ refs[at[p]] = 1
       /\ Hangs(p) => hanging /\ at[p] \in Paths /\ Stale(at[p])
                      /\ \A q \in Procs : Hangs(q) => q = p
       /\ JustCloses(p) => at[p] = NoPath
       /\ pc[p] \in {"enter", "in"} => at[p] \in Paths

\* A hangup gets to its close when nobody is inside.
NobodyInside ==
  \A p \in Procs : Hangs(p) /\ pc[p] \in {"close", "drain"} => \A q \in Procs : pc[q] # "in"

\* What is in hand was made.
Hands ==
  /\ drv # Nil => drv <= made
  /\ \A s \in freed : s <= made
  /\ \A p \in Procs : uses[p] # Nil => pc[p] \in {"in", "drain"} /\ uses[p] <= made

\* Where calls leave.  One of an ended session keeps the hangup waiting; the
\* session behind the device is that of whoever is at its path or inside.
Own ==
  ~CutsOff =>
    \A p \in Procs :
      /\ pc[p] = "in" /\ Stale(at[p]) =>
           hanging /\ \A h \in Procs : Hangs(h) => pc[h] \in {"hang", "hangwait"}
      /\ pc[p] = "in" /\ drv # Nil => from[drv] = at[p]
      /\ pc[p] \in {"idle", "enter"} /\ at[p] \in Current /\ drv # Nil => from[drv] = at[p]
      /\ pc[p] = "in" /\ uses[p] # Nil => from[uses[p]] = at[p]

\* Where a last close comes after a hangup.  The device has a session behind it
\* only between an open and the end of the hangup, which has it in hand.
Neat ==
  ~MayJustClose =>
    /\ drv # Nil /\ ~hanging => open_count > 0
    /\ drv \notin freed
    /\ \A p \in Procs :
         /\ ~JustCloses(p) /\ uses[p] \notin freed
         /\ Opens(p) => drv = Nil /\ uses[p] = Nil
         /\ pc[p] = "unhang" => drv = Nil
         /\ pc[p] = "drain" /\ then[p] = "unhang" => uses[p] = drv

\* Where both are so: what a call has in hand is what the device has.
Held ==
  ~CutsOff /\ ~MayJustClose =>
    /\ \A p \in Procs : pc[p] = "in" /\ uses[p] # Nil => uses[p] = drv
    /\ \A s \in 1..made : s \in freed \/ drv = s

SessionInv ==
  /\ TypeOK /\ world \in Worlds
  /\ Counted /\ BusyCounts /\ Places /\ NobodyInside /\ Hands /\ Own /\ Neat /\ Held

(***************************************************************************)
(* Counting.                                                               *)
(***************************************************************************)
LEMMA OneMoreOrLess ==
  ASSUME NEW S, IsFiniteSet(S), NEW x
  PROVE  /\ Cardinality(S) \in Nat /\ (Cardinality(S) = 0 <=> S = {})
         /\ x \notin S => /\ IsFiniteSet(S \cup {x})
                          /\ Cardinality(S \cup {x}) = Cardinality(S) + 1
         /\ x \in S => /\ Cardinality(S \ {x}) = Cardinality(S) - 1
                       /\ Cardinality(S) > 0
BY SMTT(30), FS_CardinalityType, FS_EmptySet, FS_AddElement, FS_RemoveElement

LEMMA Alone ==
  ASSUME NEW S, IsFiniteSet(S), Cardinality(S) <= 1, NEW x \in S, NEW y \in S
  PROVE  x = y
<1>1. Cardinality(S \ {x}) = Cardinality(S) - 1 /\ Cardinality(S) \in Nat BY OneMoreOrLess
<1>2. IsFiniteSet(S \ {x}) BY FS_RemoveElement
<1>3. Cardinality(S \ {x}) = 0
  <2>1. Cardinality(S \ {x}) \in Nat BY <1>2, FS_CardinalityType
  <2> QED BY <1>1, <2>1
<1>4. S \ {x} = {} BY <1>2, <1>3, FS_EmptySet
<1> QED BY <1>4

LEMMA Finite ==
  /\ IsFiniteSet(Current) /\ IsFiniteSet(Calls)
  /\ \A d \in Paths : IsFiniteSet(Having(d))
BY SessionAssumption, FS_Subset DEF Current, Calls, Having

\* What the counts say of who has what.
LEMMA Haves ==
  ASSUME TypeOK, Counted
  PROVE  /\ \A p \in Procs : at[p] \in Paths => refs[at[p]] >= 1
         /\ \A p, q \in Procs : at[p] \in Paths /\ at[q] = at[p] /\ refs[at[p]] = 1 => q = p
         /\ open_count = 0 <=> Current = {}
         /\ open_count <= 1 => \A d, e \in Current : d = e
         /\ \A p \in Procs : at[p] \in Paths => (at[p] \in Current <=> ~Stale(at[p]))
<1>1. ASSUME NEW p \in Procs, at[p] \in Paths
      PROVE  /\ refs[at[p]] >= 1
             /\ refs[at[p]] = 1 => \A q \in Procs : at[q] = at[p] => q = p
  <2>1. PICK d \in Paths : d = at[p] BY <1>1
  <2>2. IsFiniteSet(Having(d)) /\ p \in Having(d) /\ refs[d] = Cardinality(Having(d))
    BY <2>1, Finite DEF Having, Counted
  <2>3. Cardinality(Having(d)) \in Nat /\ Cardinality(Having(d)) > 0 BY <2>2, OneMoreOrLess
  <2>4. ASSUME refs[d] = 1, NEW q \in Procs, at[q] = d PROVE q = p
    <3>1. q \in Having(d) /\ Cardinality(Having(d)) <= 1 BY <2>2, <2>4 DEF Having
    <3> QED BY <2>2, <3>1, Alone
  <2> QED BY <2>1, <2>2, <2>3, <2>4
<1>2. open_count = 0 <=> Current = {} BY Finite, OneMoreOrLess DEF Counted
<1>3. open_count <= 1 => \A d, e \in Current : d = e BY Finite, Alone DEF Counted
<1>4. \A p \in Procs : at[p] \in Paths => (at[p] \in Current <=> ~Stale(at[p]))
  BY <1>1 DEF Current, Stale, TypeOK
<1> QED BY <1>1, <1>2, <1>3, <1>4

\* One process comes to a path, or goes from it.
LEMMA Comes ==
  ASSUME TypeOK, Counted, NEW p \in Procs, NEW d \in Paths, at[p] = NoPath,
         at' = [at EXCEPT ![p] = d]
  PROVE  \A e \in Paths :
           Cardinality(Having(e)') = IF e = d THEN refs[e] + 1 ELSE refs[e]
<1> SUFFICES ASSUME NEW e \in Paths
             PROVE  Cardinality(Having(e)') = IF e = d THEN refs[e] + 1 ELSE refs[e]
  OBVIOUS
<1>1. Having(e)' = IF e = d THEN Having(e) \cup {p} ELSE Having(e)
  BY SessionAssumption DEF TypeOK, Having
<1>2. p \notin Having(e) BY SessionAssumption DEF Having
<1> QED BY <1>1, <1>2, Finite, OneMoreOrLess DEF Counted

LEMMA Departs ==
  ASSUME TypeOK, Counted, NEW p \in Procs, at[p] \in Paths, at' = [at EXCEPT ![p] = NoPath]
  PROVE  \A e \in Paths :
           Cardinality(Having(e)') = IF e = at[p] THEN refs[e] - 1 ELSE refs[e]
<1> SUFFICES ASSUME NEW e \in Paths
             PROVE  Cardinality(Having(e)') = IF e = at[p] THEN refs[e] - 1 ELSE refs[e]
  OBVIOUS
<1>1. Having(e)' = IF e = at[p] THEN Having(e) \ {p} ELSE Having(e)
  BY SessionAssumption DEF TypeOK, Having
<1>2. e = at[p] => p \in Having(e) BY DEF Having
<1> QED BY <1>1, <1>2, Finite, OneMoreOrLess DEF Counted

(***************************************************************************)
(* Types, and who is left alone by a step.                                 *)
(***************************************************************************)
Step(p) == Opening(p) \/ Sharing(p) \/ Calling(p) \/ HangingUp(p) \/ Killed(p)

LEMMA TypesStep ==
  ASSUME TypeOK, Counted, BusyCounts, NEW p \in Procs, Step(p)
  PROVE  TypeOK'
<1> USE DEF TypeOK, Points, dev, driver, paths, Goes
<1>0. /\ Nil \notin Nat /\ MaxMade \in Nat /\ MaxSession \in Nat
      /\ Made \subseteq Nat /\ NoPath \notin Paths
  BY SessionAssumption DEF Made
<1>1. ASSUME NEW d \in Paths, Open(p, d) PROVE TypeOK' BY <1>1 DEF Open
<1>2. CASE OpenRefused(p) BY <1>2 DEF OpenRefused, vars
<1>3. CASE Established(p)
  <2>1. made + 1 \in Made /\ made' \in 0..MaxMade BY <1>0, <1>3 DEF Established, Made
  <2>2. from' \in [Made -> Paths \cup {NoPath}] /\ pc' \in [Procs -> Points]
    BY <1>3 DEF Established
  <2> QED BY <1>3, <2>1, <2>2 DEF Established
<1>4. CASE NotEstablished(p) \/ BeginClose(p) \/ EndClose(p)
  <2>1. pc' \in [Procs -> Points] /\ then' \in [Procs -> {"idle", "uncount", "unhang"}]
    BY <1>4 DEF NotEstablished, BeginClose, EndClose
  <2>2. uses' \in [Procs -> Made \cup {Nil}] /\ drv' \in Made \cup {Nil} /\ freed' \subseteq Made
    BY <1>4 DEF NotEstablished, BeginClose, EndClose
  <2> QED BY <1>4, <2>1, <2>2 DEF NotEstablished, BeginClose, EndClose
<1>5. CASE Uncount(p)
  <2>1. open_count' \in Nat BY <1>5 DEF Uncount
  <2>2. refs' \in [Paths -> Nat] /\ at' \in [Procs -> Paths \cup {NoPath}] BY <1>5 DEF Uncount
  <2> QED BY <1>5, <2>1, <2>2 DEF Uncount
<1>6. CASE Close(p)
  <2>1. open_count' \in Nat BY <1>6 DEF Close
  <2>2. pc' \in [Procs -> Points] /\ then' \in [Procs -> {"idle", "uncount", "unhang"}]
    BY <1>6 DEF Close
  <2>3. at' \in [Procs -> Paths \cup {NoPath}] BY <1>6 DEF Close
  <2>4. at[p] \in Paths /\ refs[at[p]] >= 1 BY <1>6, Haves DEF Close
  <2>5. refs' \in [Paths -> Nat]
    <3>1. refs' = [refs EXCEPT ![at[p]] = refs[at[p]] - 1] BY <1>6 DEF Close
    <3>2. refs[at[p]] - 1 \in Nat BY <2>4
    <3> QED BY <3>1, <3>2
  <2> QED BY <1>6, <2>1, <2>2, <2>3, <2>5 DEF Close
<1>7. ASSUME NEW c \in Procs, Share(p, c) PROVE TypeOK'
  <2>1. at[p] \in Paths BY <1>7 DEF Share
  <2> QED BY <1>7, <2>1 DEF Share
<1>8. CASE Enter(p) \/ Drive(p) \/ Driven(p)
  BY <1>8 DEF Enter, Drive, Driven
<1>9. CASE Check(p) \/ Leave(p)
  <2>1. p \in Calls BY <1>9 DEF Calls, Check, Leave
  <2>2. busy > 0
    <3>1. IsFiniteSet(Calls) BY Finite
    <3>2. Cardinality(Calls) > 0 /\ Cardinality(Calls) \in Nat BY <2>1, <3>1, OneMoreOrLess
    <3> HIDE DEF TypeOK
    <3>3. busy \in Nat BY DEF TypeOK
    <3> QED BY <3>2, <3>3 DEF BusyCounts
  <2>3. busy' \in Nat BY <1>9, <2>2 DEF Check, Leave
  <2>4. pc' \in [Procs -> Points] BY <1>9 DEF Check, Leave
  <2> QED BY <1>9, <2>3, <2>4 DEF Check, Leave
<1>10. CASE Hangup(p)
  <2>1. session' \in 0..MaxSession BY <1>0, <1>10 DEF Hangup, NextSession
  <2> QED BY <1>10, <2>1 DEF Hangup
<1>11. CASE HangsUp(p) \/ AllOut(p) \/ Abandon(p) \/ Unhang(p)
  <2>1. pc' \in [Procs -> Points] /\ then' \in [Procs -> {"idle", "uncount", "unhang"}]
    BY <1>11 DEF HangsUp, AllOut, Abandon, Unhang
  <2> QED BY <1>11, <2>1 DEF HangsUp, AllOut, Abandon, Unhang
<1>12. CASE Killed(p)
  <2>1. pc' \in [Procs -> Points] /\ uses' \in [Procs -> Made \cup {Nil}] BY <1>12 DEF Killed
  <2> QED BY <1>12, <2>1 DEF Killed
<1> QED BY <1>1, <1>2, <1>3, <1>4, <1>5, <1>6, <1>7, <1>8, <1>9, <1>10, <1>11, <1>12
        DEF Step, Opening, Sharing, Calling, HangingUp

\* A step moves one process, and may give one other a path.
LEMMA OneSteps ==
  ASSUME TypeOK, NEW p \in Procs, Step(p), NEW q \in Procs, q # p
  PROVE  /\ pc'[q] = pc[q] /\ then'[q] = then[q] /\ uses'[q] = uses[q]
         /\ at'[q] = at[q] \/ (pc[q] = "idle" /\ Share(p, q))
         /\ Opens(q)' = Opens(q) /\ Hangs(q)' = Hangs(q) /\ JustCloses(q)' = JustCloses(q)
<1> USE DEF TypeOK, dev, driver, paths, Goes
<1>1. CASE Opening(p)
  BY <1>1 DEF Opening, Open, OpenRefused, vars, Established, NotEstablished, BeginClose, EndClose,
              Uncount, Opens, Hangs, JustCloses
<1>2. CASE Close(p) BY <1>2 DEF Close, Opens, Hangs, JustCloses
<1>3. ASSUME NEW c \in Procs, Share(p, c)
      PROVE  /\ pc'[q] = pc[q] /\ then'[q] = then[q] /\ uses'[q] = uses[q]
             /\ at'[q] = at[q] \/ (pc[q] = "idle" /\ Share(p, q))
  BY <1>3 DEF Share
<1>4. CASE Calling(p)
  BY <1>4 DEF Calling, Enter, Check, Drive, Driven, Leave, Opens, Hangs, JustCloses
<1>5. CASE HangingUp(p)
  BY <1>5 DEF HangingUp, Hangup, HangsUp, AllOut, Abandon, Unhang, Opens, Hangs, JustCloses
<1>6. CASE Killed(p) BY <1>6 DEF Killed, Opens, Hangs, JustCloses
<1> QED BY <1>1, <1>2, <1>3, <1>4, <1>5, <1>6 DEF Step, Sharing, Opens, Hangs, JustCloses

(***************************************************************************)
(* The counts.                                                             *)
(***************************************************************************)
LEMMA CountedStep ==
  ASSUME TypeOK, TypeOK', Counted, Places, NEW p \in Procs, Step(p)
  PROVE  Counted'
<1> USE DEF dev, paths
<1>0. NoPath \notin Paths BY SessionAssumption
<1>1. ASSUME UNCHANGED <<open_count, session, paths>> PROVE Counted'
  BY <1>1 DEF Counted, Having, Current
<1>2. ASSUME NEW d \in Paths, Open(p, d) PROVE Counted'
  <2>1. /\ at[p] = NoPath /\ refs[d] = 0 /\ open_count = 0
        /\ at' = [at EXCEPT ![p] = d] /\ refs' = [refs EXCEPT ![d] = 1]
        /\ psession' = [psession EXCEPT ![d] = session] /\ session' = session /\ open_count' = 1
    BY <1>2 DEF Open, Refused, TypeOK
  <2>2. \A e \in Paths : /\ refs'[e] = IF e = d THEN 1 ELSE refs[e]
                         /\ psession'[e] = IF e = d THEN session ELSE psession[e]
    BY <2>1 DEF TypeOK
  <2>3. \A e \in Paths : refs'[e] = Cardinality(Having(e)') /\ psession'[e] <= session'
    <3>1. \A e \in Paths : Cardinality(Having(e)') = IF e = d THEN refs[e] + 1 ELSE refs[e]
      BY <1>2, <2>1, Comes
    <3>2. session <= session BY SessionAssumption DEF TypeOK
    <3> QED BY <2>1, <2>2, <3>1, <3>2 DEF Counted
  <2>4. Current = {} BY <2>1, Haves
  <2>5. Current' = {d} BY <2>1, <2>2, <2>4 DEF Current
  <2>6. open_count' = Cardinality(Current') BY <2>1, <2>5, FS_Singleton
  <2> QED BY <2>3, <2>6 DEF Counted
<1>3. CASE Uncount(p)
  <2>1. at[p] \in Current /\ at[p] \in Paths /\ refs[at[p]] = 1
    BY <1>3 DEF Uncount, Goes, Places, Opens, Current
  <2>2. PICK d \in Paths : d = at[p] BY <2>1
  <2>3. /\ at' = [at EXCEPT ![p] = NoPath] /\ refs' = [refs EXCEPT ![d] = 0]
        /\ UNCHANGED <<psession, session>>
        /\ open_count' = IF open_count > 0 THEN open_count - 1 ELSE 0
    BY <1>3, <2>2 DEF Uncount
  <2>4. \A e \in Paths : refs'[e] = IF e = d THEN 0 ELSE refs[e] BY <2>3 DEF TypeOK
  <2>5. \A e \in Paths : refs'[e] = Cardinality(Having(e)') /\ psession'[e] <= session'
    <3>1. \A e \in Paths : Cardinality(Having(e)') = IF e = d THEN refs[e] - 1 ELSE refs[e]
      BY <2>1, <2>2, <2>3, Departs
    <3> QED BY <2>1, <2>2, <2>3, <2>4, <3>1 DEF Counted
  <2>6. Current' = Current \ {d} BY <2>3, <2>4 DEF Current
  <2>7. open_count' = Cardinality(Current')
    BY <2>1, <2>2, <2>3, <2>6, Finite, OneMoreOrLess DEF Counted
  <2> QED BY <2>5, <2>7 DEF Counted
<1>4. ASSUME NEW c \in Procs, Share(p, c) PROVE Counted'
  <2>1. at[p] \in Paths /\ at[c] = NoPath /\ UNCHANGED <<open_count, session, psession>>
    BY <1>4 DEF Share, TypeOK
  <2>2. PICK d \in Paths : d = at[p] BY <2>1
  <2>3. at' = [at EXCEPT ![c] = d] /\ refs' = [refs EXCEPT ![d] = refs[d] + 1]
    BY <1>4, <2>2 DEF Share
  <2>4. \A e \in Paths : refs'[e] = IF e = d THEN refs[e] + 1 ELSE refs[e] BY <2>3 DEF TypeOK
  <2>5. \A e \in Paths : refs'[e] = Cardinality(Having(e)') /\ psession'[e] <= session'
    BY <2>1, <2>3, <2>4, Comes DEF Counted
  <2>6. refs[d] >= 1 BY <2>2, Haves
  <2>7. Current' = Current BY <2>1, <2>4, <2>6 DEF Current, TypeOK
  <2> QED BY <2>1, <2>5, <2>7 DEF Counted
<1>5. CASE Close(p)
  <2>1. at[p] \in Paths BY <1>5 DEF Close, TypeOK
  <2>2. PICK d \in Paths : d = at[p] BY <2>1
  <2>3. /\ at' = [at EXCEPT ![p] = NoPath] /\ refs' = [refs EXCEPT ![d] = refs[d] - 1]
        /\ UNCHANGED <<psession, session>>
        /\ open_count' = IF refs[d] = 1 /\ ~Stale(d)
                         THEN IF open_count > 0 THEN open_count - 1 ELSE 0 ELSE open_count
    BY <1>5, <2>2 DEF Close
  <2>4. refs[d] >= 1 /\ refs[d] \in Nat BY <2>2, Haves DEF TypeOK
  <2>5. \A e \in Paths : refs'[e] = IF e = d THEN refs[e] - 1 ELSE refs[e] BY <2>3 DEF TypeOK
  <2>6. \A e \in Paths : refs'[e] = Cardinality(Having(e)') /\ psession'[e] <= session'
    BY <2>1, <2>2, <2>3, <2>5, Departs DEF Counted
  <2>7. CASE refs[d] = 1 /\ ~Stale(d)
    <3>1. d \in Current BY <2>7 DEF Current, Stale
    <3>2. Current' = Current \ {d} BY <2>3, <2>5, <2>7 DEF Current
    <3>3. open_count' = Cardinality(Current')
      BY <2>3, <2>7, <3>1, <3>2, Finite, OneMoreOrLess DEF Counted
    <3> QED BY <2>6, <3>3 DEF Counted
  <2>8. CASE ~(refs[d] = 1 /\ ~Stale(d))
    <3>1. Current' = Current BY <2>3, <2>4, <2>5, <2>8 DEF Current, Stale
    <3> QED BY <2>3, <2>6, <2>8, <3>1 DEF Counted
  <2> QED BY <2>7, <2>8
<1>6. CASE Hangup(p)
  <2>1. session' = session + 1 /\ open_count' = 0 /\ UNCHANGED paths
    BY <1>6 DEF Hangup, NextSession
  <2>2. \A e \in Paths : psession'[e] <= session /\ session \in Nat /\ psession'[e] \in Nat
    BY <2>1 DEF Counted, TypeOK
  <2>3. Current' = {} BY <2>1, <2>2 DEF Current
  <2>4. open_count' = Cardinality(Current') BY <2>1, <2>3, FS_EmptySet
  <2>5. \A e \in Paths : refs'[e] = Cardinality(Having(e)') BY <2>1 DEF Counted, Having
  <2> QED BY <2>1, <2>2, <2>4, <2>5 DEF Counted
<1>7. CASE OpenRefused(p) \/ Established(p) \/ NotEstablished(p) \/ BeginClose(p) \/ EndClose(p)
             \/ Calling(p) \/ Killed(p)
  BY <1>1, <1>7 DEF OpenRefused, vars, Established, NotEstablished, BeginClose, EndClose, Calling,
                    Enter, Check, Drive, Driven, Leave, Killed
<1>8. CASE HangsUp(p) \/ AllOut(p) \/ Abandon(p) \/ Unhang(p)
  BY <1>1, <1>8 DEF HangsUp, AllOut, Abandon, Unhang
<1> QED BY <1>2, <1>3, <1>4, <1>5, <1>6, <1>7, <1>8 DEF Step, Opening, Sharing, HangingUp

\* Calls are counted as they enter and as they leave.
LEMMA BusyStep ==
  ASSUME TypeOK, TypeOK', BusyCounts, UNCHANGED world, NEW p \in Procs, Step(p)
  PROVE  BusyCounts'
<1> USE DEF Goes, dev
<1>0. /\ busy \in Nat /\ IsFiniteSet(Calls) /\ Cardinality(Calls) \in Nat
      /\ Cardinality(Calls) <= busy /\ (StopsAt = {} => busy = Cardinality(Calls))
      /\ StopsAt' = StopsAt
  BY Finite, FS_CardinalityType DEF TypeOK, BusyCounts, BusyIsCalls, Calls, StopsAt
<1>1. ASSUME busy' \in Nat, Cardinality(Calls') <= busy',
             StopsAt = {} => busy' = Cardinality(Calls')
      PROVE  BusyCounts'
  BY <1>0, <1>1 DEF BusyCounts, BusyIsCalls, Calls
<1>2. CASE Enter(p)
  <2>1. p \notin Calls /\ Calls' = Calls \cup {p} BY <1>2 DEF Enter, Calls, TypeOK
  <2> QED BY <1>0, <1>1, <1>2, <2>1, OneMoreOrLess DEF Enter
<1>3. CASE Leave(p) \/ (Check(p) /\ ~Admitted(p))
  <2>1. p \in Calls /\ Calls' = Calls \ {p} BY <1>3 DEF Leave, Check, Calls, TypeOK
  <2>2. busy' = busy - 1 /\ busy' \in Nat BY <1>3 DEF Leave, Check, TypeOK
  <2> QED BY <1>0, <1>1, <2>1, <2>2, OneMoreOrLess
<1>4. CASE Killed(p)
  <2>1. Calls' \subseteq Calls /\ busy' = busy /\ StopsAt # {} BY <1>4 DEF Killed, Calls, TypeOK
  <2>2. Cardinality(Calls') <= Cardinality(Calls) BY <1>0, <2>1, FS_Subset
  <2>3. Cardinality(Calls') \in Nat BY <1>0, <2>1, FS_Subset, FS_CardinalityType
  <2> QED BY <1>0, <1>1, <2>1, <2>2, <2>3
<1>5. ASSUME busy' = busy, pc[p] \in {"enter", "in"} <=> pc'[p] \in {"enter", "in"}
      PROVE  BusyCounts'
  <2>1. \A q \in Procs : q # p => pc'[q] = pc[q] BY OneSteps
  <2>2. Calls' = Calls BY <1>5, <2>1 DEF Calls
  <2> QED BY <1>0, <1>1, <1>5, <2>2
<1>6. CASE Opening(p)
  BY <1>5, <1>6 DEF Opening, Open, OpenRefused, vars, Established, NotEstablished, Uncount,
                    BeginClose, EndClose, TypeOK
<1>7. CASE Sharing(p) BY <1>5, <1>7 DEF Sharing, Share, Close, TypeOK
<1>8. CASE Drive(p) \/ Driven(p) \/ (Check(p) /\ Admitted(p))
  BY <1>5, <1>8 DEF Drive, Driven, Check, TypeOK
<1>9. CASE HangingUp(p)
  BY <1>5, <1>9 DEF HangingUp, Hangup, HangsUp, AllOut, Abandon, Unhang, TypeOK
<1> QED BY <1>2, <1>3, <1>4, <1>6, <1>7, <1>8, <1>9 DEF Step, Calling

(***************************************************************************)
(* Who is where.                                                           *)
(***************************************************************************)
\* What Places says of one process.
Placed(p) ==
  /\ Opens(p) => at[p] \in Current /\ refs[at[p]] = 1
  /\ Hangs(p) => hanging /\ at[p] \in Paths /\ Stale(at[p])
  /\ JustCloses(p) => at[p] = NoPath
  /\ pc[p] \in {"enter", "in"} => at[p] \in Paths

LEMMA PlacesByOne ==
  /\ Places <=> /\ open_count <= 1 /\ (hanging => open_count = 0)
                /\ \A p \in Procs : Placed(p)
                /\ \A p, q \in Procs : Hangs(p) /\ Hangs(q) => p = q
  /\ Places' <=> /\ open_count' <= 1 /\ (hanging' => open_count' = 0)
                 /\ \A p \in Procs : Placed(p)'
                 /\ \A p, q \in Procs : Hangs(p)' /\ Hangs(q)' => p = q
BY DEF Places, Placed

\* Nobody hangs up on a session that is being opened.
LEMMA OpenersAlone ==
  ASSUME TypeOK, Counted, Places, NEW p \in Procs, Opens(p)
  PROVE  /\ at[p] \in Paths /\ ~hanging /\ open_count # 0
         /\ \A q \in Procs : at[q] \in Current => q = p
         /\ \A q \in Procs : at[q] = at[p] => q = p
         /\ \A q \in Procs : Opens(q) => q = p
         /\ \A q \in Procs : ~Hangs(q)
<1>1. at[p] \in Current /\ refs[at[p]] = 1 /\ at[p] \in Paths BY DEF Places, Current
<1>2. open_count # 0 /\ ~hanging BY <1>1, Haves DEF Places
<1>3. ASSUME NEW q \in Procs, at[q] \in Current PROVE q = p
  <2>1. at[q] = at[p] BY <1>1, <1>3, Haves DEF Places
  <2> QED BY <1>1, <2>1, Haves
<1>4. \A q \in Procs : at[q] = at[p] => q = p BY <1>1, <1>3
<1>5. \A q \in Procs : Opens(q) => q = p BY <1>3 DEF Places
<1> QED BY <1>1, <1>2, <1>3, <1>4, <1>5 DEF Places

LEMMA PlacesStep ==
  ASSUME TypeOK, TypeOK', Counted, Counted', Places, world \in Worlds, NEW p \in Procs, Step(p)
  PROVE  Places'
<1> USE DEF Goes, dev, paths
<1>0. /\ NoPath \notin Paths /\ open_count <= 1 /\ (hanging => open_count = 0)
      /\ \A q \in Procs : Placed(q)
      /\ \A q, r \in Procs : Hangs(q) /\ Hangs(r) => q = r
      /\ \A q \in Procs : pc[q] \in Points /\ at[q] \in Paths \cup {NoPath}
  BY SessionAssumption, PlacesByOne DEF TypeOK
<1>1. \A q \in Procs : q # p =>
        /\ pc'[q] = pc[q] /\ Opens(q)' = Opens(q) /\ Hangs(q)' = Hangs(q)
        /\ JustCloses(q)' = JustCloses(q)
  BY OneSteps
\* Where neither paths nor counts are touched.
<1>2. ASSUME UNCHANGED <<open_count, hanging, session, paths>>, Placed(p)', Hangs(p)' => Hangs(p)
      PROVE  Places'
  <2>1. \A q \in Procs : q # p => Placed(q)'
    BY <1>0, <1>1, <1>2 DEF Placed, Current, Stale
  <2>2. \A q, r \in Procs : Hangs(q)' /\ Hangs(r)' => q = r BY <1>0, <1>1, <1>2
  <2> QED BY <1>0, <1>2, <2>1, <2>2, PlacesByOne
<1>3. ASSUME NEW d \in Paths, Open(p, d) PROVE Places'
  <2>1. /\ at[p] = NoPath /\ refs[d] = 0 /\ open_count = 0 /\ ~hanging /\ pc'[p] = "open"
        /\ at' = [at EXCEPT ![p] = d] /\ refs'[d] = 1 /\ psession'[d] = session
        /\ UNCHANGED <<session, hanging>> /\ open_count' = 1
    BY <1>3 DEF Open, Refused, TypeOK
  <2>2. Current = {} BY <2>1, Haves
  <2>3. \A q \in Procs : ~Opens(q) /\ ~Hangs(q) BY <1>0, <2>1, <2>2 DEF Placed
  <2>4. Placed(p)' BY <2>1 DEF Placed, Opens, Hangs, JustCloses, Current, TypeOK
  <2>5. \A q \in Procs : q # p => Placed(q)'
    BY <1>0, <1>1, <2>1, <2>3 DEF Placed, TypeOK
  <2>6. ~Hangs(p)' BY <2>1 DEF Hangs
  <2> QED BY <1>1, <2>1, <2>3, <2>4, <2>5, <2>6, PlacesByOne
<1>4. CASE Uncount(p)
  <2>1. Opens(p) BY <1>4 DEF Uncount, Opens
  <2>2. /\ at' = [at EXCEPT ![p] = NoPath] /\ pc'[p] = "idle" /\ UNCHANGED <<hanging, session, psession>>
        /\ open_count' = IF open_count > 0 THEN open_count - 1 ELSE 0
    BY <1>4 DEF Uncount, TypeOK
  <2>3. open_count' <= 1 /\ (hanging' => open_count' = 0)
    BY <1>0, <2>1, <2>2, OpenersAlone DEF TypeOK
  <2>4. Placed(p)' /\ ~Hangs(p)' BY <2>2 DEF Placed, Opens, Hangs, JustCloses
  <2>5. \A q \in Procs : q # p => Placed(q)' /\ ~Hangs(q)'
    BY <1>0, <1>1, <2>1, <2>2, OpenersAlone DEF Placed, TypeOK
  <2> QED BY <2>3, <2>4, <2>5, PlacesByOne
<1>5. ASSUME NEW c \in Procs, Share(p, c) PROVE Places'
  <2>1. /\ pc[p] = "idle" /\ pc[c] = "idle" /\ at[p] \in Paths /\ at[c] = NoPath
        /\ at' = [at EXCEPT ![c] = at[p]] /\ refs' = [refs EXCEPT ![at[p]] = @ + 1]
        /\ UNCHANGED <<open_count, hanging, session, psession, pc, then>>
    BY <1>0, <1>5 DEF Share
  <2>2. \A q \in Procs : Hangs(q)' = Hangs(q) /\ Opens(q)' = Opens(q) /\ JustCloses(q)' = JustCloses(q)
    BY <2>1 DEF Hangs, Opens, JustCloses
  <2>3. \A q \in Procs : Opens(q) => at[q] # at[p] /\ q # c /\ q # p
    <3>1. \A q \in Procs : Opens(q) => q # p /\ q # c BY <2>1 DEF Opens
    <3> QED BY <3>1, OpenersAlone
  <2>4. ASSUME NEW q \in Procs PROVE Placed(q)'
    <3>1. CASE q = c BY <2>1, <2>2, <3>1 DEF Placed, Hangs, Opens, JustCloses
    <3>2. CASE q # c
      <4>1. at'[q] = at[q] BY <2>1, <3>2 DEF TypeOK
      <4>2. Opens(q) => /\ at[q] \in Paths /\ refs'[at[q]] = refs[at[q]]
                        /\ at[q] \in Current'
        BY <1>0, <2>1, <2>3 DEF Placed, Current, TypeOK
      <4> QED BY <1>0, <2>1, <2>2, <4>1, <4>2 DEF Placed, Stale
    <3> QED BY <3>1, <3>2
  <2> QED BY <1>0, <2>1, <2>2, <2>4, PlacesByOne
<1>6. CASE Close(p)
  <2>1. /\ pc[p] \in {"idle", "dead"} /\ at[p] \in Paths /\ at' = [at EXCEPT ![p] = NoPath]
        /\ refs' = [refs EXCEPT ![at[p]] = @ - 1] /\ UNCHANGED <<hanging, session, psession>>
        /\ open_count' \in {open_count, IF open_count > 0 THEN open_count - 1 ELSE 0}
        /\ \/ pc'[p] = "idle"
           \/ pc'[p] = "close" /\ then'[p] = "idle"
    BY <1>0, <1>6 DEF Close, TypeOK
  <2>2. Placed(p)' /\ ~Hangs(p)' BY <2>1 DEF Placed, Opens, Hangs, JustCloses, TypeOK
  <2>3. \A q \in Procs : Opens(q) => at[q] # at[p] /\ q # p
    <3>1. \A q \in Procs : Opens(q) => q # p BY <2>1 DEF Opens
    <3> QED BY <3>1, OpenersAlone
  <2>4. ASSUME NEW q \in Procs, q # p PROVE Placed(q)'
    <3>1. at'[q] = at[q] BY <2>1, <2>4 DEF TypeOK
    <3>2. Opens(q) => /\ at[q] \in Paths /\ refs'[at[q]] = refs[at[q]]
                      /\ at[q] \in Current'
      BY <1>0, <2>1, <2>3 DEF Placed, Current, TypeOK
    <3> QED BY <1>0, <1>1, <2>1, <2>4, <3>1, <3>2 DEF Placed, Stale
  <2>5. open_count' <= 1 /\ (hanging' => open_count' = 0) BY <1>0, <2>1 DEF TypeOK
  <2>6. \A q, r \in Procs : Hangs(q)' /\ Hangs(r)' => q = r BY <1>0, <1>1, <2>2
  <2> QED BY <2>2, <2>4, <2>5, <2>6, PlacesByOne
<1>7. CASE Hangup(p)
  <2>1. /\ at[p] \in Paths /\ ~Stale(at[p]) /\ ~hanging /\ pc[p] = "idle" /\ pc'[p] = "hang"
        /\ hanging' = TRUE /\ session' = session + 1 /\ open_count' = 0 /\ UNCHANGED paths
    BY <1>0, <1>7 DEF Hangup, NextSession, TypeOK
  <2>2. at[p] \in Current BY <2>1, Haves
  <2>3. \A q \in Procs : ~Opens(q) /\ ~Hangs(q)
    <3>1. \A q \in Procs : Opens(q) => q = p BY <2>2, OpenersAlone
    <3> QED BY <1>0, <2>1, <3>1 DEF Opens, Placed
  <2>4. Stale(at[p])' BY <2>1 DEF Stale, TypeOK
  <2>5. Placed(p)' BY <2>1, <2>4 DEF Placed, Opens, JustCloses
  <2>6. \A q \in Procs : q # p => Placed(q)' /\ ~Hangs(q)' BY <1>0, <1>1, <2>1, <2>3 DEF Placed
  <2> QED BY <2>1, <2>5, <2>6, PlacesByOne
<1>8. CASE Unhang(p)
  <2>1. Hangs(p) /\ pc'[p] = "idle" /\ hanging' = FALSE /\ UNCHANGED <<open_count, session, paths>>
    BY <1>8 DEF Unhang, Hangs, TypeOK
  <2>2. Placed(p)' /\ ~Hangs(p)' BY <2>1 DEF Placed, Opens, Hangs, JustCloses
  <2>3. \A q \in Procs : q # p => Placed(q)' /\ ~Hangs(q)'
    BY <1>0, <1>1, <2>1 DEF Placed, Current, Stale
  <2> QED BY <1>0, <2>1, <2>2, <2>3, PlacesByOne
\* Within an open, a hangup or a close, from one stage to the next.
<1>9. ASSUME UNCHANGED <<open_count, hanging, session, paths>>, Opens(p)' => Opens(p),
             Hangs(p)' => Hangs(p), JustCloses(p)' => JustCloses(p),
             pc'[p] \in {"enter", "in"} => pc[p] = "enter" \/ pc[p] = "in" \/ at[p] # NoPath
      PROVE  Places'
  <2>1. Placed(p)' BY <1>0, <1>9 DEF Placed, Current, Stale
  <2> QED BY <1>2, <1>9, <2>1
<1>10. CASE OpenRefused(p) BY <1>9, <1>10 DEF OpenRefused, vars, Opens, Hangs, JustCloses
<1>11. CASE Established(p) \/ NotEstablished(p) \/ BeginClose(p) \/ EndClose(p)
  BY <1>9, <1>11 DEF Established, NotEstablished, BeginClose, EndClose, Opens, Hangs, JustCloses,
                     TypeOK
<1>12. CASE Calling(p)
  BY <1>9, <1>12 DEF Calling, Enter, Check, Drive, Driven, Leave, Opens, Hangs, JustCloses, TypeOK
<1>13. CASE HangsUp(p) \/ AllOut(p) \/ Abandon(p)
  BY <1>9, <1>13 DEF HangsUp, AllOut, Abandon, Opens, Hangs, JustCloses, TypeOK
<1>14. CASE Killed(p)
  BY <1>9, <1>14 DEF Killed, Opens, Hangs, JustCloses, TypeOK
<1> QED BY <1>3, <1>4, <1>5, <1>6, <1>7, <1>8, <1>10, <1>11, <1>12, <1>13, <1>14
        DEF Step, Opening, Sharing, HangingUp

(***************************************************************************)
(* What is in hand.                                                        *)
(***************************************************************************)
LEMMA NobodyIsCalling ==
  ASSUME TypeOK, BusyCounts, ~Inside
  PROVE  \A q \in Procs : pc[q] \notin {"enter", "in"}
<1>1. IsFiniteSet(Calls) /\ Cardinality(Calls) \in Nat BY Finite, FS_CardinalityType
<1>2. Cardinality(Calls) = 0 BY <1>1 DEF Inside, BusyCounts
<1>3. Calls = {} BY <1>1, <1>2, FS_EmptySet
<1> QED BY <1>3 DEF Calls

LEMMA NobodyInsideStep ==
  ASSUME TypeOK, TypeOK', Counted, Places, BusyCounts, NobodyInside, NEW p \in Procs, Step(p)
  PROVE  NobodyInside'
<1> USE DEF Goes, dev, paths, NobodyInside
<1>1. \A q \in Procs : q # p => pc'[q] = pc[q] /\ Hangs(q)' = Hangs(q) BY OneSteps
\* Neither comes in, nor begins to close.
<1>2. ASSUME pc'[p] = "in" => pc[p] = "in",
             Hangs(p)' /\ pc'[p] \in {"close", "drain"} => Hangs(p) /\ pc[p] \in {"close", "drain"}
      PROVE  NobodyInside'
  BY <1>1, <1>2
<1>3. CASE Check(p) /\ Admitted(p)
  <2>1. pc[p] = "enter" /\ pc'[p] = "in" BY <1>3 DEF Check, TypeOK
  <2>2. at[p] \in Current BY <1>3, <2>1, Haves DEF Admitted, Stale, Places
  <2>3. ~hanging BY <2>2, Haves DEF Places
  <2>4. \A q \in Procs : ~Hangs(q) BY <2>3 DEF Places
  <2> QED BY <1>1, <2>1, <2>4 DEF Hangs
<1>4. CASE (HangsUp(p) /\ ~Inside) \/ AllOut(p)
  <2>1. \A q \in Procs : pc[q] # "in" BY <1>4, NobodyIsCalling DEF AllOut
  <2>2. pc'[p] = "close" BY <1>4 DEF HangsUp, AllOut, TypeOK
  <2> QED BY <1>1, <2>1, <2>2
<1>5. CASE Opening(p)
  BY <1>2, <1>5 DEF Opening, Open, OpenRefused, vars, Established, NotEstablished, Uncount,
                    BeginClose, EndClose, Hangs, TypeOK
<1>6. CASE Sharing(p)
  <2>1. CASE Close(p) BY <1>2, <2>1 DEF Close, Hangs, TypeOK
  <2>2. ASSUME NEW c \in Procs, Share(p, c) PROVE NobodyInside'
    BY <1>2, <2>2 DEF Share, Hangs, TypeOK
  <2> QED BY <1>6, <2>1, <2>2 DEF Sharing
<1>7. CASE Enter(p) \/ Drive(p) \/ Driven(p) \/ Leave(p) \/ (Check(p) /\ ~Admitted(p))
  BY <1>2, <1>7 DEF Enter, Drive, Driven, Leave, Check, Hangs, TypeOK
<1>8. CASE Hangup(p) \/ Abandon(p) \/ Unhang(p) \/ (HangsUp(p) /\ Inside)
  BY <1>2, <1>8 DEF Hangup, Abandon, Unhang, HangsUp, Hangs, TypeOK
<1>9. CASE Killed(p) BY <1>2, <1>9 DEF Killed, Hangs, TypeOK
<1> QED BY <1>3, <1>4, <1>5, <1>6, <1>7, <1>8, <1>9 DEF Step, Calling, HangingUp

LEMMA HandsStep ==
  ASSUME TypeOK, TypeOK', Hands, NEW p \in Procs, Step(p)
  PROVE  Hands'
<1> USE DEF Goes, dev, paths, driver
<1>0. /\ Nil \notin Nat /\ Made \subseteq Nat /\ made \in Nat
      /\ drv \in Made \cup {Nil} /\ (drv # Nil => drv <= made)
  BY SessionAssumption DEF TypeOK, Made, Hands
<1>1. \A q \in Procs : q # p => pc'[q] = pc[q] /\ uses'[q] = uses[q] BY OneSteps
<1>2. ASSUME made' = made, drv' \in {drv, Nil}, freed' \subseteq freed \cup ({uses[p]} \ {Nil}),
             uses'[p] # Nil => pc'[p] \in {"in", "drain"} /\ uses'[p] \in {uses[p], drv}
      PROVE  Hands'
  BY <1>0, <1>1, <1>2 DEF Hands
<1>3. CASE Established(p)
  <2>1. /\ made' = made + 1 /\ drv' = made + 1 /\ UNCHANGED <<freed, uses>>
        /\ pc[p] = "open"
    BY <1>3 DEF Established
  <2>2. uses[p] = Nil BY <2>1 DEF Hands
  <2>3. \A q \in Procs : uses[q] # Nil => uses[q] <= made /\ uses[q] \in Nat
    BY <1>0 DEF Hands, TypeOK
  <2>4. \A s \in freed : s <= made /\ s \in Nat BY <1>0 DEF Hands, TypeOK
  <2>5. \A s \in freed' : s <= made' BY <1>0, <2>1, <2>4
  <2>6. \A q \in Procs : uses'[q] # Nil => pc'[q] \in {"in", "drain"} /\ uses'[q] <= made'
    BY <1>0, <1>1, <2>1, <2>2, <2>3 DEF Hands
  <2> QED BY <1>0, <2>1, <2>5, <2>6 DEF Hands
<1>4. CASE BeginClose(p)
  <2>1. /\ pc'[p] = "drain" /\ uses'[p] = drv /\ UNCHANGED <<made, drv, freed>>
    BY <1>4 DEF BeginClose, TypeOK
  <2> QED BY <1>2, <2>1
<1>5. CASE EndClose(p)
  <2>1. uses'[p] = Nil /\ made' = made /\ drv' \in {drv, Nil} BY <1>5 DEF EndClose, TypeOK
  <2>2. uses[p] = Nil => freed' = freed BY <1>5 DEF EndClose
  <2>3. uses[p] # Nil => freed' = freed \cup {uses[p]} BY <1>5 DEF EndClose
  <2> QED BY <1>2, <2>1, <2>2, <2>3
<1>6. CASE OpenRefused(p) \/ NotEstablished(p) \/ Uncount(p) \/ Sharing(p) \/ \E d \in Paths : Open(p, d)
  BY <1>2, <1>6 DEF OpenRefused, vars, NotEstablished, Uncount, Sharing, Share, Close, Open, TypeOK, Hands
<1>7. CASE Calling(p)
  BY <1>2, <1>7 DEF Calling, Enter, Check, Drive, Driven, Leave, TypeOK, Hands
<1>8. CASE HangingUp(p)
  BY <1>2, <1>8 DEF HangingUp, Hangup, HangsUp, AllOut, Abandon, Unhang, TypeOK, Hands
<1>9. CASE Killed(p)
  <2>1. uses'[p] = Nil /\ UNCHANGED <<made, drv, freed>> BY <1>9 DEF Killed, TypeOK
  <2> QED BY <1>2, <2>1
<1> QED BY <1>3, <1>4, <1>5, <1>6, <1>7, <1>8, <1>9 DEF Step, Opening

(***************************************************************************)
(* Where calls leave.                                                      *)
(***************************************************************************)
\* What Own says of one process.
OwnOf(p) ==
  /\ pc[p] = "in" /\ Stale(at[p]) =>
       hanging /\ \A h \in Procs : Hangs(h) => pc[h] \in {"hang", "hangwait"}
  /\ pc[p] = "in" /\ drv # Nil => from[drv] = at[p]
  /\ pc[p] \in {"idle", "enter"} /\ at[p] \in Current /\ drv # Nil => from[drv] = at[p]
  /\ pc[p] = "in" /\ uses[p] # Nil => from[uses[p]] = at[p]

LEMMA OwnOfAll ==
  /\ ~CutsOff /\ Own => \A p \in Procs : OwnOf(p)
  /\ UNCHANGED world => (Own' <=> (~CutsOff => \A p \in Procs : OwnOf(p)'))
BY DEF Own, OwnOf, CutsOff

\* Nobody is inside while the device is opened.
LEMMA OpensEmpty ==
  ASSUME TypeOK, Counted, Places, ~CutsOff, Own, NEW p \in Procs, Opens(p), NEW q \in Procs
  PROVE  pc[q] # "in"
<1> SUFFICES ASSUME pc[q] = "in" PROVE FALSE OBVIOUS
<1>1. ~hanging BY OpenersAlone
<1>2. ~Stale(at[q]) /\ at[q] \in Paths BY <1>1, OwnOfAll DEF OwnOf, Places
<1>3. q = p BY <1>2, Haves, OpenersAlone
<1> QED BY <1>3 DEF Opens

LEMMA OwnStep ==
  ASSUME TypeOK, TypeOK', Counted, Places, BusyCounts, NobodyInside, Hands, Own,
         UNCHANGED world, NEW p \in Procs, Step(p)
  PROVE  Own'
<1> USE DEF Goes, dev, paths, driver
<1> SUFFICES ASSUME ~CutsOff PROVE \A q \in Procs : OwnOf(q)' BY OwnOfAll
<1>0. /\ NoPath \notin Paths /\ \A q \in Procs : OwnOf(q)
      /\ \A q \in Procs : at[q] \in Paths \cup {NoPath}
  BY SessionAssumption, OwnOfAll DEF TypeOK
<1>1. \A q \in Procs : q # p =>
        /\ pc'[q] = pc[q] /\ uses'[q] = uses[q] /\ Hangs(q)' = Hangs(q)
        /\ at'[q] = at[q] \/ (pc[q] = "idle" /\ Share(p, q))
  BY OneSteps
\* Whoever is elsewhere keeps what it has, where the driver's session only goes.
<1>2. ASSUME UNCHANGED <<hanging, session, psession, from>>, drv' \in {drv, Nil},
             Current' \subseteq Current, \A q \in Procs : q # p => at'[q] = at[q],
             (\E q \in Procs : pc[q] = "in") =>
               (Hangs(p)' => Hangs(p) /\ pc'[p] \in {pc[p], "hang", "hangwait"}),
             OwnOf(p)'
      PROVE  \A q \in Procs : OwnOf(q)'
  <2> SUFFICES ASSUME NEW q \in Procs, q # p PROVE OwnOf(q)' BY <1>2
  <2>1. pc'[q] = pc[q] /\ uses'[q] = uses[q] /\ at'[q] = at[q] BY <1>1, <1>2
  <2>2. ASSUME pc[q] = "in", Stale(at[q])
        PROVE  hanging' /\ \A h \in Procs : Hangs(h)' => pc'[h] \in {"hang", "hangwait"}
    BY <1>0, <1>1, <1>2, <2>2 DEF OwnOf
  <2> QED BY <1>0, <1>2, <2>1, <2>2 DEF OwnOf, Stale
\* Those who have no path, or are at neither of these places.
<1>3. ASSUME pc'[p] # "in", pc'[p] \in {"idle", "enter"} => at'[p] \notin Paths PROVE OwnOf(p)'
  BY <1>3 DEF OwnOf, Current
<1>4. ASSUME NEW d \in Paths, Open(p, d) PROVE \A q \in Procs : OwnOf(q)'
  <2>1. /\ refs[d] = 0 /\ pc'[p] = "open" /\ UNCHANGED <<hanging, session, from, drv, uses>>
        /\ at' = [at EXCEPT ![p] = d] /\ refs' = [refs EXCEPT ![d] = 1]
        /\ psession' = [psession EXCEPT ![d] = session]
    BY <1>4 DEF Open, TypeOK
  <2>2. OwnOf(p)' BY <2>1 DEF OwnOf
  <2> SUFFICES ASSUME NEW q \in Procs, q # p PROVE OwnOf(q)' BY <2>2
  <2>3. pc'[q] = pc[q] /\ uses'[q] = uses[q] /\ at'[q] = at[q] BY <1>1, <2>1 DEF TypeOK
  <2>4. at[q] # d BY <2>1, Haves
  <2>5. Stale(at[q])' = Stale(at[q]) BY <2>1, <2>3, <2>4 DEF Stale, TypeOK
  <2>6. at[q] \in Current' => at[q] \in Current BY <2>1, <2>4 DEF Current, TypeOK
  <2>7. ~Hangs(p)' BY <2>1 DEF Hangs
  <2> QED BY <1>0, <1>1, <2>1, <2>3, <2>5, <2>6, <2>7 DEF OwnOf
<1>5. CASE OpenRefused(p)
  BY <1>0, <1>5 DEF OpenRefused, vars, OwnOf, Stale, Current, Hangs
<1>6. CASE Established(p)
  <2>1. Opens(p) BY <1>6 DEF Established, Opens
  <2>2. /\ pc'[p] = "idle" /\ UNCHANGED <<at, refs, psession, session>>
        /\ drv' \in Made /\ from' = [from EXCEPT ![drv'] = at[p]]
    BY <1>6 DEF Established, TypeOK, Made
  <2>3. from'[drv'] = at[p] BY <2>2 DEF TypeOK
  <2>4. \A q \in Procs : pc'[q] # "in" BY <1>1, <2>1, <2>2, OpensEmpty
  <2>5. \A q \in Procs : at[q] \in Current => q = p BY <2>1, OpenersAlone
  <2>6. Current' = Current BY <2>2 DEF Current
  <2> QED BY <2>2, <2>3, <2>4, <2>5, <2>6 DEF OwnOf
<1>7. CASE NotEstablished(p) \/ BeginClose(p)
  <2>1. /\ pc'[p] \in {"close", "drain"} /\ UNCHANGED <<hanging, session, paths, from, drv>>
    BY <1>7 DEF NotEstablished, BeginClose, TypeOK
  <2>2. Hangs(p)' => Hangs(p) /\ pc[p] = "close"
    BY <1>7 DEF NotEstablished, BeginClose, Hangs, TypeOK
  <2>3. Current' = Current BY <2>1 DEF Current
  <2> QED BY <1>2, <1>3, <2>1, <2>2, <2>3 DEF NobodyInside
<1>8. CASE EndClose(p)
  <2>1. /\ pc[p] = "drain" /\ pc'[p] = then[p] /\ UNCHANGED <<hanging, session, paths, from>>
        /\ drv' \in {drv, Nil} /\ then'[p] = then[p] /\ then[p] \in {"idle", "uncount", "unhang"}
    BY <1>8 DEF EndClose, TypeOK
  <2>2. Hangs(p)' => Hangs(p) BY <2>1 DEF Hangs
  <2>3. Current' = Current BY <2>1 DEF Current
  <2>4. then[p] = "idle" => at[p] = NoPath BY <2>1 DEF Places, JustCloses
  <2>5. OwnOf(p)' BY <1>0, <1>3, <2>1, <2>4
  <2> QED BY <1>2, <2>1, <2>2, <2>3, <2>5 DEF NobodyInside
<1>9. CASE Uncount(p)
  <2>1. /\ pc'[p] = "idle" /\ UNCHANGED <<hanging, session, psession, from, drv>> /\ at[p] \in Paths
        /\ at' = [at EXCEPT ![p] = NoPath] /\ refs' = [refs EXCEPT ![at[p]] = 0]
    BY <1>9, OpenersAlone DEF Uncount, Opens, TypeOK
  <2>2. Current' \subseteq Current BY <2>1 DEF Current, TypeOK
  <2>3. at'[p] = NoPath /\ \A q \in Procs : q # p => at'[q] = at[q] BY <2>1 DEF TypeOK
  <2> QED BY <1>0, <1>2, <1>3, <2>1, <2>2, <2>3 DEF Hangs
<1>10. CASE Close(p)
  <2>1. /\ UNCHANGED <<hanging, session, psession, from, drv>> /\ at[p] \in Paths
        /\ at' = [at EXCEPT ![p] = NoPath] /\ refs' = [refs EXCEPT ![at[p]] = @ - 1]
        /\ pc'[p] = "idle" \/ (pc'[p] = "close" /\ then'[p] = "idle")
    BY <1>10 DEF Close, TypeOK
  <2>2. Current' \subseteq Current BY <2>1, Haves DEF Current, TypeOK
  <2>3. at'[p] = NoPath /\ \A q \in Procs : q # p => at'[q] = at[q] BY <2>1 DEF TypeOK
  <2> QED BY <1>0, <1>2, <1>3, <2>1, <2>2, <2>3 DEF Hangs
<1>11. ASSUME NEW c \in Procs, Share(p, c) PROVE \A q \in Procs : OwnOf(q)'
  <2>1. /\ UNCHANGED <<hanging, session, psession, from, drv, pc, then, uses>> /\ at[p] \in Paths
        /\ at' = [at EXCEPT ![c] = at[p]] /\ refs' = [refs EXCEPT ![at[p]] = @ + 1]
        /\ pc[p] = "idle" /\ pc[c] = "idle"
    BY <1>11 DEF Share, TypeOK
  <2>2. Current' \subseteq Current BY <2>1, Haves DEF Current, TypeOK
  <2>3. at'[c] = at[p] /\ \A q \in Procs : q # c => at'[q] = at[q] BY <2>1 DEF TypeOK
  <2>4. OwnOf(c)' BY <1>0, <2>1, <2>2, <2>3 DEF OwnOf
  <2>5. ASSUME NEW q \in Procs, q # c PROVE OwnOf(q)'
    BY <1>0, <2>1, <2>2, <2>3, <2>5 DEF OwnOf, Stale, Hangs
  <2> QED BY <2>4, <2>5
<1>12. CASE Calling(p)
  <2>1. /\ UNCHANGED <<hanging, session, paths, from, drv>> /\ Current' = Current
        /\ pc[p] \in {"idle", "enter", "in"} /\ pc'[p] \in {"idle", "enter", "in"}
    BY <1>12 DEF Calling, Enter, Check, Drive, Driven, Leave, TypeOK, Current
  <2>2. ~Hangs(p)' BY <2>1 DEF Hangs
  <2>3. OwnOf(p)'
    <3>1. CASE Enter(p) BY <1>0, <2>1, <3>1 DEF OwnOf, Enter, TypeOK
    <3>2. CASE Check(p)
      <4>1. CASE Admitted(p)
        <5>1. pc[p] = "enter" /\ pc'[p] = "in" /\ uses' = uses BY <3>2, <4>1 DEF Check, TypeOK
        <5>2. uses[p] = Nil /\ at[p] \in Paths BY <5>1 DEF Hands, Places
        <5>3. at[p] \in Current /\ ~Stale(at[p]) BY <4>1, <5>2, Haves DEF Admitted, Stale
        <5> QED BY <1>0, <2>1, <5>1, <5>2, <5>3 DEF OwnOf, Stale
      <4>2. CASE ~Admitted(p)
        <5>1. pc[p] = "enter" /\ pc'[p] = "idle" BY <3>2, <4>2 DEF Check, TypeOK
        <5> QED BY <1>0, <2>1, <5>1 DEF OwnOf
      <4> QED BY <4>1, <4>2
    <3>3. CASE Drive(p) \/ Driven(p)
      <4>1. pc[p] = "in" /\ pc' = pc /\ then' = then /\ uses'[p] \in {drv, Nil}
        BY <3>3 DEF Drive, Driven, TypeOK
      <4> QED BY <1>0, <2>1, <4>1 DEF OwnOf, Stale, Hangs
    <3>4. CASE Leave(p) BY <1>0, <2>1, <3>4 DEF OwnOf, Leave, TypeOK
    <3> QED BY <1>12, <3>1, <3>2, <3>3, <3>4 DEF Calling
  <2> QED BY <1>2, <2>1, <2>2, <2>3
<1>13. CASE Hangup(p)
  <2>1. /\ ~hanging /\ hanging' = TRUE /\ pc'[p] = "hang" /\ session' = session + 1
        /\ UNCHANGED <<paths, from, drv, uses>>
    BY <1>13 DEF Hangup, NextSession, TypeOK
  <2>2. \A h \in Procs : Hangs(h)' => h = p BY <1>1, <2>1 DEF Places
  <2>3. Current' = {} BY <2>1 DEF Current, Counted, TypeOK
  <2>4. OwnOf(p)' BY <2>1 DEF OwnOf
  <2>5. ASSUME NEW q \in Procs, q # p PROVE OwnOf(q)'
    BY <1>0, <1>1, <2>1, <2>2, <2>3, <2>5 DEF OwnOf
  <2> QED BY <2>4, <2>5
<1>14. CASE HangsUp(p) \/ AllOut(p)
  <2>1. /\ UNCHANGED <<hanging, session, paths, from, drv>> /\ Current' = Current
        /\ pc'[p] = "hangwait" \/ (pc'[p] = "close" /\ ~Inside)
    BY <1>14 DEF HangsUp, AllOut, TypeOK, Current, Hangs
  <2>2. ~Inside => \A q \in Procs : pc[q] # "in" BY NobodyIsCalling
  <2>3. Hangs(p) BY <1>14 DEF HangsUp, AllOut, Hangs
  <2> QED BY <1>2, <1>3, <2>1, <2>2, <2>3
<1>15. CASE Abandon(p) BY <1>15 DEF Abandon, Waited
<1>16. CASE Unhang(p)
  <2>1. /\ pc[p] = "unhang" /\ pc'[p] = "idle" /\ UNCHANGED <<session, paths, from, drv, uses>>
    BY <1>16 DEF Unhang, TypeOK
  <2>2. Hangs(p) /\ Stale(at[p]) BY <2>1 DEF Hangs, Places
  <2>3. \A q \in Procs : pc[q] = "in" => ~Stale(at[q]) BY <1>0, <2>1, <2>2 DEF OwnOf
  <2>4. Current' = Current /\ at[p] \notin Current BY <2>1, <2>2 DEF Current, Stale
  <2>5. OwnOf(p)' BY <2>1, <2>4 DEF OwnOf
  <2>6. ASSUME NEW q \in Procs, q # p PROVE OwnOf(q)'
    BY <1>0, <1>1, <2>1, <2>3, <2>4, <2>6 DEF OwnOf, Stale
  <2> QED BY <2>5, <2>6
<1>17. CASE Killed(p)
  <2>1. /\ UNCHANGED <<hanging, session, paths, from, drv>> /\ Current' = Current
        /\ pc'[p] = "dead" \/ (pc'[p] = "idle" /\ at[p] = NoPath)
    BY <1>17 DEF Killed, TypeOK, Current
  <2> QED BY <1>0, <1>2, <1>3, <2>1 DEF Hangs
<1> QED BY <1>4, <1>5, <1>6, <1>7, <1>8, <1>9, <1>10, <1>11, <1>12, <1>13, <1>14, <1>15, <1>16, <1>17
        DEF Step, Opening, Sharing, HangingUp

(***************************************************************************)
(* Where a last close comes after a hangup.                                *)
(***************************************************************************)
\* What Neat says of one process.
NeatOf(p) ==
  /\ ~JustCloses(p) /\ uses[p] \notin freed
  /\ Opens(p) => drv = Nil /\ uses[p] = Nil
  /\ pc[p] = "unhang" => drv = Nil
  /\ pc[p] = "drain" /\ then[p] = "unhang" => uses[p] = drv

LEMMA NeatOfAll ==
  /\ ~MayJustClose /\ Neat =>
       /\ drv # Nil /\ ~hanging => open_count > 0
       /\ drv \notin freed
       /\ \A p \in Procs : NeatOf(p)
  /\ UNCHANGED world =>
       (Neat' <=> (~MayJustClose =>
                     /\ drv' # Nil /\ ~hanging' => open_count' > 0
                     /\ drv' \notin freed'
                     /\ \A p \in Procs : NeatOf(p)'))
BY DEF Neat, NeatOf, MayJustClose

\* Only a hangup's close finds a session to free, and nobody else has it.
LEMMA WhoFrees ==
  ASSUME TypeOK, Places, NobodyInside, Hands, Neat, ~MayJustClose,
         NEW p \in Procs, pc[p] = "drain"
  PROVE  /\ then[p] # "idle"
         /\ then[p] = "uncount" => uses[p] = Nil /\ drv = Nil
         /\ then[p] = "unhang" => /\ uses[p] = drv
                                  /\ \A q \in Procs : q # p => uses[q] = Nil /\ ~Hangs(q)
                                  /\ \A q \in Procs : pc[q] # "in"
<1>1. NeatOf(p) BY NeatOfAll
<1>2. then[p] # "idle" BY <1>1 DEF NeatOf, JustCloses
<1>3. then[p] = "uncount" => uses[p] = Nil /\ drv = Nil BY <1>1 DEF NeatOf, Opens
<1>4. ASSUME then[p] = "unhang"
      PROVE  /\ uses[p] = drv
             /\ \A q \in Procs : q # p => uses[q] = Nil /\ ~Hangs(q)
             /\ \A q \in Procs : pc[q] # "in"
  <2>1. Hangs(p) BY <1>4 DEF Hangs
  <2>2. \A q \in Procs : pc[q] # "in" BY <2>1 DEF NobodyInside
  <2>3. \A q \in Procs : q # p => ~Hangs(q) BY <2>1 DEF Places
  <2>4. ASSUME NEW q \in Procs, q # p, uses[q] # Nil PROVE FALSE
    <3>1. pc[q] = "drain" BY <2>2, <2>4 DEF Hands
    <3>2. NeatOf(q) /\ ~Hangs(q) BY <2>3, <2>4, NeatOfAll
    <3>3. then[q] \in {"idle", "uncount", "unhang"} BY DEF TypeOK
    <3> QED BY <2>4, <3>1, <3>2, <3>3 DEF NeatOf, JustCloses, Opens, Hangs
  <2> QED BY <1>1, <1>4, <2>2, <2>3, <2>4 DEF NeatOf
<1> QED BY <1>2, <1>3, <1>4

LEMMA NeatStep ==
  ASSUME TypeOK, TypeOK', Counted, Places, NobodyInside, Hands, Neat,
         UNCHANGED world, NEW p \in Procs, Step(p)
  PROVE  Neat'
<1> USE DEF Goes, dev, paths, driver
<1> SUFFICES ASSUME ~MayJustClose
             PROVE  /\ drv' # Nil /\ ~hanging' => open_count' > 0
                    /\ drv' \notin freed'
                    /\ \A q \in Procs : NeatOf(q)'
  BY NeatOfAll
<1>0. /\ Nil \notin freed /\ Nil \notin freed'
      /\ drv # Nil /\ ~hanging => open_count > 0
      /\ drv \notin freed /\ \A q \in Procs : NeatOf(q)
  <2>1. Nil \notin Made BY SessionAssumption DEF Made
  <2> QED BY <2>1, NeatOfAll DEF TypeOK
<1>1. \A q \in Procs : q # p =>
        /\ pc'[q] = pc[q] /\ then'[q] = then[q] /\ uses'[q] = uses[q]
        /\ Opens(q)' = Opens(q) /\ Hangs(q)' = Hangs(q) /\ JustCloses(q)' = JustCloses(q)
  BY OneSteps
<1>2. ASSUME UNCHANGED <<drv, freed>>, drv # Nil /\ ~hanging' => open_count' > 0, NeatOf(p)'
      PROVE  /\ drv' # Nil /\ ~hanging' => open_count' > 0
             /\ drv' \notin freed'
             /\ \A q \in Procs : NeatOf(q)'
  BY <1>0, <1>1, <1>2 DEF NeatOf
<1>3. ASSUME NEW d \in Paths, Open(p, d)
      PROVE  UNCHANGED <<drv, freed>> /\ (drv # Nil /\ ~hanging' => open_count' > 0) /\ NeatOf(p)'
  <2>1. /\ open_count = 0 /\ ~hanging /\ pc[p] = "idle" /\ pc'[p] = "open"
        /\ UNCHANGED <<drv, freed, uses>>
    BY <1>3 DEF Open, Refused, TypeOK
  <2>2. drv = Nil /\ uses[p] = Nil BY <1>0, <2>1 DEF Hands
  <2> QED BY <1>0, <2>1, <2>2 DEF NeatOf, JustCloses, Opens
<1>4. CASE OpenRefused(p)
  BY <1>0, <1>4 DEF OpenRefused, vars, NeatOf, JustCloses, Opens
<1>5. CASE Established(p)
  <2>1. Opens(p) BY <1>5 DEF Established, Opens
  <2>2. /\ pc'[p] = "idle" /\ drv' = made + 1 /\ UNCHANGED <<freed, uses, open_count>>
    BY <1>5 DEF Established, TypeOK
  <2>3. open_count' > 0 BY <2>1, <2>2, OpenersAlone DEF TypeOK
  <2>4. made + 1 \notin freed BY SessionAssumption DEF Hands, TypeOK
  <2>5. NeatOf(p)' BY <1>0, <2>2 DEF NeatOf, JustCloses, Opens
  <2>6. \A q \in Procs : q # p => ~Opens(q) /\ ~Hangs(q) BY <2>1, OpenersAlone
  <2>7. \A q \in Procs : q # p => NeatOf(q)'
    BY <1>0, <1>1, <2>2, <2>6 DEF NeatOf, Hangs
  <2> QED BY <2>2, <2>3, <2>4, <2>5, <2>7
<1>6. CASE NotEstablished(p)
  <2>1. Opens(p) /\ UNCHANGED <<drv, freed, uses, open_count, hanging>>
        /\ pc'[p] = "close" /\ then'[p] = "uncount"
    BY <1>6 DEF NotEstablished, Opens, TypeOK
  <2> QED BY <1>0, <1>2, <2>1 DEF NeatOf, JustCloses
<1>7. CASE BeginClose(p)
  <2>1. pc[p] = "close" /\ pc'[p] = "drain" /\ uses'[p] = drv
        /\ UNCHANGED <<drv, freed, open_count, hanging, then>>
    BY <1>7 DEF BeginClose, TypeOK
  <2> QED BY <1>0, <1>2, <2>1 DEF NeatOf, JustCloses, Opens
<1>8. CASE EndClose(p)
  <2>1. /\ pc[p] = "drain" /\ pc'[p] = then[p] /\ uses'[p] = Nil
        /\ UNCHANGED <<open_count, hanging, then>>
    BY <1>8 DEF EndClose, TypeOK
  <2>2. then[p] \in {"uncount", "unhang"} BY <2>1, WhoFrees DEF TypeOK
  <2>3. CASE uses[p] = Nil
    <3>1. UNCHANGED <<drv, freed>> BY <1>8, <2>3 DEF EndClose
    <3>2. drv = Nil BY <2>1, <2>2, <2>3, WhoFrees
    <3> QED BY <1>0, <1>2, <2>1, <2>2, <3>1, <3>2 DEF NeatOf, JustCloses
  <2>4. CASE uses[p] # Nil
    <3>1. drv' = Nil BY <1>8, <2>4 DEF EndClose
    <3>2. \A q \in Procs : q # p => uses[q] = Nil /\ ~Hangs(q) BY <2>1, <2>2, <2>4, WhoFrees
    <3>3. NeatOf(p)' BY <1>0, <2>1, <2>2, <3>1 DEF NeatOf, JustCloses
    <3>4. \A q \in Procs : q # p => NeatOf(q)'
      BY <1>0, <1>1, <3>1, <3>2 DEF NeatOf, Hangs
    <3> QED BY <1>0, <3>1, <3>3, <3>4
  <2> QED BY <2>3, <2>4
<1>9. CASE Uncount(p)
  <2>1. Opens(p) /\ UNCHANGED <<drv, freed, uses, hanging>> /\ pc'[p] = "idle"
    BY <1>9 DEF Uncount, Opens, TypeOK
  <2> QED BY <1>0, <1>2, <2>1 DEF NeatOf, JustCloses, Opens
<1>10. CASE Close(p)
  <2>1. UNCHANGED <<drv, freed, uses, open_count, hanging>> /\ pc'[p] = "idle"
    BY <1>10 DEF Close, TypeOK
  <2> QED BY <1>0, <1>2, <2>1 DEF NeatOf, JustCloses, Opens
<1>11. ASSUME NEW c \in Procs, Share(p, c)
       PROVE  UNCHANGED <<drv, freed>> /\ (drv # Nil /\ ~hanging' => open_count' > 0) /\ NeatOf(p)'
  BY <1>0, <1>11 DEF Share, NeatOf, JustCloses, Opens
<1>12. CASE Calling(p)
  <2>1. /\ UNCHANGED <<drv, freed, open_count, hanging>> /\ pc'[p] \in {"idle", "enter", "in"}
        /\ uses'[p] \in {uses[p], drv, Nil}
    BY <1>12 DEF Calling, Enter, Check, Drive, Driven, Leave, TypeOK
  <2>2. uses'[p] \notin freed' BY <1>0, <2>1 DEF NeatOf
  <2> QED BY <1>0, <1>2, <2>1, <2>2 DEF NeatOf, JustCloses, Opens
<1>13. CASE Hangup(p)
  <2>1. UNCHANGED <<drv, freed, uses>> /\ hanging' = TRUE /\ pc'[p] = "hang"
    BY <1>13 DEF Hangup, TypeOK
  <2> QED BY <1>0, <1>2, <2>1 DEF NeatOf, JustCloses, Opens
<1>14. CASE HangsUp(p) \/ AllOut(p)
  <2>1. UNCHANGED <<drv, freed, uses, open_count, hanging>>
        /\ (pc'[p] = "hangwait" \/ (pc'[p] = "close" /\ then'[p] = "unhang"))
    BY <1>14 DEF HangsUp, AllOut, TypeOK
  <2> QED BY <1>0, <1>2, <2>1 DEF NeatOf, JustCloses, Opens
<1>15. CASE Abandon(p)
  <2>1. drv' = Nil /\ UNCHANGED <<freed, uses>> /\ pc[p] = "hangwait" /\ pc'[p] = "unhang"
    BY <1>15 DEF Abandon, TypeOK
  <2>2. \A q \in Procs : q # p => ~Hangs(q) BY <2>1 DEF Places, Hangs
  <2>3. NeatOf(p)' BY <1>0, <2>1 DEF NeatOf, JustCloses, Opens
  <2>4. \A q \in Procs : q # p => NeatOf(q)' BY <1>0, <1>1, <2>1, <2>2 DEF NeatOf, Hangs
  <2> QED BY <1>0, <2>1, <2>3, <2>4
<1>16. CASE Unhang(p)
  <2>1. UNCHANGED <<drv, freed, uses>> /\ pc[p] = "unhang" /\ pc'[p] = "idle"
    BY <1>16 DEF Unhang, TypeOK
  <2>2. drv = Nil BY <1>0, <2>1 DEF NeatOf
  <2> QED BY <1>0, <1>2, <2>1, <2>2 DEF NeatOf, JustCloses, Opens
<1>17. CASE Killed(p)
  <2>1. UNCHANGED <<drv, freed, open_count, hanging>> /\ pc'[p] \in {"idle", "dead"}
        /\ uses'[p] = Nil
    BY <1>17 DEF Killed, TypeOK
  <2> QED BY <1>0, <1>2, <2>1 DEF NeatOf, JustCloses, Opens
<1> QED BY <1>2, <1>3, <1>4, <1>5, <1>6, <1>7, <1>8, <1>9, <1>10, <1>11, <1>12, <1>13, <1>14,
           <1>15, <1>16, <1>17
        DEF Step, Opening, Sharing, HangingUp

LEMMA HeldStep ==
  ASSUME TypeOK, TypeOK', Counted, Places, NobodyInside, Hands, Own, Neat, Held,
         UNCHANGED world, NEW p \in Procs, Step(p)
  PROVE  Held'
<1> USE DEF Goes, dev, paths, driver
<1> SUFFICES ASSUME ~CutsOff, ~MayJustClose
             PROVE  /\ \A q \in Procs : pc'[q] = "in" /\ uses'[q] # Nil => uses'[q] = drv'
                    /\ \A s \in 1..made' : s \in freed' \/ drv' = s
  BY DEF Held, CutsOff, MayJustClose
<1>0. /\ \A q \in Procs : pc[q] = "in" /\ uses[q] # Nil => uses[q] = drv
      /\ \A s \in 1..made : s \in freed \/ drv = s
  BY DEF Held
<1>1. \A q \in Procs : q # p => pc'[q] = pc[q] /\ uses'[q] = uses[q] BY OneSteps
<1>2. ASSUME UNCHANGED <<drv, freed, made>>,
             pc'[p] = "in" => uses'[p] = Nil \/ uses'[p] = drv
      PROVE  /\ \A q \in Procs : pc'[q] = "in" /\ uses'[q] # Nil => uses'[q] = drv'
             /\ \A s \in 1..made' : s \in freed' \/ drv' = s
  BY <1>0, <1>1, <1>2
<1>3. CASE Established(p)
  <2>1. Opens(p) /\ pc'[p] = "idle" /\ drv' = made + 1 /\ made' = made + 1 /\ UNCHANGED freed
    BY <1>3 DEF Established, Opens, TypeOK
  <2>2. \A q \in Procs : pc'[q] # "in" BY <1>1, <2>1, OpensEmpty
  <2>3. drv = Nil BY <2>1, NeatOfAll DEF NeatOf
  <2>4. \A s \in 1..made : s \in freed BY <1>0, <2>3, SessionAssumption
  <2>5. \A s \in 1..made' : s \in 1..made \/ s = made + 1 BY <2>1 DEF TypeOK
  <2> QED BY <2>1, <2>2, <2>4, <2>5
<1>4. CASE EndClose(p) /\ uses[p] = Nil
  <2>1. UNCHANGED <<drv, freed, made>> /\ uses'[p] = Nil BY <1>4 DEF EndClose, TypeOK
  <2> QED BY <1>2, <2>1
<1>5. CASE EndClose(p) /\ uses[p] # Nil
  <2>1. /\ pc[p] = "drain" /\ uses'[p] = Nil /\ freed' = freed \cup {uses[p]} /\ made' = made
    BY <1>5 DEF EndClose, TypeOK
  <2>2. uses[p] = drv /\ \A q \in Procs : pc[q] # "in"
    BY <1>5, <2>1, WhoFrees DEF TypeOK
  <2> QED BY <1>0, <1>1, <2>1, <2>2
<1>6. CASE NotEstablished(p) \/ Uncount(p) \/ BeginClose(p) \/ OpenRefused(p)
          \/ \E d \in Paths : Open(p, d)
  <2>1. UNCHANGED <<drv, freed, made>> /\ (pc'[p] = "in" => pc[p] = "in" /\ uses'[p] = uses[p])
    BY <1>6 DEF NotEstablished, Uncount, BeginClose, OpenRefused, vars, Open, TypeOK
  <2> QED BY <1>0, <1>2, <2>1
<1>7. CASE Sharing(p)
  <2>1. UNCHANGED <<drv, freed, made>> /\ (pc'[p] = "in" => pc[p] = "in" /\ uses'[p] = uses[p])
    BY <1>7 DEF Sharing, Share, Close, TypeOK
  <2> QED BY <1>0, <1>2, <2>1
<1>8. CASE Calling(p)
  <2>1. UNCHANGED <<drv, freed, made>>
        /\ (pc'[p] = "in" => uses'[p] \in {Nil, drv} \/ (pc[p] \in {"enter", "in"} /\ uses'[p] = uses[p]))
    BY <1>8 DEF Calling, Enter, Check, Drive, Driven, Leave, TypeOK
  <2>2. pc[p] = "enter" => uses[p] = Nil BY DEF Hands
  <2> QED BY <1>0, <1>2, <2>1, <2>2
<1>9. CASE HangingUp(p)
  <2>1. UNCHANGED <<drv, freed, made>> /\ pc'[p] # "in"
    BY <1>9 DEF HangingUp, Hangup, HangsUp, AllOut, Abandon, Unhang, Waited, TypeOK
  <2> QED BY <1>2, <2>1
<1>10. CASE Killed(p)
  <2>1. UNCHANGED <<drv, freed, made>> /\ uses'[p] = Nil BY <1>10 DEF Killed, TypeOK
  <2> QED BY <1>2, <2>1
<1> QED BY <1>3, <1>4, <1>5, <1>6, <1>7, <1>8, <1>9, <1>10 DEF Step, Opening

(***************************************************************************)
(* The invariant.                                                          *)
(***************************************************************************)
\* A hangup in progress is somebody's, where nobody is stopped in its middle.
Served == StopsAt \subseteq {"in"} /\ hanging => \E p \in Procs : Hangs(p)

LEMMA ServedStep ==
  ASSUME TypeOK, TypeOK', Served, UNCHANGED world, NEW p \in Procs, Step(p)
  PROVE  Served'
<1> USE DEF Goes, dev, paths, driver
<1> SUFFICES ASSUME StopsAt \subseteq {"in"}, hanging' PROVE \E q \in Procs : Hangs(q)'
  BY DEF Served, StopsAt
<1>1. \A q \in Procs : q # p => Hangs(q)' = Hangs(q) BY OneSteps
<1>2. ASSUME hanging, Hangs(p) => Hangs(p)' PROVE \E q \in Procs : Hangs(q)'
  BY <1>1, <1>2 DEF Served
<1>3. CASE Opening(p)
  BY <1>2, <1>3 DEF Opening, Open, OpenRefused, vars, Established, NotEstablished, Uncount,
                    BeginClose, EndClose, Hangs, TypeOK
<1>4. CASE Close(p) BY <1>2, <1>4 DEF Close, Hangs, TypeOK
<1>5. ASSUME NEW c \in Procs, Share(p, c) PROVE \E q \in Procs : Hangs(q)'
  BY <1>2, <1>5 DEF Share, Hangs, TypeOK
<1>6. CASE Calling(p)
  BY <1>2, <1>6 DEF Calling, Enter, Check, Drive, Driven, Leave, Hangs, TypeOK
<1>7. CASE Hangup(p)
  <2>1. Hangs(p)' BY <1>7 DEF Hangup, Hangs, TypeOK
  <2> QED BY <2>1
<1>8. CASE HangsUp(p) \/ AllOut(p) \/ Abandon(p)
  BY <1>2, <1>8 DEF HangsUp, AllOut, Abandon, Hangs, TypeOK
<1>9. CASE Unhang(p) BY <1>9 DEF Unhang
<1>10. CASE Killed(p) BY <1>2, <1>10 DEF Killed, Hangs, TypeOK
<1> QED BY <1>3, <1>4, <1>5, <1>6, <1>7, <1>8, <1>9, <1>10 DEF Step, Sharing, HangingUp

LEMMA SessionInit == Init => SessionInv /\ Served
<1> SUFFICES ASSUME Init PROVE SessionInv /\ Served OBVIOUS
<1> USE DEF Init
<1>0. /\ NoPath \notin Paths /\ Nil \notin Nat /\ MaxMade \in Nat /\ MaxSession \in Nat
      /\ \A p \in Procs : pc[p] = "idle" /\ at[p] = NoPath /\ uses[p] = Nil
  BY SessionAssumption
<1>1. TypeOK
  <2>1. 0 \in 0..MaxMade /\ 0 \in 0..MaxSession BY <1>0
  <2> QED BY <1>0, <2>1 DEF TypeOK, Points
<1>2. Current = {} /\ Calls = {} /\ \A d \in Paths : Having(d) = {}
  BY <1>0 DEF Current, Calls, Having
<1>3. Counted BY <1>2, FS_EmptySet DEF Counted
<1>4. BusyCounts
  <2>1. Cardinality(Calls) = 0 BY <1>2, FS_EmptySet
  <2> QED BY <2>1 DEF BusyCounts, BusyIsCalls, Calls
<1>5. Places BY <1>0 DEF Places, Opens, Hangs, JustCloses
<1>6. NobodyInside /\ Hands /\ Served BY <1>0 DEF NobodyInside, Hangs, Hands, Served
<1>7. Own BY <1>0 DEF Own
<1>8. Neat BY <1>0 DEF Neat, Opens, JustCloses
<1>9. Held BY <1>0 DEF Held
<1> QED BY <1>1, <1>3, <1>4, <1>5, <1>6, <1>7, <1>8, <1>9 DEF SessionInv

LEMMA SessionStep == SessionInv /\ Served /\ [Next]_vars => SessionInv' /\ Served'
<1> SUFFICES ASSUME SessionInv, Served, [Next]_vars PROVE SessionInv' /\ Served' OBVIOUS
<1>1. CASE UNCHANGED vars
  <2>1. TypeOK' /\ world' \in Worlds /\ Counted' /\ Places'
    BY SMTT(30), <1>1 DEF SessionInv, vars, TypeOK, Counted, Having, Current, Places, Opens, Hangs,
                JustCloses, Stale
  <2>2. BusyCounts' /\ NobodyInside' /\ Hands' /\ Served'
    BY <1>1 DEF SessionInv, vars, BusyCounts, BusyIsCalls, StopsAt, Calls, NobodyInside, Hangs,
                Hands, Served
  <2>3. Own' BY <1>1 DEF SessionInv, vars, Own, CutsOff, Stale, Hangs, Current
  <2>4. Neat' /\ Held'
    BY <1>1 DEF SessionInv, vars, Neat, Held, CutsOff, MayJustClose, JustCloses, Opens
  <2> QED BY <2>1, <2>2, <2>3, <2>4 DEF SessionInv
<1>2. CASE Next
  <2>1. PICK p \in Procs : Step(p) BY <1>2 DEF Next, Step
  <2>2. UNCHANGED world /\ world \in Worlds BY <1>2 DEF Next, SessionInv
  <2>3. TypeOK' BY <2>1, TypesStep DEF SessionInv
  <2>4. Counted' BY <2>1, <2>2, <2>3, CountedStep DEF SessionInv
  <2>5. BusyCounts' BY <2>1, <2>2, <2>3, BusyStep DEF SessionInv
  <2>6. Places' BY <2>1, <2>2, <2>3, <2>4, PlacesStep DEF SessionInv
  <2>7. NobodyInside' BY <2>1, <2>3, NobodyInsideStep DEF SessionInv
  <2>8. Hands' BY <2>1, <2>3, HandsStep DEF SessionInv
  <2>9. Own' BY <2>1, <2>2, <2>3, OwnStep DEF SessionInv
  <2>10. Neat' BY <2>1, <2>2, <2>3, NeatStep DEF SessionInv
  <2>11. Held' BY <2>1, <2>2, <2>3, HeldStep DEF SessionInv
  <2>12. Served' BY <2>1, <2>2, <2>3, ServedStep DEF SessionInv
  <2> QED BY <2>2, <2>3, <2>4, <2>5, <2>6, <2>7, <2>8, <2>9, <2>10, <2>11, <2>12 DEF SessionInv
<1> QED BY <1>1, <1>2

\* The inductive invariant, in every world.
THEOREM SessionsKept == Spec => [](SessionInv /\ Served)
BY SessionInit, SessionStep, PTL DEF Spec

(***************************************************************************)
(* What it says.                                                           *)
(***************************************************************************)
\* No call has a freed session in hand, whoever was stopped or cut off, where
\* a last close comes after a hangup (io.c's dev_last_close and hangup).
THEOREM NoneFreedInUse == Spec => []NothingFreedInUse
<1>1. SessionInv /\ Served => NothingFreedInUse
  BY DEF SessionInv, Neat, NothingFreedInUse
<1> QED BY <1>1, SessionsKept, PTL

\* A call of the driver works on the session its own path established (io.c's
\* session_enter), where calls leave when they are hung up on.
THEOREM OwnReached == Spec => []CallsReachTheirOwn
<1>1. SessionInv /\ Served => CallsReachTheirOwn
  BY DEF SessionInv, Own, CallsReachTheirOwn
<1> QED BY <1>1, SessionsKept, PTL

\* No session is lost unfreed where calls leave and a last close comes after a
\* hangup.
THEOREM NoneLost == Spec => []NothingLost
<1>1. SessionInv /\ Served => NothingLost BY DEF SessionInv, Held, NothingLost
<1> QED BY <1>1, SessionsKept, PTL

\* The count is the paths of the session, references are what processes have,
\* and a device that refuses opens for a hangup has one going on, where nobody
\* is stopped in a close or in a hangup's wait.
THEOREM AccountsKept ==
  ASSUME \A w \in Worlds : w.StopsAt \subseteq {"in"}
  PROVE  Spec => []DeviceAccounted
<1>1. SessionInv /\ Served => DeviceAccounted
  BY DEF SessionInv, Served, StopsAt, Counted, Current, Having, BusyCounts, Hangs, DeviceAccounted
<1> QED BY <1>1, SessionsKept, PTL

(***************************************************************************)
(* The shell's paths.  A slot is one of its own, parked or not; or a pipe  *)
(* end it has just opened, in a slot that was free; or one of the first    *)
(* two, pointed elsewhere until the stage is on its way.                   *)
(***************************************************************************)
Source == <<"source", 0>>
Target == <<"target", 0>>

ShellPaths == (STRING \cup {"none", "source", "target", "reader", "writer"}) \X Nat

\* What is parked is so from the parking to the end of the pipeline, the capture
\* or the command.
Under ==
  step \in {"pipe", "out", "in", "fork", "release", "finish"}
    \/ (step = "wait" /\ command.is = "run")
InStage == step \in {"out", "in", "fork", "release"}
AimedOut == step \in {"in", "fork", "release"} \/ (Under /\ command.is = "run" /\ step # "out")
AimedIn ==
  step \in {"fork", "release"} \/ (Under /\ command.is = "run" /\ step \notin {"out", "in"})

\* A stage that writes to a pipe; one that reads from one.
PipesOut == command.is = "capture" \/ stage < command.stages
PipesIn == stage > 1

ShellType ==
  /\ home \in Homes /\ table \in [Fds -> ShellPaths]
  /\ step \in {"prompt", "park", "pipe", "out", "in", "fork", "release", "finish", "drain",
               "wait", "done"}
  /\ command \in Commands /\ stage \in 1..command.stages /\ broken \in BOOLEAN
  /\ kids \in [1..MaxStages -> [in : ShellPaths, out : ShellPaths, err : ShellPaths,
                                is : {"never", "runs", "gone"}]]

\* Which slots are in use, and what is parked.
ShellSlots ==
  /\ saved = IF Under THEN Parks ELSE {}
  /\ \A s \in saved : home[Original(s)] # Nothing
  /\ ~InStage => pw = NoFd /\ pr = NoFd
  /\ InStage => (pw # NoFd <=> PipesOut) /\ (pr # NoFd <=> PipesOut)
  /\ InStage \/ step = "pipe" => (prevRead # NoFd <=> PipesIn)
  /\ step = "pipe" => command.is # "run" /\ ~broken
  /\ step \in {"release", "drain"} => command.is # "run"
  /\ step = "out" => ~broken
  /\ step \in {"prompt", "park"} => ~broken /\ stage = 1
  /\ step \in {"prompt", "park", "wait", "done"} \/ command.is = "run" => prevRead = NoFd

\* What a slot holds where nothing has been pointed elsewhere; and the slots that
\* hold an end of a pipe.
Plain(s) == Parked(home, saved)[s]
EndSlots == {pw, pr, prevRead} \ {NoFd}

ShellFrame ==
  /\ EndSlots \subseteq Fds /\ \A s \in EndSlots : Plain(s) = Nothing
  /\ pw # NoFd => pw # pr /\ table[pw] = Writer(stage)
  /\ pr # NoFd => pr # prevRead /\ table[pr] = Reader(stage)
  /\ prevRead # NoFd => /\ prevRead # pw /\ \E i \in 1..MaxStages : table[prevRead] = Reader(i)
                        /\ InStage \/ step = "pipe" => table[prevRead] = Reader(stage - 1)
  /\ \A s \in Fds \ ({0, 1} \cup EndSlots) : table[s] = Plain(s)

ShellAims ==
  /\ ~AimedOut /\ 1 \notin EndSlots => table[1] = Plain(1)
  /\ ~AimedIn /\ 0 \notin EndSlots => table[0] = Plain(0)
  /\ AimedOut /\ pw = NoFd =>
       /\ table[1] \in {home[1], Target} /\ (command.target \/ table[1] = home[1])
       /\ ~broken /\ command.target => table[1] = Target
  /\ AimedOut /\ pw # NoFd => table[1] = Writer(stage)
  /\ AimedIn /\ command.is = "run" =>
       /\ table[0] \in {home[0], Source} /\ (command.source \/ table[0] = home[0])
  /\ AimedIn /\ step # "wait" /\ step # "finish" /\ ~broken =>
       IF command.source /\ stage = 1 THEN table[0] = Source
       ELSE IF prevRead # NoFd THEN table[0] = Reader(stage - 1)
       ELSE 0 \notin EndSlots => table[0] = home[0]
  /\ command.is = "capture" /\ 0 \notin EndSlots => table[0] = home[0]

ShellKids ==
  /\ Joined
  /\ step \in {"prompt", "park"} => kids = [i \in 1..MaxStages |-> NoKid]

ShellInv == ShellType /\ ShellSlots /\ ShellFrame /\ ShellAims /\ ShellKids

LEMMA PathsDiffer ==
  /\ Nothing \in ShellPaths /\ Source \in ShellPaths /\ Target \in ShellPaths
  /\ Nothing[1] = "none" /\ Source[1] = "source" /\ Target[1] = "target"
  /\ Nothing # Source /\ Nothing # Target
  /\ \A i \in Nat : /\ Reader(i) \in ShellPaths /\ Writer(i) \in ShellPaths
                    /\ Reader(i)[1] = "reader" /\ Writer(i)[1] = "writer"
                    /\ Nothing # Reader(i) /\ Nothing # Writer(i)
<1>1. Nothing \in ShellPaths /\ Source \in ShellPaths /\ Target \in ShellPaths
  BY DEF Nothing, Source, Target, ShellPaths
<1>2. Nothing[1] = "none" /\ Source[1] = "source" /\ Target[1] = "target"
  BY DEF Nothing, Source, Target
<1>3. ASSUME NEW i \in Nat
      PROVE  /\ Reader(i) \in ShellPaths /\ Writer(i) \in ShellPaths
             /\ Reader(i)[1] = "reader" /\ Writer(i)[1] = "writer"
  BY DEF Reader, Writer, ShellPaths
<1> QED BY <1>1, <1>2, <1>3

LEMMA FirstFreeIsFree ==
  ASSUME NEW t, CanOpen(t)
  PROVE  FirstFree(t) \in Fds /\ t[FirstFree(t)] = Nothing
<1>1. IsFiniteSet(FreeFds(t)) /\ FreeFds(t) \subseteq Nat
  BY ShellAssumption, FS_Subset DEF FreeFds
<1>2. PICK S : S = FreeFds(t) OBVIOUS
<1>3. S # {} BY <1>2 DEF CanOpen
<1>4. \E s \in S : \A r \in S : s <= r BY <1>1, <1>2, <1>3, LeastExists
<1>5. FirstFree(t) = CHOOSE s \in S : \A r \in S : s <= r BY <1>2, <1>3 DEF FirstFree
<1>6. FirstFree(t) \in S BY <1>4, <1>5
<1> QED BY <1>2, <1>6 DEF FreeFds

LEMMA ShellBounds ==
  /\ Fds \subseteq Nat /\ NoFd \notin Fds /\ {0, 1, 2, SaveOut, SaveIn} \subseteq Fds
  /\ SaveOut # SaveIn /\ {SaveOut, SaveIn} \cap {0, 1} = {}
  /\ Original(SaveOut) = 1 /\ Original(SaveIn) = 0 /\ MaxStages \in Nat \ {0}
  /\ \A h \in Homes : /\ h \in [Fds -> ShellPaths]
                      /\ h[SaveOut] = Nothing /\ h[SaveIn] = Nothing
                      /\ \A s \in Fds : h[s][1] \notin {"reader", "writer"}
BY ShellAssumption DEF NoFd, Original, ShellPaths

LEMMA CommandIs ==
  ASSUME NEW c \in Commands
  PROVE  /\ c.is \in {"run", "pipeline", "capture"} /\ c.stages \in 1..MaxStages
         /\ c.target \in BOOLEAN /\ c.source \in BOOLEAN /\ c.background \in BOOLEAN
         /\ c.is = "pipeline" <=> c.stages > 1
         /\ c.is = "capture" => ~c.target /\ ~c.source
<1>1. \/ /\ c.is = "run" /\ c.stages = 1
         /\ c.target \in BOOLEAN /\ c.source \in BOOLEAN /\ c.background \in BOOLEAN
      \/ /\ c.is = "pipeline" /\ c.stages \in 2..MaxStages
         /\ c.target \in BOOLEAN /\ c.source \in BOOLEAN /\ c.background \in BOOLEAN
      \/ /\ c.is = "capture" /\ c.stages = 1 /\ c.target = FALSE /\ c.source = FALSE
         /\ c.background = FALSE
  <2>1. \/ c \in [is : {"run"}, stages : {1}, target : BOOLEAN, source : BOOLEAN,
                  background : BOOLEAN]
        \/ c \in [is : {"pipeline"}, stages : 2..MaxStages, target : BOOLEAN, source : BOOLEAN,
                  background : BOOLEAN]
        \/ c \in [is : {"capture"}, stages : {1}, target : {FALSE}, source : {FALSE},
                  background : {FALSE}]
    BY DEF Commands
  <2> QED BY <2>1
<1>2. MaxStages \in Nat \ {0} BY ShellAssumption
<1>3. PICK n, w : n = c.stages /\ w = c.is OBVIOUS
<1>4. (w = "run" /\ n = 1) \/ (w = "pipeline" /\ n \in 2..MaxStages) \/ (w = "capture" /\ n = 1)
  BY <1>1, <1>3, Zenon
<1>5. w \in {"run", "pipeline", "capture"} /\ n \in 1..MaxStages /\ (w = "pipeline" <=> n > 1)
  BY <1>2, <1>4
<1>6. /\ c.target \in BOOLEAN /\ c.source \in BOOLEAN /\ c.background \in BOOLEAN
      /\ c.is = "capture" => ~c.target /\ ~c.source
  BY <1>1
<1> QED BY <1>3, <1>5, <1>6

LEMMA ShellStarts == ShellInit => ShellInv
<1> SUFFICES ASSUME ShellInit PROVE ShellInv OBVIOUS
<1> USE ShellBounds DEF ShellInit
<1>1. command \in Commands /\ command.stages = 1 /\ command.is = "run" BY DEF NoCommand, Commands
<1>2. ShellType
  <2>1. NoKid \in [in : ShellPaths, out : ShellPaths, err : ShellPaths, is : {"never", "runs", "gone"}]
    BY PathsDiffer DEF NoKid
  <2> HIDE DEF ShellInit
  <2>2. kids = [i \in 1..MaxStages |-> NoKid] /\ stage = 1 /\ home \in Homes /\ table = home
        /\ step = "prompt" /\ broken = FALSE
    BY DEF ShellInit
  <2>3. kids \in [1..MaxStages -> [in : ShellPaths, out : ShellPaths, err : ShellPaths,
                                  is : {"never", "runs", "gone"}]]
    BY <2>1, <2>2
  <2>4. table \in [Fds -> ShellPaths] BY <2>2
  <2>5. stage \in 1..command.stages BY <1>1, <2>2
  <2> HIDE DEF NoKid
  <2> QED BY <1>1, <2>2, <2>3, <2>4, <2>5 DEF ShellType
<1>3. ShellSlots BY <1>1 DEF ShellSlots, Under, InStage, PipesIn, PipesOut, NoFd
<1>4. EndSlots = {} /\ \A s \in Fds : Plain(s) = home[s] BY DEF EndSlots, Plain, Parked
<1>5. ShellFrame BY <1>4 DEF ShellFrame, InStage
<1>6. ShellAims BY <1>1, <1>4 DEF ShellAims, AimedIn, AimedOut, Under
<1>7. ShellKids BY DEF ShellKids, Joined, NoKid
<1> QED BY <1>2, <1>3, <1>5, <1>6, <1>7 DEF ShellInv

\* What the invariant says of the slots that matter.
LEMMA ShellKnows ==
  ASSUME ShellInv
  PROVE  /\ home \in [Fds -> ShellPaths] /\ table \in [Fds -> ShellPaths]
         /\ saved \subseteq {SaveOut, SaveIn} /\ EndSlots \subseteq Fds
         /\ \A s \in Fds : Plain(s) = IF s \in saved THEN home[Original(s)] ELSE home[s]
         /\ Plain(0) = home[0] /\ Plain(1) = home[1]
         /\ SaveOut \in saved => /\ SaveOut \notin EndSlots /\ table[SaveOut] = home[1]
                                /\ home[1] # Nothing /\ 1 \notin EndSlots
         /\ SaveIn \in saved => /\ SaveIn \notin EndSlots /\ table[SaveIn] = home[0]
                               /\ home[0] # Nothing /\ 0 \notin EndSlots
         /\ command.is # "run" /\ Under => SaveOut \in saved
         /\ command.is = "pipeline" /\ Under => SaveIn \in saved
         /\ command.target /\ Under => SaveOut \in saved
         /\ command.source /\ Under => SaveIn \in saved
<1> USE ShellBounds DEF ShellInv
<1>1. home \in [Fds -> ShellPaths] /\ table \in [Fds -> ShellPaths] BY DEF ShellType
<1>2. /\ command.is \in {"run", "pipeline", "capture"}
      /\ (command.is = "capture" => ~command.target /\ ~command.source)
  BY CommandIs DEF ShellType
<1>3. Parks \subseteq {SaveOut, SaveIn} BY <1>2 DEF Parks
<1>4. saved \subseteq {SaveOut, SaveIn} BY <1>3 DEF ShellSlots
<1>5. \A s \in Fds : Plain(s) = IF s \in saved THEN home[Original(s)] ELSE home[s]
  BY DEF Plain, Parked
<1>6. Plain(0) = home[0] /\ Plain(1) = home[1] BY <1>4, <1>5
<1>7. EndSlots \subseteq Fds BY DEF ShellFrame
<1>8. ASSUME SaveOut \in saved
      PROVE  /\ SaveOut \notin EndSlots /\ table[SaveOut] = home[1]
             /\ home[1] # Nothing /\ 1 \notin EndSlots
  <2>1. Plain(SaveOut) = home[1] /\ home[1] # Nothing BY <1>5, <1>8 DEF ShellSlots
  <2>2. SaveOut \notin EndSlots /\ 1 \notin EndSlots BY <1>6, <2>1 DEF ShellFrame
  <2> QED BY <2>1, <2>2 DEF ShellFrame
<1>9. ASSUME SaveIn \in saved
      PROVE  /\ SaveIn \notin EndSlots /\ table[SaveIn] = home[0]
             /\ home[0] # Nothing /\ 0 \notin EndSlots
  <2>1. Plain(SaveIn) = home[0] /\ home[0] # Nothing BY <1>5, <1>9 DEF ShellSlots
  <2>2. SaveIn \notin EndSlots /\ 0 \notin EndSlots BY <1>6, <2>1 DEF ShellFrame
  <2> QED BY <2>1, <2>2 DEF ShellFrame
<1>10. /\ command.is # "run" /\ Under => SaveOut \in saved
       /\ command.is = "pipeline" /\ Under => SaveIn \in saved
       /\ command.target /\ Under => SaveOut \in saved
       /\ command.source /\ Under => SaveIn \in saved
  BY <1>2 DEF ShellSlots, Parks
<1> QED BY <1>1, <1>4, <1>5, <1>6, <1>7, <1>8, <1>9, <1>10

\* Where nothing is under way, the table is the one it has at its prompt.
LEMMA ShellHome ==
  ASSUME ShellInv, ~Under, step # "drain"
  PROVE  table = home /\ EndSlots = {} /\ saved = {} /\ pw = NoFd /\ pr = NoFd /\ prevRead = NoFd
<1> USE DEF ShellInv
<1>1. step \in {"prompt", "park", "done", "wait"} BY DEF ShellType, Under
<1>2. saved = {} /\ pw = NoFd /\ pr = NoFd /\ prevRead = NoFd
  BY <1>1 DEF ShellSlots, InStage
<1>3. EndSlots = {} BY <1>2 DEF EndSlots
<1>4. ~AimedOut /\ ~AimedIn BY <1>1 DEF AimedOut, AimedIn
<1>5. \A s \in Fds : Plain(s) = home[s] BY <1>2, ShellKnows
<1>6. table[0] = home[0] /\ table[1] = home[1] BY <1>3, <1>4, ShellKnows DEF ShellAims
<1>7. \A s \in Fds : table[s] = home[s] BY <1>3, <1>5, <1>6 DEF ShellFrame
<1>8. table = home BY <1>7, ShellKnows
<1> QED BY <1>2, <1>3, <1>8

LEMMA AtPromptStarts ==
  ASSUME ShellInv, table = home, AtPrompt, UNCHANGED <<home, table>>
  PROVE  ShellInv'
<1>1. ShellInit'
  <2>1. home' \in Homes /\ table' = home' BY DEF ShellInv, ShellType
  <2> QED BY <2>1 DEF ShellInit, AtPrompt
<1>2. (ShellInit => ShellInv)' BY ShellStarts, PTL
<1> QED BY <1>1, <1>2

LEMMA EnterCommandKeeps ==
  ASSUME ShellInv, NEW c \in Commands, EnterCommand(c), UNCHANGED home
  PROVE  ShellInv'
<1> USE DEF EnterCommand
<1>1. table = home /\ EndSlots = {} /\ saved = {} /\ pw = NoFd /\ pr = NoFd /\ prevRead = NoFd
  BY ShellHome DEF Under
<1>2. EndSlots' = {} /\ ~Under' /\ ~InStage' /\ ~AimedIn' /\ ~AimedOut'
  BY <1>1 DEF EndSlots, Under, InStage, AimedIn, AimedOut
<1>3. stage = 1 /\ ~broken /\ kids = [i \in 1..MaxStages |-> NoKid]
  BY DEF ShellInv, ShellSlots, ShellKids
<1>4. ShellType'
  <2>1. stage' \in 1..command'.stages BY <1>3, CommandIs
  <2> QED BY <2>1 DEF ShellInv, ShellType
<1>5. ShellSlots' BY <1>1, <1>2, <1>3 DEF ShellSlots
<1>6. \A s \in Fds : Plain(s)' = home[s]
  BY <1>1, ShellBounds DEF Plain, Parked
<1>7. ShellFrame' BY <1>1, <1>2, <1>6 DEF ShellFrame
<1>8. ShellAims'
  <2>1. 0 \in Fds /\ 1 \in Fds /\ table' = home /\ home' = home BY <1>1, ShellBounds
  <2> QED BY <1>2, <1>6, <2>1 DEF ShellAims
<1>9. ShellKids' BY <1>3 DEF ShellKids, Joined, NoKid
<1> QED BY <1>4, <1>5, <1>7, <1>8, <1>9 DEF ShellInv

LEMMA ParkKeeps ==
  ASSUME ShellInv, Park, UNCHANGED home
  PROVE  ShellInv'
<1>1. /\ step = "park" /\ table = home /\ EndSlots = {} /\ pw = NoFd /\ pr = NoFd
      /\ prevRead = NoFd
  BY ShellHome DEF Park, Under
<1>2. CASE AtPrompt /\ UNCHANGED table BY <1>1, <1>2, AtPromptStarts
<1>3. CASE ~(AtPrompt /\ UNCHANGED table)
  <2>1. /\ \A s \in Parks : table[Original(s)] # Nothing
        /\ table' = Parked(table, Parks) /\ saved' = Parks
        /\ step' = IF command.is = "run" THEN "out" ELSE "pipe"
        /\ UNCHANGED <<command, stage, pw, pr, prevRead, broken, kids>>
    BY <1>3 DEF Park
  <2>2. stage = 1 /\ ~broken /\ kids = [i \in 1..MaxStages |-> NoKid]
    BY <1>1 DEF ShellInv, ShellSlots, ShellKids
  <2>3. Parks' = Parks BY <2>1 DEF Parks
  <2>4. EndSlots' = {} /\ Under' /\ ~AimedIn' /\ ~AimedOut'
    BY <1>1, <2>1 DEF EndSlots, Under, AimedIn, AimedOut
  <2>5. command \in Commands /\ command.is \in {"run", "pipeline", "capture"}
        /\ (command.is = "run" => command.stages = 1)
    <3>1. command \in Commands BY DEF ShellInv, ShellType
    <3>2. PICK n, w : n = command.stages /\ w = command.is OBVIOUS
    <3>3. n \in Nat /\ n >= 1 /\ (w = "pipeline" <=> n > 1) BY <3>1, <3>2, CommandIs
    <3> QED BY <3>1, <3>2, <3>3, CommandIs
  <2>6. \A s \in Fds : Plain(s)' = table'[s] BY <1>1, <2>1 DEF Plain
  <2>7. Parks \subseteq {SaveOut, SaveIn} BY <2>5 DEF Parks
  <2>8. ShellType'
    <3>1. table' \in [Fds -> ShellPaths] BY <2>1, <2>7, ShellKnows, ShellBounds DEF Parked
    <3>2. step' \in {"out", "pipe"} BY <2>1
    <3> QED BY <2>1, <3>1, <3>2 DEF ShellInv, ShellType
  <2>9. ShellSlots'
    <3>1. step' \in {"out", "pipe"} /\ (step' = "pipe" => command.is # "run") BY <2>1
    <3>2. step' = "out" => ~PipesOut' BY <2>1, <2>2, <2>5 DEF PipesOut
    <3>3. ~PipesIn' BY <2>1, <2>2 DEF PipesIn
    <3>4. InStage' <=> step' = "out" BY <3>1 DEF InStage
    <3> QED BY <1>1, <2>1, <2>2, <2>3, <2>4, <3>1, <3>2, <3>3, <3>4 DEF ShellSlots
  <2>10. ShellFrame'  BY <1>1, <2>1, <2>4, <2>6 DEF ShellFrame
  <2>11. ShellAims'
    <3>1. table'[0] = home[0] /\ table'[1] = home[1] BY <1>1, <2>1, <2>7, ShellBounds DEF Parked
    <3>2. 0 \in Fds /\ 1 \in Fds BY ShellBounds
    <3> QED BY <2>4, <2>6, <3>1, <3>2 DEF ShellAims
  <2>12. ShellKids' BY <2>1, <2>2 DEF ShellKids, Joined, NoKid
  <2> QED BY <2>8, <2>9, <2>10, <2>11, <2>12 DEF ShellInv
<1> QED BY <1>2, <1>3

\* The command in hand, in plain words.
LEMMA TheCommand ==
  ASSUME ShellInv
  PROVE  /\ command \in Commands /\ command.is \in {"run", "pipeline", "capture"}
         /\ command.stages \in 1..MaxStages /\ MaxStages \in Nat /\ stage \in 1..command.stages
         /\ command.is # "pipeline" => stage = 1 /\ command.stages = 1
         /\ command.is = "capture" => ~command.target /\ ~command.source
         /\ command.is = "run" => ~PipesOut /\ ~PipesIn
<1>1. command \in Commands /\ stage \in 1..command.stages BY DEF ShellInv, ShellType
<1>2. command.is = "capture" => ~command.target /\ ~command.source BY <1>1, CommandIs
<1>3. command.is \in {"run", "pipeline", "capture"} BY <1>1, CommandIs
<1>4. PICK n, w : n = command.stages /\ w = command.is OBVIOUS
<1>5. n \in 1..MaxStages /\ (w = "pipeline" <=> n > 1) BY <1>1, <1>4, CommandIs
<1>6. MaxStages \in Nat BY ShellBounds
<1>7. w # "pipeline" => stage = 1 /\ n = 1 BY <1>1, <1>4, <1>5, <1>6
<1>8. command.is = "run" => ~PipesOut /\ ~PipesIn BY <1>4, <1>7 DEF PipesOut, PipesIn
<1> QED BY <1>1, <1>2, <1>3, <1>4, <1>5, <1>6, <1>7, <1>8

LEMMA KidsStay ==
  ASSUME ShellInv, step # "prompt", step' \notin {"prompt", "park"},
         UNCHANGED <<kids, command, home>>
  PROVE  ShellKids'
BY DEF ShellInv, ShellKids, Joined

LEMMA OpenPipeKeeps ==
  ASSUME ShellInv, OpenPipe, UNCHANGED home
  PROVE  ShellInv'
<1>1. /\ step = "pipe" /\ UNCHANGED <<command, stage, prevRead, saved, kids>>
      /\ command.is # "run" /\ ~broken /\ pw = NoFd /\ pr = NoFd /\ ~InStage /\ Under
      /\ (prevRead # NoFd <=> PipesIn) /\ ~AimedOut /\ ~AimedIn
  BY DEF OpenPipe, ShellInv, ShellSlots, InStage, Under, AimedOut, AimedIn
<1>2. SaveOut \in saved /\ 1 \notin EndSlots /\ home[1] # Nothing BY <1>1, ShellKnows
<1>3. EndSlots = {prevRead} \ {NoFd} BY <1>1 DEF EndSlots
<1>4. \A s \in Fds : Plain(s)' = Plain(s) BY <1>1 DEF Plain
<1>5. Parks' = Parks BY <1>1 DEF Parks
<1>6. PipesIn' = PipesIn /\ PipesOut' = PipesOut BY <1>1 DEF PipesIn, PipesOut
<1>7. /\ \A s \in EndSlots : s \in Fds /\ Plain(s) = Nothing
      /\ prevRead # NoFd => table[prevRead] = Reader(stage - 1)
                            /\ \E i \in 1..MaxStages : table[prevRead] = Reader(i)
      /\ \A s \in Fds \ ({0, 1} \cup EndSlots) : table[s] = Plain(s)
      /\ table[1] = Plain(1) /\ (0 \notin EndSlots => table[0] = Plain(0))
      /\ command.is = "capture" /\ 0 \notin EndSlots => table[0] = home[0]
  BY <1>1, <1>2 DEF ShellInv, ShellFrame, ShellAims
<1>8. saved = Parks /\ (\A s \in saved : home[Original(s)] # Nothing)
  BY <1>1 DEF ShellInv, ShellSlots
<1>9. CASE stage = command.stages /\ command.is = "pipeline"
  <2>1. step' = "out" /\ UNCHANGED <<table, pw, pr, broken>> BY <1>1, <1>9 DEF OpenPipe
  <2>2. ~PipesOut BY <1>9, TheCommand DEF PipesOut
  <2>3. EndSlots' = EndSlots /\ InStage' /\ Under' /\ ~AimedIn' /\ ~AimedOut'
    BY <1>1, <2>1 DEF EndSlots, InStage, Under, AimedIn, AimedOut
  <2>4. ShellType' BY <1>1, <2>1 DEF ShellInv, ShellType
  <2>5. ShellSlots' BY <1>1, <1>5, <1>6, <1>8, <2>1, <2>2, <2>3 DEF ShellSlots
  <2>6. ShellFrame' BY <1>1, <1>3, <1>4, <1>7, <2>1, <2>3 DEF ShellFrame
  <2>7. 0 \in Fds /\ 1 \in Fds BY ShellBounds
  <2>8. ShellAims' BY <1>1, <1>2, <1>4, <1>7, <2>1, <2>3, <2>7 DEF ShellAims
  <2>9. ShellKids' BY <1>1, <2>1, KidsStay
  <2> QED BY <2>4, <2>5, <2>6, <2>8, <2>9 DEF ShellInv
<1>10. CASE ~(stage = command.stages /\ command.is = "pipeline") /\ broken' # broken
  <2>1. broken' = TRUE /\ step' = "finish" /\ UNCHANGED <<table, pw, pr>>
    BY <1>10 DEF OpenPipe
  <2>2. EndSlots' = EndSlots /\ ~InStage' /\ Under' /\ ~AimedIn' /\ ~AimedOut'
    BY <1>1, <2>1 DEF EndSlots, InStage, Under, AimedIn, AimedOut
  <2>4. ShellType' BY <1>1, <2>1 DEF ShellInv, ShellType
  <2>5. ShellSlots' BY <1>1, <1>5, <1>6, <1>8, <2>1, <2>2 DEF ShellSlots
  <2>6. ShellFrame' BY <1>1, <1>3, <1>4, <1>7, <2>1, <2>2 DEF ShellFrame
  <2>7. 0 \in Fds /\ 1 \in Fds BY ShellBounds
  <2>8. ShellAims' BY <1>1, <1>2, <1>4, <1>7, <2>1, <2>2, <2>7 DEF ShellAims
  <2>9. ShellKids' BY <1>1, <2>1, KidsStay
  <2> QED BY <2>4, <2>5, <2>6, <2>8, <2>9 DEF ShellInv
<1>11. CASE ~(stage = command.stages /\ command.is = "pipeline") /\ broken' = broken
  <2>1. PICK f, w, g : /\ f = FirstFree(table) /\ w = OpenAs(table, Writer(stage))
                       /\ g = FirstFree(w)
    OBVIOUS
  <2>2. /\ CanOpen(table) /\ CanOpen(w) /\ pw' = f /\ pr' = g
        /\ table' = OpenAs(w, Reader(stage)) /\ step' = "out" /\ UNCHANGED broken
    BY <1>1, <1>11, <2>1 DEF OpenPipe
  <2>3. f \in Fds /\ table[f] = Nothing /\ g \in Fds /\ w[g] = Nothing
    BY <2>1, <2>2, FirstFreeIsFree
  <2>4. w = [table EXCEPT ![f] = Writer(stage)] /\ table' = [w EXCEPT ![g] = Reader(stage)]
    BY <2>1, <2>2 DEF OpenAs
  <2>5. stage \in Nat /\ stage \in 1..MaxStages
    <3>1. PICK n : n = command.stages OBVIOUS
    <3> QED BY <3>1, TheCommand
  <2>6. /\ Writer(stage) \in ShellPaths /\ Reader(stage) \in ShellPaths
        /\ Nothing # Writer(stage) /\ \A i \in Nat : Nothing # Reader(i)
    BY <2>5, PathsDiffer
  <2>7. table \in [Fds -> ShellPaths] BY ShellKnows
  <2>8. /\ f # g /\ table[g] = Nothing /\ table' \in [Fds -> ShellPaths]
        /\ table'[f] = Writer(stage) /\ table'[g] = Reader(stage)
        /\ \A s \in Fds \ {f, g} : table'[s] = table[s]
    BY <2>3, <2>4, <2>6, <2>7
  <2>9. prevRead # f /\ prevRead # g
    <3>1. ASSUME prevRead # NoFd PROVE table[prevRead] # Nothing
      <4>1. PICK i \in 1..MaxStages : table[prevRead] = Reader(i) BY <1>7, <3>1
      <4>2. i \in Nat BY TheCommand
      <4> QED BY <2>6, <4>1, <4>2
    <3> QED BY <2>3, <2>8, <3>1, ShellBounds
  <2>10. f \notin EndSlots /\ g \notin EndSlots BY <1>3, <2>9
  <2>11. f # 1 /\ g # 1 BY <1>2, <1>7, <2>3, <2>8, ShellKnows
  <2>12. Plain(f) = Nothing /\ Plain(g) = Nothing BY <1>7, <2>3, <2>8, <2>10
  <2>13. EndSlots' = EndSlots \cup {f, g} BY <1>1, <1>3, <2>2, <2>3, ShellBounds DEF EndSlots
  <2>14. InStage' /\ Under' /\ ~AimedIn' /\ ~AimedOut'
    BY <2>2 DEF InStage, Under, AimedIn, AimedOut
  <2>15. PipesOut
    <3>1. PICK n : n = command.stages OBVIOUS
    <3>2. command.is = "capture" \/ stage # n BY <1>1, <1>11, <3>1, TheCommand
    <3>3. stage \in 1..n /\ n \in Nat BY <3>1, TheCommand
    <3>4. command.is = "capture" \/ stage < n BY <3>2, <3>3
    <3> QED BY <3>1, <3>4 DEF PipesOut
  <2>16. ShellType' BY <1>1, <2>2, <2>8 DEF ShellInv, ShellType
  <2>17. ShellSlots'
    <3>1. f # NoFd /\ g # NoFd BY <2>3, ShellBounds
    <3> QED BY <1>1, <1>5, <1>6, <1>8, <2>2, <2>14, <2>15, <3>1 DEF ShellSlots
  <2>18. ShellFrame'
    <3>1. EndSlots' \subseteq Fds /\ \A s \in EndSlots' : Plain(s)' = Nothing
      BY <1>4, <1>7, <2>3, <2>12, <2>13
    <3>2. prevRead # NoFd => /\ prevRead \in Fds /\ table'[prevRead] = table[prevRead]
      BY <1>3, <1>7, <2>8, <2>9
    <3>3. \A s \in Fds \ ({0, 1} \cup EndSlots') : table'[s] = Plain(s)'
      BY <1>4, <1>7, <2>8, <2>13
    <3> QED BY <1>1, <1>7, <2>2, <2>8, <2>9, <3>1, <3>2, <3>3 DEF ShellFrame
  <2>19. ShellAims'
    <3>1. 0 \in Fds /\ 1 \in Fds BY ShellBounds
    <3>2. table'[1] = Plain(1)' BY <1>4, <1>7, <2>8, <2>11, <3>1
    <3>3. 0 \notin EndSlots' => table'[0] = Plain(0)' /\ table'[0] = table[0]
      BY <1>4, <1>7, <2>8, <2>13, <3>1
    <3> QED BY <1>1, <1>7, <2>13, <2>14, <3>2, <3>3 DEF ShellAims
  <2>20. ShellKids' BY <1>1, <2>2, KidsStay
  <2> QED BY <2>16, <2>17, <2>18, <2>19, <2>20 DEF ShellInv
<1> QED BY <1>9, <1>10, <1>11

\* An open whose path is moved to a slot in use takes that slot, and no other.
LEMMA MovedTo ==
  ASSUME NEW t \in [Fds -> ShellPaths], CanOpen(t), NEW path \in ShellPaths, path # Nothing,
         NEW to \in Fds, t[to] # Nothing
  PROVE  Moved(OpenAs(t, path), FirstFree(t), to) = [t EXCEPT ![to] = path]
<1>1. PICK f : f = FirstFree(t) OBVIOUS
<1>2. f \in Fds /\ t[f] = Nothing /\ f # to /\ f # NoFd
  BY <1>1, FirstFreeIsFree, ShellBounds
<1>3. PICK u : u = [t EXCEPT ![f] = path] OBVIOUS
<1>4. u[f] = path /\ u \in [Fds -> ShellPaths] BY <1>2, <1>3
<1>5. Dup2(u, f, to) = [u EXCEPT ![to] = path] BY <1>4 DEF Dup2
<1>6. Moved(u, f, to) = [[u EXCEPT ![to] = path] EXCEPT ![f] = Nothing]
  BY <1>2, <1>5 DEF Moved, CloseSlot
<1>7. \A s \in Fds :
        [[u EXCEPT ![to] = path] EXCEPT ![f] = Nothing][s] = [t EXCEPT ![to] = path][s]
  BY <1>2, <1>3
<1>8. [[u EXCEPT ![to] = path] EXCEPT ![f] = Nothing] = [t EXCEPT ![to] = path]
  BY <1>2, <1>3, <1>7
<1> QED BY <1>1, <1>3, <1>6, <1>8 DEF OpenAs

LEMMA AimOutKeeps ==
  ASSUME ShellInv, AimOut, UNCHANGED home
  PROVE  ShellInv'
<1>1. /\ step = "out" /\ step' = "in"
      /\ UNCHANGED <<command, stage, pw, pr, prevRead, saved, kids>>
      /\ InStage /\ Under /\ ~AimedOut /\ ~AimedIn /\ ~broken
      /\ (pw # NoFd <=> PipesOut) /\ (pr # NoFd <=> PipesOut) /\ (prevRead # NoFd <=> PipesIn)
  BY DEF AimOut, ShellInv, ShellSlots, InStage, Under, AimedOut, AimedIn
<1>2. InStage' /\ Under' /\ AimedOut' /\ ~AimedIn' /\ EndSlots' = EndSlots
  BY <1>1 DEF InStage, Under, AimedOut, AimedIn, EndSlots
<1>3. table \in [Fds -> ShellPaths] /\ 0 \in Fds /\ 1 \in Fds BY ShellKnows, ShellBounds
<1>4. \A s \in Fds : Plain(s)' = Plain(s) BY <1>1 DEF Plain
<1>5. PipesIn' = PipesIn /\ PipesOut' = PipesOut /\ Parks' = Parks
  BY <1>1 DEF PipesIn, PipesOut, Parks
<1>6. command.target \in BOOLEAN BY TheCommand, CommandIs
<1>7. pw # NoFd => 1 \notin EndSlots /\ pw \in Fds /\ table[pw] = Writer(stage)
                   /\ Writer(stage) \in ShellPaths /\ Writer(stage) # Nothing
  <2>1. ASSUME pw # NoFd PROVE command.is # "run" BY <1>1, <2>1, TheCommand
  <2>2. stage \in Nat
    <3>1. PICK n : n = command.stages OBVIOUS
    <3> QED BY <3>1, TheCommand
  <2>3. pw # NoFd => 1 \notin EndSlots BY <1>1, <2>1, ShellKnows
  <2>4. pw # NoFd => pw \in EndSlots BY DEF EndSlots
  <2>5. pw # NoFd => table[pw] = Writer(stage) BY DEF ShellInv, ShellFrame
  <2>6. EndSlots \subseteq Fds BY ShellKnows
  <2> QED BY <2>2, <2>3, <2>4, <2>5, <2>6, PathsDiffer
<1>8. 1 \notin EndSlots => table[1] = home[1] BY <1>1, ShellKnows DEF ShellInv, ShellAims
<1>9. /\ table' \in [Fds -> ShellPaths]
      /\ \A s \in Fds \ {1} : table'[s] = table[s]
      /\ 1 \in EndSlots => table'[1] = table[1]
      /\ pw # NoFd => table'[1] = Writer(stage)
      /\ pw = NoFd => /\ table'[1] \in {table[1], Target}
                      /\ command.target \/ table'[1] = table[1]
                      /\ ~broken' /\ command.target => table'[1] = Target
  <2>1. CASE command.target /\ stage = command.stages
    <3>1. pw = NoFd
      <4>1. command.is # "capture" BY <2>1, TheCommand
      <4>2. ~PipesOut
        <5>1. PICK n : n = command.stages OBVIOUS
        <5>2. ~(stage < n) BY <2>1, <5>1, TheCommand
        <5> QED BY <4>1, <5>1, <5>2 DEF PipesOut
      <4> QED BY <1>1, <4>2
    <3>2. 1 \notin EndSlots /\ table[1] # Nothing BY <1>1, <1>8, <2>1, ShellKnows
    <3>3. CASE broken' = TRUE /\ UNCHANGED table BY <1>3, <3>1, <3>2, <3>3
    <3>4. CASE ~(broken' = TRUE /\ UNCHANGED table)
      <4>1. /\ CanOpen(table) /\ UNCHANGED broken
            /\ table' = Moved(OpenAs(table, Target), FirstFree(table), 1)
        BY <2>1, <3>4 DEF AimOut, Target
      <4>2. table' = [table EXCEPT ![1] = Target] BY <1>3, <3>2, <4>1, MovedTo, PathsDiffer
      <4>3. Target \in ShellPaths BY PathsDiffer
      <4> QED BY <1>1, <1>3, <2>1, <3>1, <3>2, <4>1, <4>2, <4>3
    <3> QED BY <3>3, <3>4
  <2>2. CASE ~(command.target /\ stage = command.stages)
    <3>1. table' = (IF pw = NoFd THEN table ELSE Dup2(table, pw, 1)) /\ UNCHANGED broken
      BY <2>2 DEF AimOut
    <3>2. CASE pw = NoFd
      <4>1. ~command.target
        <5>1. ~PipesOut BY <1>1, <3>2
        <5>2. PICK n : n = command.stages OBVIOUS
        <5>3. ~(stage < n) BY <5>1, <5>2 DEF PipesOut
        <5>4. stage = n BY <5>2, <5>3, TheCommand
        <5> QED BY <2>2, <5>2, <5>4
      <4> QED BY <1>1, <1>3, <3>1, <3>2, <4>1
    <3>3. CASE pw # NoFd
      <4>1. table' = [table EXCEPT ![1] = Writer(stage)]
        BY <1>7, <3>1, <3>3 DEF Dup2
      <4> QED BY <1>1, <1>3, <1>7, <3>1, <3>3, <4>1
    <3> QED BY <3>2, <3>3
  <2> QED BY <2>1, <2>2
<1>10. ShellType'
  <2>1. broken' \in BOOLEAN BY DEF AimOut, ShellInv, ShellType
  <2> QED BY <1>1, <1>9, <2>1 DEF ShellInv, ShellType
<1>11. ShellSlots' BY <1>1, <1>2, <1>5 DEF ShellInv, ShellSlots
<1>12. ShellFrame'
  <2>1. ASSUME NEW s \in EndSlots PROVE table'[s] = table[s] /\ s \in Fds
    BY <1>9, <2>1, ShellKnows
  <2>2. /\ pw # NoFd => pw \in EndSlots
        /\ pr # NoFd => pr \in EndSlots
        /\ prevRead # NoFd => prevRead \in EndSlots
    BY DEF EndSlots
  <2>3. \A s \in Fds \ ({0, 1} \cup EndSlots) : table'[s] = Plain(s)'
    BY <1>4, <1>9 DEF ShellInv, ShellFrame
  <2>4. EndSlots' \subseteq Fds /\ \A s \in EndSlots' : Plain(s)' = Nothing
    BY <1>2, <1>4 DEF ShellInv, ShellFrame
  <2> QED BY <1>1, <1>2, <2>1, <2>2, <2>3, <2>4 DEF ShellInv, ShellFrame
<1>13. ShellAims'
  <2>1. pw = NoFd /\ 1 \in EndSlots => table[1] = home[1]
    <3>1. command.is # "run" => 1 \notin EndSlots BY <1>1, ShellKnows
    <3>2. command.is = "run" => EndSlots = {}
      <4>1. command.is = "run" => prevRead = NoFd BY DEF ShellInv, ShellSlots
      <4> QED BY <1>1, <4>1, TheCommand DEF EndSlots
    <3> QED BY <3>1, <3>2
  <2>2. 0 \notin EndSlots => table'[0] = home[0]
    BY <1>1, <1>3, <1>9, ShellKnows DEF ShellInv, ShellAims
  <2>3. Plain(0)' = home[0] BY <1>3, <1>4, ShellKnows
  <2> QED BY <1>1, <1>2, <1>8, <1>9, <2>1, <2>2, <2>3 DEF ShellAims
<1>14. ShellKids' BY <1>1, KidsStay
<1> QED BY <1>10, <1>11, <1>12, <1>13, <1>14 DEF ShellInv

LEMMA AimInKeeps ==
  ASSUME ShellInv, AimIn, UNCHANGED home
  PROVE  ShellInv'
<1>1. /\ step = "in" /\ step' = "fork"
      /\ UNCHANGED <<command, stage, pw, pr, prevRead, saved, kids>>
      /\ InStage /\ Under /\ AimedOut /\ ~AimedIn
      /\ (pw # NoFd <=> PipesOut) /\ (pr # NoFd <=> PipesOut) /\ (prevRead # NoFd <=> PipesIn)
  BY DEF AimIn, ShellInv, ShellSlots, InStage, Under, AimedOut, AimedIn
<1>2. InStage' /\ Under' /\ AimedOut' /\ AimedIn' /\ EndSlots' = EndSlots
  BY <1>1 DEF InStage, Under, AimedOut, AimedIn, EndSlots
<1>3. table \in [Fds -> ShellPaths] /\ 0 \in Fds /\ 1 \in Fds BY ShellKnows, ShellBounds
<1>4. \A s \in Fds : Plain(s)' = Plain(s) BY <1>1 DEF Plain
<1>5. PipesIn' = PipesIn /\ PipesOut' = PipesOut /\ Parks' = Parks
  BY <1>1 DEF PipesIn, PipesOut, Parks
<1>6. command.source => 0 \notin EndSlots /\ home[0] # Nothing BY <1>1, ShellKnows
<1>7. 0 \notin EndSlots => table[0] = home[0] BY <1>1, ShellKnows DEF ShellInv, ShellAims
<1>8. prevRead # NoFd => /\ 0 \notin EndSlots /\ prevRead \in EndSlots
                         /\ table[prevRead] = Reader(stage - 1)
                         /\ Reader(stage - 1) \in ShellPaths
                         /\ Reader(stage - 1) # Nothing /\ command.is = "pipeline" /\ stage > 1
  <2> SUFFICES ASSUME prevRead # NoFd
               PROVE  /\ 0 \notin EndSlots /\ prevRead \in EndSlots
                      /\ table[prevRead] = Reader(stage - 1) /\ Reader(stage - 1) \in ShellPaths
                      /\ Reader(stage - 1) # Nothing /\ command.is = "pipeline" /\ stage > 1
    OBVIOUS
  <2>1. stage > 1 BY <1>1 DEF PipesIn
  <2>2. stage \in Nat
    <3>1. PICK n : n = command.stages OBVIOUS
    <3> QED BY <3>1, TheCommand
  <2>3. command.is = "pipeline" BY <2>1, <2>2, TheCommand
  <2>4. stage - 1 \in Nat BY <2>1, <2>2
  <2>5. table[prevRead] = Reader(stage - 1) BY <1>1 DEF ShellInv, ShellFrame
  <2>6. prevRead \in EndSlots BY DEF EndSlots
  <2> QED BY <1>1, <2>1, <2>3, <2>4, <2>5, <2>6, PathsDiffer, ShellKnows
<1>9. /\ table' \in [Fds -> ShellPaths]
      /\ \A s \in Fds \ {0} : table'[s] = table[s]
      /\ 0 \in EndSlots => table'[0] = table[0]
      /\ 0 \in EndSlots \/ table'[0] \in {home[0], Source, Reader(stage - 1)}
      /\ prevRead = NoFd /\ 0 \notin EndSlots =>
           table'[0] \in {home[0], Source} /\ (command.source \/ table'[0] = home[0])
      /\ command.is = "capture" => table'[0] = table[0]
      /\ ~broken' => IF command.source /\ stage = 1 THEN table'[0] = Source
                     ELSE IF prevRead # NoFd THEN table'[0] = Reader(stage - 1)
                     ELSE table'[0] = table[0]
      /\ broken => broken'
  <2>1. CASE broken /\ UNCHANGED <<table, broken>> BY <1>3, <1>7, <2>1
  <2>2. CASE ~broken /\ command.source /\ stage = 1
    <3>1. CASE broken' = TRUE /\ UNCHANGED table BY <1>3, <1>7, <2>2, <3>1
    <3>2. CASE ~(broken' = TRUE /\ UNCHANGED table)
      <4>1. /\ CanOpen(table) /\ UNCHANGED broken
            /\ table' = Moved(OpenAs(table, Source), FirstFree(table), 0)
        BY <2>2, <3>2 DEF AimIn, Source
      <4>2. table[0] # Nothing BY <1>6, <1>7, <2>2
      <4>3. table' = [table EXCEPT ![0] = Source] BY <1>3, <4>1, <4>2, MovedTo, PathsDiffer
      <4>4. Source \in ShellPaths BY PathsDiffer
      <4>5. prevRead = NoFd BY <1>8, <2>2
      <4>6. command.is # "capture" BY <2>2, TheCommand
      <4> QED BY <1>3, <1>6, <2>2, <4>1, <4>3, <4>4, <4>5, <4>6
    <3> QED BY <3>1, <3>2
  <2>3. CASE ~broken /\ ~(command.source /\ stage = 1)
    <3>1. /\ table' = (IF prevRead = NoFd THEN table ELSE Dup2(table, prevRead, 0))
          /\ UNCHANGED broken
      BY <2>3 DEF AimIn
    <3>2. CASE prevRead = NoFd BY <1>3, <1>7, <2>3, <3>1, <3>2
    <3>3. CASE prevRead # NoFd
      <4>1. table' = [table EXCEPT ![0] = Reader(stage - 1)] BY <1>8, <3>1, <3>3 DEF Dup2
      <4> QED BY <1>3, <1>8, <2>3, <3>1, <3>3, <4>1
    <3> QED BY <3>2, <3>3
  <2> QED BY <2>1, <2>2, <2>3 DEF AimIn
<1>10. ShellType'
  <2>1. broken' \in BOOLEAN BY DEF AimIn, ShellInv, ShellType
  <2> QED BY <1>1, <1>9, <2>1 DEF ShellInv, ShellType
<1>11. ShellSlots' BY <1>1, <1>2, <1>5 DEF ShellInv, ShellSlots
<1>12. ShellFrame'
  <2>1. ASSUME NEW s \in EndSlots PROVE table'[s] = table[s] /\ s \in Fds
    BY <1>9, <2>1, ShellKnows
  <2>2. /\ pw # NoFd => pw \in EndSlots
        /\ pr # NoFd => pr \in EndSlots
        /\ prevRead # NoFd => prevRead \in EndSlots
    BY DEF EndSlots
  <2>3. \A s \in Fds \ ({0, 1} \cup EndSlots) : table'[s] = Plain(s)'
    BY <1>4, <1>9 DEF ShellInv, ShellFrame
  <2>4. EndSlots' \subseteq Fds /\ \A s \in EndSlots' : Plain(s)' = Nothing
    BY <1>2, <1>4 DEF ShellInv, ShellFrame
  <2> QED BY <1>1, <1>2, <2>1, <2>2, <2>3, <2>4 DEF ShellInv, ShellFrame
<1>13. ShellAims'
  <2>1. /\ AimedOut' /\ pw' = NoFd =>
             /\ table'[1] \in {home'[1], Target} /\ (command'.target \/ table'[1] = home'[1])
             /\ ~broken' /\ command'.target => table'[1] = Target
        /\ AimedOut' /\ pw' # NoFd => table'[1] = Writer(stage')
    BY <1>1, <1>3, <1>9 DEF ShellInv, ShellAims
  <2>2. command.is = "run" => prevRead = NoFd /\ EndSlots = {}
    <3>1. command.is = "run" => prevRead = NoFd BY DEF ShellInv, ShellSlots
    <3> QED BY <1>1, <3>1, TheCommand DEF EndSlots
  <2>3. command.is = "capture" /\ 0 \notin EndSlots => table'[0] = home[0] BY <1>7, <1>9
  <2> QED BY <1>1, <1>2, <1>7, <1>9, <2>1, <2>2, <2>3 DEF ShellAims
<1>14. ShellKids' BY <1>1, KidsStay
<1> QED BY <1>10, <1>11, <1>12, <1>13, <1>14 DEF ShellInv

\* A stage starts with what the command's line says, in the paths that say it.
LEMMA ForkedIsJoined ==
  ASSUME ShellInv, step = "fork", ~broken
  PROVE  /\ table[1] = IF command.is = "capture" \/ stage < command.stages THEN Writer(stage)
                       ELSE IF command.target THEN Target ELSE home[1]
         /\ command.is # "capture" \/ home[0] # Nothing =>
              table[0] = IF stage > 1 THEN Reader(stage - 1)
                         ELSE IF command.source THEN Source ELSE home[0]
<1>1. /\ InStage /\ Under /\ AimedOut /\ AimedIn
      /\ (pw # NoFd <=> PipesOut) /\ (pr # NoFd <=> PipesOut) /\ (prevRead # NoFd <=> PipesIn)
  BY DEF ShellInv, ShellSlots, InStage, Under, AimedOut, AimedIn
<1>2. table[1] = IF PipesOut THEN Writer(stage) ELSE IF command.target THEN Target ELSE home[1]
  BY <1>1 DEF ShellInv, ShellAims
<1>3. IF command.source /\ stage = 1 THEN table[0] = Source
      ELSE IF PipesIn THEN table[0] = Reader(stage - 1)
      ELSE 0 \notin EndSlots => table[0] = home[0]
  BY <1>1 DEF ShellInv, ShellAims
<1>4. stage > 1 => stage # 1
  <2>1. PICK n : n = command.stages OBVIOUS
  <2> QED BY <2>1, TheCommand
<1>5. ~(stage > 1) => stage = 1
  <2>1. PICK n : n = command.stages OBVIOUS
  <2> QED BY <2>1, TheCommand
<1>6. ASSUME command.is # "capture" \/ home[0] # Nothing, ~PipesIn PROVE 0 \notin EndSlots
  <2>1. CASE command.is = "run"
    <3>1. pw = NoFd /\ pr = NoFd /\ prevRead = NoFd BY <1>1, <2>1, TheCommand
    <3> QED BY <3>1 DEF EndSlots
  <2>2. CASE command.is = "pipeline" BY <1>1, <2>2, ShellKnows
  <2>3. CASE command.is = "capture"
    <3>1. Plain(0) # Nothing BY <1>6, <2>3, ShellKnows
    <3> QED BY <3>1 DEF ShellInv, ShellFrame
  <2> QED BY <2>1, <2>2, <2>3, TheCommand
<1> QED BY <1>2, <1>3, <1>4, <1>5, <1>6 DEF PipesIn, PipesOut

LEMMA ForkStageKeeps ==
  ASSUME ShellInv, ForkStage, UNCHANGED home
  PROVE  ShellInv'
<1>1. /\ step = "fork" /\ UNCHANGED <<table, command, stage, pw, pr, prevRead, saved>>
      /\ step' = IF command.is # "run" THEN "release"
                 ELSE IF broken' \/ command.background THEN "finish" ELSE "wait"
      /\ InStage /\ Under /\ AimedOut /\ AimedIn
      /\ (pw # NoFd <=> PipesOut) /\ (pr # NoFd <=> PipesOut) /\ (prevRead # NoFd <=> PipesIn)
      /\ (broken => broken')
  BY DEF ForkStage, ShellInv, ShellSlots, InStage, Under, AimedOut, AimedIn
<1>2. /\ EndSlots' = EndSlots /\ PipesIn' = PipesIn /\ PipesOut' = PipesOut /\ Parks' = Parks
      /\ \A s \in Fds : Plain(s)' = Plain(s)
  BY <1>1 DEF EndSlots, PipesIn, PipesOut, Parks, Plain
<1>3. /\ step' \in {"release", "finish", "wait"} /\ Under' /\ AimedOut'
      /\ (step' = "release" <=> command.is # "run") /\ (InStage' <=> step' = "release")
  <2>1. step' \in {"release", "finish", "wait"} /\ (step' = "release" <=> command.is # "run")
    BY <1>1
  <2> QED BY <1>1, <2>1 DEF Under, AimedOut, InStage
<1>4. AimedIn' BY <1>1, <1>3 DEF AimedIn
<1>5. command.is = "run" => pw = NoFd /\ pr = NoFd /\ prevRead = NoFd BY <1>1, TheCommand
<1>6. stage \in 1..MaxStages
  <2>1. PICK n : n = command.stages OBVIOUS
  <2> QED BY <2>1, TheCommand
<1>7. /\ ShellType'
      /\ kids' = kids \/ (~broken /\ kids' = [kids EXCEPT ![stage] = Child(table)])
  <2>1. kids' = kids \/ (~broken /\ kids' = [kids EXCEPT ![stage] = Child(table)])
    BY DEF ForkStage
  <2>2. Child(table) \in [in : ShellPaths, out : ShellPaths, err : ShellPaths, is : {"never", "runs", "gone"}]
    BY ShellKnows, ShellBounds DEF Child
  <2>3. kids' \in [1..MaxStages -> [in : ShellPaths, out : ShellPaths, err : ShellPaths,
                                    is : {"never", "runs", "gone"}]]
    <3> HIDE DEF Child
    <3>1. kids \in [1..MaxStages -> [in : ShellPaths, out : ShellPaths, err : ShellPaths,
                                     is : {"never", "runs", "gone"}]]
      BY DEF ShellInv, ShellType
    <3> QED BY <1>6, <2>1, <2>2, <3>1
  <2>4. broken' \in BOOLEAN BY DEF ForkStage, ShellInv, ShellType
  <2> QED BY <1>1, <1>3, <2>1, <2>3, <2>4 DEF ShellInv, ShellType
<1>8. ShellSlots' BY <1>1, <1>2, <1>3, <1>5 DEF ShellInv, ShellSlots
<1>9. ShellFrame' BY <1>1, <1>2, <1>3 DEF ShellInv, ShellFrame
<1>10. ShellAims' BY <1>1, <1>2, <1>3, <1>4 DEF ShellInv, ShellAims
<1>11. ShellKids'
  <2>1. ASSUME NEW i \in 1..MaxStages, kids'[i].is = "runs"
        PROVE  /\ kids'[i].out = IF command.is = "capture" \/ i < command.stages THEN Writer(i)
                                 ELSE IF command.target THEN Target ELSE home[1]
               /\ command.is # "capture" \/ home[0] # Nothing =>
                    kids'[i].in = IF i > 1 THEN Reader(i - 1)
                                  ELSE IF command.source THEN Source ELSE home[0]
    <3>1. CASE kids'[i] = kids[i]
      BY <1>1, <2>1, <3>1 DEF ShellInv, ShellKids, Joined, Source, Target
    <3>2. CASE kids'[i] # kids[i]
      <4>1. ~broken /\ i = stage /\ kids'[i] = Child(table)
        BY <1>6, <1>7, <3>2 DEF ShellInv, ShellType
      <4>2. kids'[i].out = table[1] /\ kids'[i].in = table[0] BY <4>1 DEF Child
      <4> QED BY <1>1, <4>1, <4>2, ForkedIsJoined
    <3> QED BY <3>1, <3>2
  <2>2. step' \notin {"prompt", "park"} BY <1>3
  <2> QED BY <1>1, <2>1, <2>2 DEF ShellKids, Joined, Source, Target
<1> QED BY <1>7, <1>8, <1>9, <1>10, <1>11 DEF ShellInv

LEMMA LetGoKeeps ==
  ASSUME ShellInv, LetGo, UNCHANGED home
  PROVE  ShellInv'
<1>1. /\ step = "release" /\ UNCHANGED <<command, saved, broken, kids>>
      /\ prevRead' = pr /\ pw' = NoFd /\ pr' = NoFd
      /\ table' = CloseSlot(CloseSlot(TakenBack(table, saved), prevRead), pw)
      /\ \/ /\ command.is = "pipeline" /\ ~broken /\ stage < command.stages
            /\ stage' = stage + 1 /\ step' = "pipe"
         \/ step' = "finish" /\ stage' = stage
  BY DEF LetGo, NextStage
<1>2. /\ command.is # "run" /\ InStage /\ Under /\ saved = Parks
      /\ (pw # NoFd <=> PipesOut) /\ (pr # NoFd <=> PipesOut) /\ (prevRead # NoFd <=> PipesIn)
  BY <1>1 DEF ShellInv, ShellSlots, InStage, Under
<1>3. /\ step' \in {"pipe", "finish"} /\ Under' /\ ~InStage' /\ ~AimedOut' /\ ~AimedIn'
      /\ Parks' = Parks /\ \A s \in Fds : Plain(s)' = Plain(s)
  <2>1. step' \in {"pipe", "finish"} BY <1>1
  <2> QED BY <1>1, <1>2, <2>1 DEF Under, InStage, AimedOut, AimedIn, Parks, Plain
<1>4. table \in [Fds -> ShellPaths] /\ home \in [Fds -> ShellPaths] /\ 0 \in Fds /\ 1 \in Fds
      /\ Nothing \in ShellPaths
  BY ShellKnows, ShellBounds, PathsDiffer
<1>5. SaveOut \in saved /\ 1 \notin EndSlots /\ table[SaveOut] = home[1] BY <1>2, ShellKnows
<1>6. SaveIn \in saved => 0 \notin EndSlots /\ table[SaveIn] = home[0] BY ShellKnows
<1>7. PICK t : t = TakenBack(table, saved) OBVIOUS
<1>8. /\ t \in [Fds -> ShellPaths] /\ t[1] = home[1]
      /\ t[0] = IF SaveIn \in saved THEN home[0] ELSE table[0]
      /\ \A s \in Fds \ {0, 1} : t[s] = table[s]
  <2>1. saved \subseteq {SaveOut, SaveIn} BY ShellKnows
  <2>2. \A s \in Fds : ~(\E k \in saved : s = Original(k)) => t[s] = table[s]
    BY <1>7 DEF TakenBack
  <2>3. \A s \in Fds \ {0, 1} : t[s] = table[s] BY <2>1, <2>2, ShellBounds
  <2>4. t[1] = home[1]
    <3>1. (CHOOSE k \in saved : 1 = Original(k)) = SaveOut
      <4>1. \A k \in saved : 1 = Original(k) <=> k = SaveOut BY <2>1, ShellBounds
      <4> QED BY <1>5, <4>1
    <3>2. t[1] = table[CHOOSE k \in saved : 1 = Original(k)]
      BY <1>4, <1>5, <1>7, ShellBounds DEF TakenBack
    <3> QED BY <1>5, <3>1, <3>2
  <2>5. ASSUME SaveIn \in saved PROVE t[0] = home[0]
    <3>1. (CHOOSE k \in saved : 0 = Original(k)) = SaveIn
      <4>1. \A k \in saved : 0 = Original(k) <=> k = SaveIn BY <2>1, ShellBounds
      <4> QED BY <2>5, <4>1
    <3>2. t[0] = table[CHOOSE k \in saved : 0 = Original(k)]
      BY <1>4, <1>7, <2>5, ShellBounds DEF TakenBack
    <3> QED BY <1>6, <2>5, <3>1, <3>2
  <2>6. SaveIn \notin saved => t[0] = table[0] BY <1>4, <2>1, <2>2, ShellBounds
  <2>7. \A s \in Fds : t[s] \in ShellPaths BY <1>4, <2>3, <2>4, <2>5, <2>6
  <2>8. t = [s \in Fds |-> t[s]] BY <1>7 DEF TakenBack
  <2> QED BY <2>3, <2>4, <2>5, <2>6, <2>7, <2>8
<1>9. /\ table' \in [Fds -> ShellPaths]
      /\ \A s \in Fds : table'[s] = IF s \in {prevRead, pw} THEN Nothing ELSE t[s]
  BY <1>1, <1>4, <1>7, <1>8, ShellBounds DEF CloseSlot
<1>10. EndSlots' = {pr} \ {NoFd} /\ EndSlots' \subseteq EndSlots BY <1>1 DEF EndSlots
<1>11. pr # NoFd => /\ pr \in Fds /\ pr # pw /\ pr # prevRead /\ table[pr] = Reader(stage)
                    /\ pr # 1 /\ pr \in EndSlots
  <2>1. pr # NoFd => pr \in EndSlots BY DEF EndSlots
  <2>2. pr # NoFd /\ pw # NoFd => pr # pw BY DEF ShellInv, ShellFrame
  <2>3. pr # NoFd => pr # prevRead /\ table[pr] = Reader(stage) BY DEF ShellInv, ShellFrame
  <2>4. EndSlots \subseteq Fds BY ShellKnows
  <2> QED BY <1>5, <2>1, <2>2, <2>3, <2>4
<1>12. pr # NoFd => table'[pr] = Reader(stage)
  <2>1. pr = 0 /\ SaveIn \in saved => pr = NoFd BY <1>6, <1>11
  <2> QED BY <1>8, <1>9, <1>11, <2>1
<1>13. stage \in 1..MaxStages /\ stage \in Nat
  <2>1. PICK n : n = command.stages OBVIOUS
  <2> QED BY <2>1, TheCommand
<1>14. ShellType'
  <2>1. stage' \in 1..command.stages
    <3>1. PICK n : n = command.stages OBVIOUS
    <3> QED BY <1>1, <3>1, TheCommand
  <2> QED BY <1>1, <1>3, <1>9, <2>1 DEF ShellInv, ShellType
<1>15. ShellSlots'
  <2>1. step' = "pipe" => ~broken /\ (prevRead' # NoFd <=> PipesIn')
    <3>1. ASSUME step' = "pipe" PROVE PipesOut /\ stage' = stage + 1 /\ ~broken
      BY <1>1, <3>1 DEF PipesOut
    <3>2. ASSUME step' = "pipe" PROVE PipesIn' BY <1>13, <3>1, <3>2 DEF PipesIn
    <3> QED BY <1>1, <1>2, <3>1, <3>2
  <2> QED BY <1>1, <1>2, <1>3, <2>1 DEF ShellInv, ShellSlots
<1>16. ShellFrame'
  <2>1. \A s \in EndSlots' : s \in Fds /\ Plain(s)' = Nothing
    BY <1>3, <1>10, ShellKnows DEF ShellInv, ShellFrame
  <2>2. ASSUME NEW s \in Fds \ ({0, 1} \cup EndSlots') PROVE table'[s] = Plain(s)'
    <3>1. CASE s \in EndSlots
      <4>1. s \in {pw, prevRead} BY <1>10, <2>2, <3>1 DEF EndSlots
      <4>2. Plain(s) = Nothing BY <3>1 DEF ShellInv, ShellFrame
      <4> QED BY <1>3, <1>9, <2>2, <4>1, <4>2
    <3>2. CASE s \notin EndSlots
      <4>1. s \notin {pw, prevRead} BY <2>2, <3>2, ShellBounds DEF EndSlots
      <4>2. table[s] = Plain(s) BY <2>2, <3>2 DEF ShellInv, ShellFrame
      <4> QED BY <1>3, <1>8, <1>9, <2>2, <4>1, <4>2
    <3> QED BY <3>1, <3>2
  <2>3. step' = "pipe" => stage' - 1 = stage BY <1>1, <1>13
  <2> QED BY <1>1, <1>3, <1>10, <1>11, <1>12, <1>13, <2>1, <2>2, <2>3 DEF ShellFrame
<1>17. table'[1] = home[1] /\ (0 \notin EndSlots' => table'[0] = home[0])
  <2>1. pw # 1 /\ prevRead # 1 BY <1>5, ShellBounds DEF EndSlots
  <2>2. table'[1] = home[1] BY <1>4, <1>8, <1>9, <2>1
  <2>3. ASSUME 0 \notin EndSlots' PROVE table'[0] = home[0]
    <3>1. CASE 0 \in EndSlots
      <4>1. 0 \in {pw, prevRead} BY <1>10, <2>3, <3>1 DEF EndSlots
      <4>2. home[0] = Nothing BY <3>1, ShellKnows DEF ShellInv, ShellFrame
      <4> QED BY <1>4, <1>9, <4>1, <4>2
    <3>2. CASE 0 \notin EndSlots
      <4>1. 0 \notin {pw, prevRead} BY <3>2, ShellBounds DEF EndSlots
      <4>2. SaveIn \notin saved => command.is = "capture" BY <1>2, TheCommand, ShellKnows
      <4>3. SaveIn \notin saved => table[0] = home[0] BY <3>2, <4>2 DEF ShellInv, ShellAims
      <4> QED BY <1>4, <1>8, <1>9, <4>1, <4>3
    <3> QED BY <3>1, <3>2
  <2> QED BY <2>2, <2>3
<1>18. ShellAims' BY <1>1, <1>3, <1>4, <1>17, ShellKnows DEF ShellAims
<1>19. ShellKids' BY <1>1, <1>3, KidsStay
<1> QED BY <1>14, <1>15, <1>16, <1>18, <1>19 DEF ShellInv

LEMMA FinishCommandKeeps ==
  ASSUME ShellInv, FinishCommand, UNCHANGED home
  PROVE  ShellInv'
<1>1. PICK kept \in BOOLEAN : kept <=> command.is = "capture" /\ ~broken OBVIOUS
<1>2. PICK t : t = IF kept THEN table ELSE CloseSlot(table, prevRead) OBVIOUS
<1>3. /\ step = "finish" /\ UNCHANGED <<command, stage, pw, pr, broken, kids>>
      /\ table' = Restored(t, saved) /\ saved' = {}
      /\ prevRead' = IF kept THEN prevRead ELSE NoFd
      /\ step' = IF kept THEN "drain"
                 ELSE IF command.is = "pipeline" /\ ~command.background THEN "wait" ELSE "done"
  BY <1>1, <1>2 DEF FinishCommand
<1>4. /\ Under /\ ~InStage /\ pw = NoFd /\ pr = NoFd /\ (command.is = "run" => prevRead = NoFd)
      /\ saved = Parks
  BY <1>3 DEF ShellInv, ShellSlots, InStage, Under
<1>5. /\ step' \in {"drain", "wait", "done"} /\ (step' = "drain" <=> kept)
      /\ step' = "wait" => command.is = "pipeline"
  BY <1>3
<1>6. ~Under' /\ ~InStage' /\ ~AimedIn' /\ ~AimedOut'
  <2>1. step' = "wait" => command'.is # "run" BY <1>3, <1>5
  <2> QED BY <1>5, <2>1 DEF Under, InStage, AimedIn, AimedOut
<1>7. EndSlots = {prevRead} \ {NoFd} /\ EndSlots' = {prevRead'} \ {NoFd}
  BY <1>3, <1>4 DEF EndSlots
<1>8. table \in [Fds -> ShellPaths] /\ home \in [Fds -> ShellPaths] /\ 0 \in Fds /\ 1 \in Fds
      /\ Nothing \in ShellPaths
  BY ShellKnows, ShellBounds, PathsDiffer
<1>9. /\ t \in [Fds -> ShellPaths]
      /\ \A s \in Fds : t[s] = IF s = prevRead /\ ~kept THEN Nothing ELSE table[s]
  BY <1>2, <1>8, ShellBounds DEF CloseSlot
<1>10. /\ prevRead # NoFd => prevRead \in EndSlots /\ prevRead \in Fds /\ Plain(prevRead) = Nothing
                             /\ \E i \in 1..MaxStages : table[prevRead] = Reader(i)
       /\ \A s \in Fds \ ({0, 1} \cup EndSlots) : table[s] = Plain(s)
  BY <1>7 DEF ShellInv, ShellFrame
<1>11. \A s \in Fds \ {0, 1} : t[s] = IF s = prevRead /\ kept THEN table[s] ELSE Plain(s)
  BY <1>7, <1>9, <1>10, ShellBounds
<1>12. SaveOut \in saved \/ t[1] = home[1]
  <2>1. ASSUME SaveOut \notin saved PROVE command.is = "run" /\ ~command.target
    BY <1>4, <2>1, TheCommand, ShellKnows
  <2>2. ASSUME command.is = "run" PROVE AimedOut BY <1>3, <1>4, <2>2 DEF AimedOut
  <2>3. ASSUME SaveOut \notin saved PROVE table[1] = home[1]
    BY <1>4, <2>1, <2>2, <2>3 DEF ShellInv, ShellAims
  <2>4. command.is = "run" => t[1] = table[1] BY <1>4, <1>8, <1>9, ShellBounds
  <2> QED BY <2>1, <2>3, <2>4
<1>13. SaveIn \in saved \/ t[0] = (IF prevRead = 0 /\ kept THEN table[0] ELSE home[0])
  <2>1. ASSUME SaveIn \notin saved, 0 \notin EndSlots PROVE table[0] = home[0]
    <3>1. CASE command.is = "run"
      <4>1. AimedIn BY <1>3, <1>4, <3>1 DEF AimedIn
      <4>2. ~command.source BY <1>4, <2>1, ShellKnows
      <4> QED BY <3>1, <4>1, <4>2 DEF ShellInv, ShellAims
    <3>2. CASE command.is = "pipeline" BY <1>4, <2>1, <3>2, ShellKnows
    <3>3. CASE command.is = "capture" BY <2>1, <3>3 DEF ShellInv, ShellAims
    <3> QED BY <3>1, <3>2, <3>3, TheCommand
  <2>2. 0 \in EndSlots => prevRead = 0 /\ home[0] = Nothing BY <1>7, <1>10, ShellKnows
  <2>3. 0 \notin EndSlots => prevRead # 0 BY <1>7, ShellBounds
  <2> QED BY <1>8, <1>9, <2>1, <2>2, <2>3
<1>14. \A s \in Fds : table'[s] = IF s = prevRead' THEN table[s] ELSE home[s]
  <2>1. saved \subseteq {SaveOut, SaveIn} BY ShellKnows
  <2>2. /\ \A s \in Fds : s \in saved => Plain(s) = home[Original(s)] /\ Plain(s) # Nothing
        /\ \A s \in Fds : s \notin saved => Plain(s) = home[s]
    BY <1>8, <2>1, ShellKnows, ShellBounds DEF ShellInv, ShellSlots
  <2>3. \A k \in saved : k # prevRead /\ t[k] = home[Original(k)]
    <3> TAKE k \in saved
    <3>1. k \in Fds /\ k \notin {0, 1} /\ k # NoFd BY <2>1, ShellBounds
    <3>2. Plain(k) = home[Original(k)] /\ Plain(k) # Nothing BY <2>2, <3>1
    <3>3. k # prevRead BY <1>10, <3>1, <3>2
    <3> QED BY <1>11, <3>1, <3>2, <3>3
  <2>4. table' = [s \in Fds |-> IF s \in saved THEN Nothing ELSE TakenBack(t, saved)[s]]
    BY <1>3 DEF Restored
  <2>5. ASSUME NEW s \in Fds PROVE table'[s] = IF s = prevRead' THEN table[s] ELSE home[s]
    <3>1. CASE s \in saved
      <4>1. s # prevRead' BY <1>3, <2>3, <3>1, ShellBounds
      <4>2. home[s] = Nothing BY <2>1, <3>1, ShellBounds DEF ShellInv, ShellType
      <4> QED BY <2>4, <3>1, <4>1, <4>2
    <3>2. CASE s \notin saved /\ \E k \in saved : s = Original(k)
      <4>1. PICK k : k = CHOOSE j \in saved : s = Original(j) OBVIOUS
      <4>2. k \in saved /\ s = Original(k) BY <3>2, <4>1
      <4>3. table'[s] = t[k] BY <2>4, <3>2, <4>1 DEF TakenBack
      <4>4. s \notin EndSlots BY <2>1, <4>2, ShellKnows, ShellBounds
      <4>5. s # prevRead' BY <1>3, <1>7, <4>4, ShellBounds
      <4> QED BY <2>3, <4>2, <4>3, <4>5
    <3>3. CASE s \notin saved /\ ~\E k \in saved : s = Original(k)
      <4>1. table'[s] = t[s] BY <2>4, <3>3 DEF TakenBack
      <4>2. s = 1 => SaveOut \notin saved BY <3>3, ShellBounds
      <4>3. s = 0 => SaveIn \notin saved BY <3>3, ShellBounds
      <4>4. kept => 1 # prevRead /\ SaveOut \in saved
        <5>1. kept => command.is # "run" BY <1>1
        <5>2. kept => SaveOut \in saved /\ 1 \notin EndSlots BY <1>4, <5>1, ShellKnows
        <5> QED BY <1>7, <5>2, ShellBounds
      <4>5. (prevRead' = prevRead /\ kept) \/ (prevRead' = NoFd /\ ~kept) BY <1>1, <1>3
      <4> QED BY <1>11, <1>12, <1>13, <2>2, <3>3, <4>1, <4>2, <4>3, <4>4, <4>5, ShellBounds
    <3> QED BY <3>1, <3>2, <3>3
  <2> QED BY <2>5
<1>15. ShellType'
  <2>1. table' = [s \in Fds |-> table'[s]] BY <1>3 DEF Restored
  <2>2. table' \in [Fds -> ShellPaths] BY <1>8, <1>14, <2>1
  <2> QED BY <1>3, <1>5, <2>2 DEF ShellInv, ShellType
<1>16. ShellSlots' BY <1>1, <1>3, <1>4, <1>5, <1>6 DEF ShellInv, ShellSlots
<1>17. \A s \in Fds : Plain(s)' = home[s] BY <1>3, <1>8 DEF Plain, Parked
<1>18. prevRead' # NoFd => prevRead' = prevRead /\ home[prevRead] = Nothing
  <2>1. prevRead' # NoFd => prevRead' = prevRead /\ kept BY <1>1, <1>3
  <2>2. prevRead # NoFd => prevRead \notin saved BY <1>10, ShellKnows
  <2> QED BY <1>10, <2>1, <2>2, ShellKnows
<1>19. ShellFrame'
  <2>1. pw' = NoFd /\ pr' = NoFd /\ ~InStage' /\ step' # "pipe" BY <1>3, <1>4, <1>5, <1>6
  <2>2. \A s \in EndSlots' : s \in Fds /\ Plain(s)' = Nothing BY <1>7, <1>10, <1>17, <1>18
  <2>3. prevRead' # NoFd => \E i \in 1..MaxStages : table'[prevRead'] = Reader(i)
    BY <1>10, <1>14, <1>18
  <2>4. \A s \in Fds \ EndSlots' : table'[s] = Plain(s)' BY <1>7, <1>14, <1>17, ShellBounds
  <2> QED BY <2>1, <2>2, <2>3, <2>4 DEF ShellFrame
<1>20. ShellAims' BY <1>3, <1>6, <1>7, <1>8, <1>14, <1>17, ShellBounds DEF ShellAims
<1>21. ShellKids' BY <1>3, <1>5, KidsStay
<1> QED BY <1>15, <1>16, <1>19, <1>20, <1>21 DEF ShellInv

LEMMA ReadAnswerKeeps ==
  ASSUME ShellInv, ReadAnswer, UNCHANGED home
  PROVE  ShellInv'
<1>1. /\ step = "drain" /\ step' = "wait" /\ table' = CloseSlot(table, prevRead)
      /\ prevRead' = NoFd /\ UNCHANGED <<command, stage, pw, pr, saved, broken, kids>>
      /\ command.is # "run" /\ pw = NoFd /\ pr = NoFd /\ saved = {}
  BY DEF ReadAnswer, ShellInv, ShellSlots, InStage, Under
<1>2. ~Under' /\ ~InStage' /\ ~AimedIn' /\ ~AimedOut' /\ ~AimedIn /\ ~AimedOut
  BY <1>1 DEF Under, InStage, AimedIn, AimedOut
<1>3. EndSlots' = {} /\ EndSlots = {prevRead} \ {NoFd} BY <1>1 DEF EndSlots
<1>4. table \in [Fds -> ShellPaths] /\ home \in [Fds -> ShellPaths] /\ 0 \in Fds /\ 1 \in Fds
      /\ Nothing \in ShellPaths /\ NoFd \notin Fds
  BY ShellKnows, ShellBounds, PathsDiffer
<1>5. \A s \in Fds : Plain(s) = home[s] /\ Plain(s)' = home[s] BY <1>1, <1>4 DEF Plain, Parked
<1>6. \A s \in Fds : s # prevRead => table[s] = home[s]
  BY <1>2, <1>3, <1>4, <1>5 DEF ShellInv, ShellFrame, ShellAims
<1>7. prevRead # NoFd => prevRead \in Fds /\ home[prevRead] = Nothing
  BY <1>3, <1>5 DEF ShellInv, ShellFrame
<1>8. \A s \in Fds : table'[s] = home[s] BY <1>1, <1>4, <1>6, <1>7 DEF CloseSlot
<1>9. ShellType'
  <2>1. table' \in [Fds -> ShellPaths] BY <1>1, <1>4 DEF CloseSlot
  <2> QED BY <1>1, <2>1 DEF ShellInv, ShellType
<1>10. ShellSlots' BY <1>1, <1>2 DEF ShellInv, ShellSlots
<1>11. ShellFrame' BY <1>1, <1>3, <1>5, <1>8 DEF ShellFrame
<1>12. ShellAims' BY <1>1, <1>2, <1>4, <1>5, <1>8 DEF ShellAims
<1>13. ShellKids' BY <1>1, KidsStay
<1> QED BY <1>9, <1>10, <1>11, <1>12, <1>13 DEF ShellInv

LEMMA WaitForAllKeeps ==
  ASSUME ShellInv, WaitForAll, UNCHANGED home
  PROVE  ShellInv'
<1>1. /\ step = "wait" /\ step' = (IF command.is = "run" THEN "finish" ELSE "done")
      /\ UNCHANGED <<table, command, stage, pw, pr, prevRead, saved, broken, kids>>
  BY DEF WaitForAll
<1>2. /\ step' \in {"finish", "done"} /\ ~InStage /\ ~InStage' /\ Under' = Under
      /\ AimedIn' = AimedIn /\ AimedOut' = AimedOut /\ EndSlots' = EndSlots /\ Parks' = Parks
      /\ \A s \in Fds : Plain(s)' = Plain(s)
  BY <1>1 DEF InStage, Under, AimedIn, AimedOut, EndSlots, Parks, Plain
<1>3. (step' = "done" => ~AimedIn') /\ prevRead = NoFd
  BY <1>1 DEF AimedIn, Under, ShellInv, ShellSlots
<1>4. ShellType' BY <1>1, <1>2 DEF ShellInv, ShellType
<1>5. ShellSlots' BY <1>1, <1>2, <1>3 DEF ShellInv, ShellSlots
<1>6. ShellFrame' BY <1>1, <1>2, <1>3 DEF ShellInv, ShellFrame
<1>7. ShellAims' BY <1>1, <1>2, <1>3, ShellBounds DEF ShellInv, ShellAims
<1>8. ShellKids' BY <1>1, <1>2, KidsStay
<1> QED BY <1>4, <1>5, <1>6, <1>7, <1>8 DEF ShellInv

LEMMA KidLeavesKeeps ==
  ASSUME ShellInv, NEW k \in 1..MaxStages, KidLeaves(k), UNCHANGED home
  PROVE  ShellInv'
<1>1. /\ kids[k].is = "runs" /\ kids' = [kids EXCEPT ![k].is = "gone"]
      /\ UNCHANGED <<table, step, command, stage, pw, pr, prevRead, saved, broken>>
  BY DEF KidLeaves
<1>2. /\ InStage' = InStage /\ Under' = Under /\ PipesIn' = PipesIn /\ PipesOut' = PipesOut
      /\ AimedIn' = AimedIn /\ AimedOut' = AimedOut /\ EndSlots' = EndSlots /\ Parks' = Parks
      /\ \A s \in Fds : Plain(s)' = Plain(s)
  BY <1>1 DEF InStage, Under, AimedIn, AimedOut, EndSlots, Parks, Plain, PipesIn,
       PipesOut
<1>3. kids \in [1..MaxStages -> [in : ShellPaths, out : ShellPaths, err : ShellPaths,
                                 is : {"never", "runs", "gone"}]]
  BY DEF ShellInv, ShellType
<1>4. ShellType'
  <2>1. kids' \in [1..MaxStages -> [in : ShellPaths, out : ShellPaths, err : ShellPaths,
                                    is : {"never", "runs", "gone"}]]
    BY <1>1, <1>3
  <2> QED BY <1>1, <2>1 DEF ShellInv, ShellType
<1>5. ShellSlots' BY <1>1, <1>2 DEF ShellInv, ShellSlots
<1>6. ShellFrame' BY <1>1, <1>2 DEF ShellInv, ShellFrame
<1>7. ShellAims' BY <1>1, <1>2, ShellBounds DEF ShellInv, ShellAims
<1>8. ShellKids'
  <2>1. step \notin {"prompt", "park"}
    <3>1. step \in {"prompt", "park"} => kids[k] = NoKid BY DEF ShellInv, ShellKids
    <3> QED BY <1>1, <3>1 DEF NoKid
  <2>2. \A i \in 1..MaxStages : kids'[i].is = "runs" => kids'[i] = kids[i] BY <1>1, <1>3
  <2> QED BY <1>1, <2>1, <2>2 DEF ShellInv, ShellKids, Joined
<1> QED BY <1>4, <1>5, <1>6, <1>7, <1>8 DEF ShellInv

LEMMA ShellSteps == ShellInv /\ [ShellNext]_shellVars => ShellInv'
<1> SUFFICES ASSUME ShellInv, [ShellNext]_shellVars PROVE ShellInv' OBVIOUS
<1>1. CASE UNCHANGED shellVars
  <2>1. /\ InStage' = InStage /\ Under' = Under /\ PipesIn' = PipesIn /\ PipesOut' = PipesOut
        /\ AimedIn' = AimedIn /\ AimedOut' = AimedOut /\ EndSlots' = EndSlots /\ Parks' = Parks
        /\ \A s \in Fds : Plain(s)' = Plain(s)
    BY <1>1 DEF shellVars, InStage, Under, AimedIn, AimedOut, EndSlots, Parks, Plain, PipesIn,
       PipesOut
  <2>2. ShellType' BY <1>1 DEF shellVars, ShellInv, ShellType
  <2>3. ShellSlots' BY <1>1, <2>1 DEF shellVars, ShellInv, ShellSlots
  <2>4. ShellFrame' BY <1>1, <2>1 DEF shellVars, ShellInv, ShellFrame
  <2>5. ShellAims' BY <1>1, <2>1, ShellBounds DEF shellVars, ShellInv, ShellAims
  <2>6. ShellKids' BY <1>1 DEF shellVars, ShellInv, ShellKids, Joined
  <2> QED BY <2>2, <2>3, <2>4, <2>5, <2>6 DEF ShellInv
<1>2. ASSUME NEW c \in Commands, EnterCommand(c), UNCHANGED home PROVE ShellInv'
  BY <1>2, EnterCommandKeeps
<1>3. CASE Forget /\ UNCHANGED home
  <2>1. table = home BY <1>3, ShellHome DEF Forget, Under
  <2> QED BY <1>3, <2>1, AtPromptStarts DEF Forget
<1>4. ASSUME NEW k \in 1..MaxStages, KidLeaves(k), UNCHANGED home PROVE ShellInv'
  BY <1>4, KidLeavesKeeps
<1> QED
  BY <1>1, <1>2, <1>3, <1>4, ParkKeeps, OpenPipeKeeps, AimOutKeeps, AimInKeeps, ForkStageKeeps,
     LetGoKeeps, FinishCommandKeeps, ReadAnswerKeeps, WaitForAllKeeps DEF ShellNext

LEMMA ShellInvShows == ShellInv => ShellLetsGo
<1> SUFFICES ASSUME ShellInv PROVE ShellLetsGo OBVIOUS
<1>1. Joined BY DEF ShellInv, ShellKids
<1>2. step = "prompt" => table = home BY ShellHome DEF Under
<1>3. table \in [Fds -> ShellPaths] /\ 0 \in Fds /\ 1 \in Fds BY ShellKnows, ShellBounds
<1>4. \A s \in Fds : home[s][1] \notin {"reader", "writer"} BY ShellBounds DEF ShellInv, ShellType
<1>5. ASSUME step = "wait", NEW s \in Fds PROVE table[s][1] \notin {"reader", "writer"}
  <2>1. CASE ~Under BY <1>4, <1>5, <2>1, ShellHome
  <2>2. CASE Under
    <3>1. command.is = "run" BY <1>5, <2>2 DEF Under
    <3>2. AimedOut /\ AimedIn /\ pw = NoFd /\ EndSlots = {}
      <4>1. ~InStage BY <1>5 DEF InStage
      <4>2. pw = NoFd /\ pr = NoFd /\ prevRead = NoFd BY <1>5, <4>1 DEF ShellInv, ShellSlots
      <4> QED BY <1>5, <2>2, <3>1, <4>2 DEF AimedOut, AimedIn, EndSlots
    <3>3. CASE s = 1 BY <1>3, <1>4, <3>2, <3>3, PathsDiffer DEF ShellInv, ShellAims
    <3>4. CASE s = 0 BY <1>3, <1>4, <3>1, <3>2, <3>4, PathsDiffer DEF ShellInv, ShellAims
    <3>5. CASE s \notin {0, 1}
      <4>1. table[s] = Plain(s) BY <3>2, <3>5 DEF ShellInv, ShellFrame
      <4>2. Plain(s) = home[s] \/ Plain(s) = home[0] \/ Plain(s) = home[1]
        BY ShellKnows, ShellBounds
      <4> QED BY <1>3, <1>4, <4>1, <4>2
    <3> QED BY <3>3, <3>4, <3>5
  <2> QED BY <2>1, <2>2
<1>6. ASSUME step = "drain", NEW s \in Fds PROVE table[s][1] # "writer"
  <2>1. ~Under /\ ~InStage /\ ~AimedOut /\ ~AimedIn
    BY <1>6 DEF Under, InStage, AimedOut, AimedIn
  <2>2. pw = NoFd /\ pr = NoFd /\ saved = {} BY <2>1 DEF ShellInv, ShellSlots
  <2>3. EndSlots = {prevRead} \ {NoFd} BY <2>2 DEF EndSlots
  <2>4. CASE s = prevRead
    <3>1. PICK i \in 1..MaxStages : table[s] = Reader(i)
      BY <2>4, ShellBounds DEF ShellInv, ShellFrame
    <3>2. i \in Nat BY ShellBounds
    <3> QED BY <3>1, <3>2, PathsDiffer
  <2>5. CASE s # prevRead
    <3>1. s \notin EndSlots BY <2>3, <2>5
    <3>2. table[s] = Plain(s) BY <2>1, <3>1 DEF ShellInv, ShellFrame, ShellAims
    <3>3. Plain(s) = home[s] BY <2>2, ShellKnows
    <3> QED BY <1>4, <3>2, <3>3
  <2> QED BY <2>4, <2>5
<1>7. \A e \in PathsHeld : \E s \in Fds : e = table[s] BY DEF PathsHeld
<1> QED BY <1>1, <1>2, <1>5, <1>6, <1>7 DEF ShellLetsGo, LetsGo

\* What a command's line says is where its paths go, and no end of a pipe is left
\* behind in the shell, whatever does not open or does not start (run_pipeline and
\* its like in shell.c): for every number of slots and stages and every table a shell
\* may have at its prompt.
THEOREM ShellLetsGoAlways == ShellSpec => []ShellLetsGo
<1>1. ShellInit => ShellInv BY ShellStarts
<1>2. ShellInv /\ [ShellNext]_shellVars => ShellInv' BY ShellSteps
<1>3. ShellInv => ShellLetsGo BY ShellInvShows
<1> QED BY <1>1, <1>2, <1>3, PTL DEF ShellSpec

(***************************************************************************)
(* A session of ssh: what packets carry between them.                      *)
(***************************************************************************)
Bears(packet, kinds) == IF packet.is \in kinds THEN packet.n ELSE 0
Counts(packets, kinds) == \A i \in DOMAIN packets : Bears(packets[i], kinds) \in Nat

\* What is carried is the sum over the packets, from the first to the last.
LEMMA CarriedIs ==
  ASSUME NEW S, NEW s \in Seq(S), NEW kinds, Counts(s, kinds), NEW n, n = Len(s)
  PROVE  \E f : /\ f = [i \in 1..n |-> Bears(s[i], kinds)]
                /\ Carried(s, kinds) = SumFunctionOnSet(f, 1..n)
                /\ IsFiniteSet(1..n) /\ \A i \in 1..n : f[i] \in Nat
                /\ Carried(s, kinds) \in Nat
<1>1. DOMAIN s = 1..n /\ n \in Nat OBVIOUS
<1>2. PICK f : f = [i \in 1..n |-> Bears(s[i], kinds)] OBVIOUS
<1>3. f = [i \in DOMAIN s |-> IF s[i].is \in kinds THEN s[i].n ELSE 0] BY <1>1, <1>2 DEF Bears
<1>4. DOMAIN f = 1..n BY <1>2
<1>5. Carried(s, kinds) = SumFunctionOnSet(f, 1..n) BY <1>3, <1>4 DEF Carried, SumFunction
<1>6. IsFiniteSet(1..n) BY <1>1, FS_Interval
<1>7. \A i \in 1..n : f[i] \in Nat BY <1>1, <1>2 DEF Counts
<1>8. SumFunctionOnSet(f, 1..n) \in Nat BY <1>6, <1>7, SumOne
<1> QED BY <1>2, <1>5, <1>6, <1>7, <1>8

LEMMA CarriedNothing == ASSUME NEW kinds PROVE Carried(<<>>, kinds) = 0
<1>1. [i \in DOMAIN <<>> |-> IF <<>>[i].is \in kinds THEN <<>>[i].n ELSE 0] = <<>> OBVIOUS
<1>2. Carried(<<>>, kinds) = SumFunctionOnSet(<<>>, DOMAIN <<>>) BY <1>1 DEF Carried, SumFunction
<1>3. DOMAIN <<>> = {} OBVIOUS
<1> QED BY <1>2, <1>3, SumNone

LEMMA CarriedAppend ==
  ASSUME NEW S, NEW s \in Seq(S), NEW p \in S, NEW kinds, Counts(s, kinds), Bears(p, kinds) \in Nat
  PROVE  /\ Carried(Append(s, p), kinds) = Carried(s, kinds) + Bears(p, kinds)
         /\ Counts(Append(s, p), kinds)
<1>1. PICK t : t = Append(s, p) OBVIOUS
<1>2. PICK n \in Nat : n = Len(s) OBVIOUS
<1>3. /\ t \in Seq(S) /\ Len(t) = n + 1 /\ t[n + 1] = p /\ \A i \in 1..n : t[i] = s[i]
  BY <1>1, <1>2
<1>4. DOMAIN s = 1..n /\ DOMAIN t = 1..(n + 1) BY <1>2, <1>3
<1>5. Counts(t, kinds)
  <2>1. ASSUME NEW i \in 1..(n + 1) PROVE Bears(t[i], kinds) \in Nat
    <3>1. CASE i = n + 1 BY <1>3, <3>1
    <3>2. CASE i # n + 1
      <4>1. i \in 1..n BY <3>2
      <4> QED BY <1>3, <1>4, <4>1 DEF Counts
    <3> QED BY <3>1, <3>2
  <2> QED BY <1>4, <2>1 DEF Counts
<1>6. PICK f : /\ f = [i \in 1..n |-> Bears(s[i], kinds)]
               /\ Carried(s, kinds) = SumFunctionOnSet(f, 1..n) /\ Carried(s, kinds) \in Nat
               /\ IsFiniteSet(1..n) /\ \A i \in 1..n : f[i] \in Nat
  BY <1>2, CarriedIs
<1>7. PICK g : /\ g = [i \in 1..(n + 1) |-> Bears(t[i], kinds)]
               /\ Carried(t, kinds) = SumFunctionOnSet(g, 1..(n + 1))
               /\ IsFiniteSet(1..(n + 1)) /\ \A i \in 1..(n + 1) : g[i] \in Nat
  <2>1. t \in Seq(S) BY <1>3
  <2>2. PICK m : m = n + 1 OBVIOUS
  <2>3. m = Len(t) BY <1>3, <2>2
  <2>4. \E g : /\ g = [i \in 1..m |-> Bears(t[i], kinds)]
               /\ Carried(t, kinds) = SumFunctionOnSet(g, 1..m)
               /\ IsFiniteSet(1..m) /\ (\A i \in 1..m : g[i] \in Nat)
    BY <1>5, <2>1, <2>3, CarriedIs
  <2> QED BY <2>2, <2>4
<1>8. 1..(n + 1) = 1..n \cup {n + 1} /\ n + 1 \notin 1..n BY <1>2
<1>9. SumFunctionOnSet(g, 1..n \cup {n + 1}) = SumFunctionOnSet(g, 1..n) + g[n + 1]
  <2>1. \A i \in 1..n \cup {n + 1} : g[i] \in Nat BY <1>7, <1>8
  <2> QED BY <1>6, <1>8, <2>1, SumAdd
<1>10. SumFunctionOnSet(g, 1..n) = SumFunctionOnSet(f, 1..n)
  <2>1. \A i \in 1..n : g[i] = f[i] BY <1>3, <1>6, <1>7, <1>8
  <2> QED BY <1>6, <2>1, SumSame
<1>11. g[n + 1] = Bears(p, kinds) BY <1>3, <1>7, <1>8
<1> QED BY <1>1, <1>5, <1>6, <1>7, <1>8, <1>9, <1>10, <1>11

LEMMA CarriedTail ==
  ASSUME NEW S, NEW s \in Seq(S), s # <<>>, NEW kinds, Counts(s, kinds)
  PROVE  /\ Carried(s, kinds) = Bears(Head(s), kinds) + Carried(Tail(s), kinds)
         /\ Counts(Tail(s), kinds) /\ Bears(Head(s), kinds) \in Nat
<1>1. PICK t : t = Tail(s) OBVIOUS
<1>2. PICK n \in Nat : Len(s) = n + 1
  <2>1. Len(s) \in Nat /\ Len(s) # 0 OBVIOUS
  <2>2. PICK k \in Nat : k = Len(s) - 1 BY <2>1
  <2> QED BY <2>1, <2>2
<1>3. t \in Seq(S) /\ Len(t) = n /\ (\A i \in 1..n : t[i] = s[i + 1]) /\ Head(s) = s[1]
  BY <1>1, <1>2
<1>4. DOMAIN t = 1..n /\ DOMAIN s = 1..(n + 1) BY <1>2, <1>3
<1>5. \A i \in 1..n : i + 1 \in 1..(n + 1) OBVIOUS
<1>6. Counts(t, kinds) BY <1>3, <1>4, <1>5 DEF Counts
<1>7. PICK f : /\ f = [i \in 1..n |-> Bears(t[i], kinds)]
               /\ Carried(t, kinds) = SumFunctionOnSet(f, 1..n)
               /\ IsFiniteSet(1..n) /\ \A i \in 1..n : f[i] \in Nat
  <2>1. t \in Seq(S) BY <1>3
  <2>2. n = Len(t) BY <1>3
  <2> QED BY <1>6, <2>1, <2>2, CarriedIs
<1>8. PICK g : /\ g = [i \in 1..(n + 1) |-> Bears(s[i], kinds)]
               /\ Carried(s, kinds) = SumFunctionOnSet(g, 1..(n + 1))
               /\ IsFiniteSet(1..(n + 1)) /\ \A i \in 1..(n + 1) : g[i] \in Nat
  BY <1>2, CarriedIs
<1>9. 1 \in 1..(n + 1) OBVIOUS
<1>10. SumFunctionOnSet(g, 1..(n + 1)) = g[1] + SumFunctionOnSet(g, (1..(n + 1)) \ {1})
  BY <1>8, <1>9, SumOne
<1>11. PICK T : T = (1..(n + 1)) \ {1} OBVIOUS
<1>12. PICK b : b = [i \in 1..n |-> i + 1] OBVIOUS
<1>13. b \in Bijection(1..n, T)
  <2>1. \A i \in 1..n : b[i] \in T BY <1>11, <1>12
  <2>2. \A i, j \in 1..n : b[i] = b[j] => i = j BY <1>12
  <2>3. ASSUME NEW y \in T PROVE \E i \in 1..n : b[i] = y
    <3>1. y - 1 \in 1..n /\ (y - 1) + 1 = y BY <1>11
    <3> QED BY <1>12, <3>1
  <2>4. b \in [1..n -> T] BY <1>12, <2>1
  <2> QED BY <2>2, <2>3, <2>4 DEF Bijection, Injection, Surjection, IsInjective
<1>14. \A i \in 1..n : f[i] \in Nat /\ g[b[i]] = f[i] BY <1>3, <1>5, <1>7, <1>8, <1>12
<1>15. SumFunctionOnSet(g, T) = SumFunctionOnSet(f, 1..n) BY <1>7, <1>13, <1>14, SumRenamed
<1>16. g[1] = Bears(Head(s), kinds) /\ g[1] \in Nat BY <1>3, <1>8, <1>9
<1> QED BY <1>1, <1>6, <1>7, <1>8, <1>10, <1>11, <1>15, <1>16

(***************************************************************************)
(* The invariant: what the program said and was not told could not be said *)
(* is at the client, on its way, or still in hand; and the close of the    *)
(* channel comes after all of it.                                          *)
(***************************************************************************)
ToClientPackets ==
  [is : {"kexinit", "disconnect", "reply", "newkeys", "extinfo", "adjust", "data", "status", "eof",
         "close"} \cup Answered,
   n : Nat, sealed : BOOLEAN]

ToServerPackets ==
  [is : {"kexinit", "kexinit right", "kexinit wrong", "kexinit strange", "ecdh", "other", "newkeys",
         "open", "global", "shell", "pty", "unknown", "change", "data", "eof", "adjust",
         "disconnect", "rekey"} \cup Questions \cup Attempts \cup Proofs,
   n : Nat, sealed : BOOLEAN]

ClientType ==
  [at : {"hello", "offered", "exchanging", "gone"},
   guess : {"none", "kexinit", "kexinit right", "kexinit wrong", "kexinit strange"},
   sealIn : BOOLEAN, sealOut : BOOLEAN,
   asked : Seq({"open", "global", "shell", "pty", "unknown"} \cup Questions \cup Attempts \cup Proofs),
   asks : Nat, login : BOOLEAN, chan : BOOLEAN, credit : Nat, typed : Nat, eof : BOOLEAN,
   heard : Nat, shown : Nat, saw : BOOLEAN, end : {"none", "told", "closed", "left", "cut"}]

SshType ==
  /\ phase \in {"kexinit", "guess", "ecdh", "newkeys", "auth", "setup", "shell", "closing",
                "draining", "closed"}
  /\ sealIn \in BOOLEAN /\ sealOut \in BOOLEAN /\ tries \in Nat
  /\ chan \in [open : BOOLEAN, mine : Nat, peers : Nat]
  /\ pend \in [pos : Nat, len : Nat] /\ pend.pos <= pend.len
  /\ obuf \in 0..ObufMax /\ ended \subseteq {"in", "all"}
  /\ call \in [is : {"none", "read", "write", "close"}, left : Nat, want : Nat, spins : Nat]
  /\ toClient \in Seq(ToClientPackets) /\ toServer \in Seq(ToServerPackets)
  /\ client \in ClientType /\ sitting \in Sittings
  /\ flow \in [said : Nat, unsaid : Nat, lost : Nat, late : BOOLEAN]

\* A call has something in hand only while a program is inside, and the last of
\* what it wrote is in hand from the start of the close.
SshCalls ==
  /\ call.is = "none" => call = NoCall
  /\ phase = "closing" => obuf = 0 /\ call.is = "close"
  /\ phase \notin {"shell", "closing"} => call = NoCall

HasClose(packets) == \E i \in DOMAIN packets : packets[i].is = "close"
CloseLast(packets) == \A i \in DOMAIN packets : packets[i].is = "close" => i = Len(packets)

\* Nothing but the close of the connection comes after the close of the channel.
SshFarewell ==
  /\ client.saw \/ HasClose(toClient) => phase \in {"draining", "closed"} /\ obuf = 0
  /\ ~flow.late => (client.saw => toClient = <<>>) /\ CloseLast(toClient)
  /\ client.saw /\ client.end = "told" => flow.late
  /\ client.at = "gone" \/ client.end = "none"

Told(packets) == Carried(packets, {"data"})

SshBalance ==
  /\ client.at # "gone" /\ ~flow.late =>
       flow.said = client.shown + client.heard + Told(toClient) + flow.unsaid + call.left + obuf
  /\ client.saw /\ client.end = "closed" /\ ~flow.late => flow.said = client.shown + flow.unsaid

SshInv == SshType /\ SshCalls /\ SshFarewell /\ SshBalance

(***************************************************************************)
(* The packets under way.                                                  *)
(***************************************************************************)
LEMMA SshBounds ==
  /\ Window \in Nat /\ Window # 0 /\ MaxPayload \in Nat /\ MaxPayload # 0
  /\ ObufMax \in Nat /\ ObufMax # 0 /\ AuthTries \in Nat /\ Spins \in Nat /\ Ample \in Nat
  /\ \A n \in ReadSizes \cup WriteSizes : n \in Nat
  /\ \A s \in Sittings : /\ s.window \in Nat /\ s.logins \in Nat /\ s.asks \in Nat
                         /\ s.typed \in Nat /\ s.said \in Nat
BY SshAssumption

LEMMA ToldCounts ==
  ASSUME NEW s \in Seq(ToClientPackets)
  PROVE  Counts(s, {"data"}) /\ Told(s) \in Nat
<1>1. \A i \in DOMAIN s : s[i] \in ToClientPackets OBVIOUS
<1>2. \A i \in DOMAIN s : s[i].n \in Nat BY <1>1 DEF ToClientPackets
<1>3. Counts(s, {"data"}) BY <1>2 DEF Counts, Bears
<1>4. PICK n : n = Len(s) OBVIOUS
<1>5. Carried(s, {"data"}) \in Nat BY <1>3, <1>4, CarriedIs
<1> QED BY <1>3, <1>5 DEF Told

\* One packet more.
LEMMA SaidMore ==
  ASSUME NEW s \in Seq(ToClientPackets), NEW p \in ToClientPackets
  PROVE  /\ Append(s, p) \in Seq(ToClientPackets)
         /\ Told(Append(s, p)) = Told(s) + (IF p.is = "data" THEN p.n ELSE 0)
         /\ HasClose(Append(s, p)) <=> HasClose(s) \/ p.is = "close"
         /\ ~HasClose(s) => CloseLast(Append(s, p))
<1>1. Append(s, p) \in Seq(ToClientPackets) OBVIOUS
<1>2. p.n \in Nat BY DEF ToClientPackets
<1>3. Bears(p, {"data"}) = IF p.is = "data" THEN p.n ELSE 0 BY DEF Bears
<1>4. Counts(s, {"data"}) BY ToldCounts
<1>5. Bears(p, {"data"}) \in Nat BY <1>2, <1>3
<1>6. Carried(Append(s, p), {"data"}) = Carried(s, {"data"}) + Bears(p, {"data"})
  BY <1>4, <1>5, CarriedAppend
<1>7. PICK t : t = Append(s, p) OBVIOUS
<1>8. PICK n \in Nat : n = Len(s) OBVIOUS
<1>9. /\ DOMAIN s = 1..n /\ DOMAIN t = 1..(n + 1) /\ Len(t) = n + 1
      /\ t[n + 1] = p /\ \A i \in 1..n : t[i] = s[i]
  BY <1>7, <1>8
<1>10. HasClose(t) <=> HasClose(s) \/ p.is = "close"
  <2>1. ASSUME NEW i \in 1..(n + 1), t[i].is = "close" PROVE HasClose(s) \/ p.is = "close"
    <3>1. CASE i = n + 1 BY <1>9, <2>1, <3>1
    <3>2. CASE i # n + 1
      <4>1. i \in 1..n BY <3>2
      <4> QED BY <1>9, <2>1, <4>1 DEF HasClose
    <3> QED BY <3>1, <3>2
  <2>2. ASSUME NEW i \in 1..n, s[i].is = "close" PROVE HasClose(t)
    <3>1. i \in 1..(n + 1) OBVIOUS
    <3> QED BY <1>9, <2>2, <3>1 DEF HasClose
  <2>3. n + 1 \in 1..(n + 1) OBVIOUS
  <2>4. p.is = "close" => HasClose(t) BY <1>9, <2>3 DEF HasClose
  <2>5. HasClose(t) => HasClose(s) \/ p.is = "close" BY <1>9, <2>1 DEF HasClose
  <2>6. HasClose(s) => HasClose(t) BY <1>9, <2>2 DEF HasClose
  <2> QED BY <2>4, <2>5, <2>6
<1>11. ASSUME ~HasClose(s) PROVE CloseLast(t)
  <2>1. ASSUME NEW i \in 1..(n + 1), t[i].is = "close" PROVE i = n + 1
    <3>1. ASSUME i # n + 1 PROVE FALSE
      <4>1. i \in 1..n BY <3>1
      <4> QED BY <1>9, <1>11, <2>1, <4>1 DEF HasClose
    <3> QED BY <3>1
  <2> QED BY <1>9, <2>1 DEF CloseLast
<1> QED BY <1>1, <1>3, <1>6, <1>7, <1>10, <1>11 DEF Told

\* One packet less.
LEMMA HeardOne ==
  ASSUME NEW s \in Seq(ToClientPackets), s # <<>>
  PROVE  /\ Head(s) \in ToClientPackets /\ Tail(s) \in Seq(ToClientPackets)
         /\ Told(s) = (IF Head(s).is = "data" THEN Head(s).n ELSE 0) + Told(Tail(s))
         /\ HasClose(s) <=> Head(s).is = "close" \/ HasClose(Tail(s))
         /\ CloseLast(s) => CloseLast(Tail(s)) /\ (Head(s).is = "close" => Tail(s) = <<>>)
<1>1. Head(s) \in ToClientPackets /\ Tail(s) \in Seq(ToClientPackets) OBVIOUS
<1>2. Bears(Head(s), {"data"}) = IF Head(s).is = "data" THEN Head(s).n ELSE 0 BY DEF Bears
<1>3. Counts(s, {"data"}) BY ToldCounts
<1>4. Carried(s, {"data"}) = Bears(Head(s), {"data"}) + Carried(Tail(s), {"data"})
  BY <1>3, CarriedTail
<1>5. PICK t : t = Tail(s) OBVIOUS
<1>6. PICK n \in Nat : Len(s) = n + 1
  <2>1. Len(s) \in Nat /\ Len(s) # 0 OBVIOUS
  <2>2. PICK k \in Nat : k = Len(s) - 1 BY <2>1
  <2> QED BY <2>1, <2>2
<1>7. /\ DOMAIN s = 1..(n + 1) /\ DOMAIN t = 1..n /\ Len(t) = n
      /\ Head(s) = s[1] /\ \A i \in 1..n : t[i] = s[i + 1]
  BY <1>5, <1>6
<1>8. HasClose(s) <=> Head(s).is = "close" \/ HasClose(t)
  <2>1. ASSUME NEW i \in 1..(n + 1), s[i].is = "close" PROVE Head(s).is = "close" \/ HasClose(t)
    <3>1. CASE i = 1 BY <1>7, <2>1, <3>1
    <3>2. CASE i # 1
      <4>1. PICK j \in 1..n : j + 1 = i
        <5>1. PICK j : j = i - 1 OBVIOUS
        <5> QED BY <3>2, <5>1
      <4> QED BY <1>7, <2>1, <4>1 DEF HasClose
    <3> QED BY <3>1, <3>2
  <2>2. ASSUME NEW i \in 1..n, t[i].is = "close" PROVE HasClose(s)
    <3>1. i + 1 \in 1..(n + 1) OBVIOUS
    <3> QED BY <1>7, <2>2, <3>1 DEF HasClose
  <2>3. 1 \in 1..(n + 1) OBVIOUS
  <2>4. Head(s).is = "close" => HasClose(s) BY <1>7, <2>3 DEF HasClose
  <2>5. HasClose(s) => Head(s).is = "close" \/ HasClose(t) BY <1>7, <2>1 DEF HasClose
  <2>6. HasClose(t) => HasClose(s) BY <1>7, <2>2 DEF HasClose
  <2> QED BY <2>4, <2>5, <2>6
<1>9. ASSUME CloseLast(s) PROVE CloseLast(t) /\ (Head(s).is = "close" => t = <<>>)
  <2>1. \A i \in 1..(n + 1) : s[i].is = "close" => i = n + 1 BY <1>6, <1>7, <1>9 DEF CloseLast
  <2>2. ASSUME NEW i \in 1..n, t[i].is = "close" PROVE i = n
    <3>1. i + 1 \in 1..(n + 1) OBVIOUS
    <3> QED BY <1>7, <2>1, <2>2, <3>1
  <2>3. ASSUME Head(s).is = "close" PROVE t = <<>>
    <3>1. 1 \in 1..(n + 1) OBVIOUS
    <3>2. n = 0 BY <1>7, <2>1, <2>3, <3>1
    <3> QED BY <1>1, <1>5, <1>7, <3>2
  <2> QED BY <1>7, <2>2, <2>3 DEF CloseLast
<1> QED BY <1>1, <1>2, <1>4, <1>5, <1>8, <1>9 DEF Told

LEMMA NothingTold == Told(<<>>) = 0 /\ ~HasClose(<<>>) /\ CloseLast(<<>>)
<1>1. DOMAIN <<>> = {} OBVIOUS
<1> QED BY <1>1, CarriedNothing DEF Told, HasClose, CloseLast

\* What ssh_packet_send does to what is under way.
LEMMA SaysOne ==
  ASSUME SshType, NEW is, NEW n \in Nat, Packet(is, n, sealOut) \in ToClientPackets
  PROVE  /\ Says(is, n) \in Seq(ToClientPackets)
         /\ Told(Says(is, n)) = Told(toClient) + (IF is = "data" THEN n ELSE 0)
         /\ HasClose(Says(is, n)) <=> HasClose(toClient) \/ is = "close"
         /\ ~HasClose(toClient) => CloseLast(Says(is, n))
<1>1. toClient \in Seq(ToClientPackets) BY DEF SshType
<1>2. PICK p \in ToClientPackets : p = Packet(is, n, sealOut) OBVIOUS
<1>3. p.is = is /\ p.n = n BY <1>2 DEF Packet
<1> QED BY <1>1, <1>2, <1>3, SaidMore DEF Says

\* A step of the driver that is not the end of a session adds nothing to what the
\* client has to hear but what it sends.
Adds(n) ==
  /\ toClient' \in Seq(ToClientPackets) /\ Told(toClient') = Told(toClient) + n
  /\ HasClose(toClient') <=> HasClose(toClient)

LEMMA AddsOne ==
  ASSUME SshType, NEW is, NEW n \in Nat, toClient' = Says(is, n),
         is \in {"disconnect", "adjust", "data"} \cup Answered
  PROVE  Adds(IF is = "data" THEN n ELSE 0)
<1>1. Packet(is, n, sealOut) \in ToClientPackets BY DEF Packet, ToClientPackets, SshType
<1>2. is # "close" BY DEF Answered
<1> QED BY <1>1, <1>2, SaysOne DEF Adds

LEMMA AddsNothing == ASSUME SshType, UNCHANGED toClient PROVE Adds(0)
<1>1. Told(toClient) \in Nat BY ToldCounts DEF SshType
<1> QED BY <1>1 DEF Adds, SshType

LEMMA NotClosed ==
  ASSUME SshInv, phase \notin {"draining", "closed"}
  PROVE  ~client.saw /\ ~HasClose(toClient)
BY DEF SshInv, SshFarewell

\* What the type says of each field.
CallType == [is : {"none", "read", "write", "close"}, left : Nat, want : Nat, spins : Nat]
Flow == [said : Nat, unsaid : Nat, lost : Nat, late : BOOLEAN]

LEMMA SshFields ==
  ASSUME SshInv
  PROVE  /\ call \in CallType /\ flow \in Flow /\ flow.late \in BOOLEAN
         /\ toClient \in Seq(ToClientPackets) /\ client \in ClientType
BY DEF SshInv, SshType, CallType, Flow

LEMMA SshNumbers ==
  ASSUME SshInv
  PROVE  /\ call.left \in Nat /\ call.want \in Nat /\ call.spins \in Nat
         /\ flow.said \in Nat /\ flow.unsaid \in Nat /\ flow.lost \in Nat
         /\ ObufMax \in Nat /\ obuf \in Nat /\ obuf <= ObufMax
         /\ client.heard \in Nat /\ client.shown \in Nat /\ client.credit \in Nat
         /\ chan.peers \in Nat /\ chan.mine \in Nat /\ pend.pos \in Nat /\ pend.len \in Nat
         /\ Told(toClient) \in Nat
<1>1. call.left \in Nat /\ call.want \in Nat /\ call.spins \in Nat BY SshFields DEF CallType
<1>2. flow.said \in Nat /\ flow.unsaid \in Nat /\ flow.lost \in Nat BY SshFields DEF Flow
<1>3. ObufMax \in Nat BY SshBounds
<1>4. obuf \in Nat /\ obuf <= ObufMax BY <1>3 DEF SshInv, SshType
<1>5. client.heard \in Nat /\ client.shown \in Nat /\ client.credit \in Nat
  BY SshFields DEF ClientType
<1>6. chan.peers \in Nat /\ chan.mine \in Nat /\ pend.pos \in Nat /\ pend.len \in Nat
  BY DEF SshInv, SshType
<1>7. Told(toClient) \in Nat BY SshFields, ToldCounts
<1> QED BY <1>1, <1>2, <1>3, <1>4, <1>5, <1>6, <1>7

\* Changes of a call, and of the counts.
LEMMA CallChanges ==
  ASSUME NEW c \in CallType, NEW n \in Nat
  PROVE  /\ NoCall \in CallType /\ NoCall.is = "none" /\ NoCall.left = 0
         /\ [c EXCEPT !.left = n, !.spins = 0] \in CallType
         /\ [c EXCEPT !.left = n, !.spins = 0].left = n
         /\ [c EXCEPT !.left = n, !.spins = 0].is = c.is
         /\ [c EXCEPT !.want = n] \in CallType
         /\ [c EXCEPT !.want = n].left = c.left /\ [c EXCEPT !.want = n].is = c.is
         /\ [c EXCEPT !.spins = n] \in CallType
         /\ [c EXCEPT !.spins = n].left = c.left /\ [c EXCEPT !.spins = n].is = c.is
         /\ [NoCall EXCEPT !.is = "close"] \in CallType
         /\ [NoCall EXCEPT !.is = "close"].left = 0 /\ [NoCall EXCEPT !.is = "close"].is = "close"
<1>1. NoCall \in CallType /\ NoCall.is = "none" /\ NoCall.left = 0 BY DEF NoCall, CallType
<1>2. /\ [c EXCEPT !.left = n, !.spins = 0] \in CallType
      /\ [c EXCEPT !.left = n, !.spins = 0].left = n
      /\ [c EXCEPT !.left = n, !.spins = 0].is = c.is
  BY DEF CallType
<1>3. /\ [c EXCEPT !.want = n] \in CallType
      /\ [c EXCEPT !.want = n].left = c.left /\ [c EXCEPT !.want = n].is = c.is
  BY DEF CallType
<1>4. /\ [c EXCEPT !.spins = n] \in CallType
      /\ [c EXCEPT !.spins = n].left = c.left /\ [c EXCEPT !.spins = n].is = c.is
  BY DEF CallType
<1>5. /\ [NoCall EXCEPT !.is = "close"] \in CallType
      /\ [NoCall EXCEPT !.is = "close"].left = 0 /\ [NoCall EXCEPT !.is = "close"].is = "close"
  BY DEF NoCall, CallType
<1> QED BY <1>1, <1>2, <1>3, <1>4, <1>5

LEMMA FlowChanges ==
  ASSUME NEW f \in Flow, NEW n \in Nat
  PROVE  /\ [f EXCEPT !.said = n] \in Flow /\ [f EXCEPT !.said = n].said = n
         /\ [f EXCEPT !.said = n].unsaid = f.unsaid /\ [f EXCEPT !.said = n].late = f.late
         /\ [f EXCEPT !.unsaid = n] \in Flow /\ [f EXCEPT !.unsaid = n].unsaid = n
         /\ [f EXCEPT !.unsaid = n].said = f.said /\ [f EXCEPT !.unsaid = n].late = f.late
         /\ [f EXCEPT !.lost = n] \in Flow /\ [f EXCEPT !.lost = n].unsaid = f.unsaid
         /\ [f EXCEPT !.lost = n].said = f.said /\ [f EXCEPT !.lost = n].late = f.late
<1>1. /\ [f EXCEPT !.said = n] \in Flow /\ [f EXCEPT !.said = n].said = n
      /\ [f EXCEPT !.said = n].unsaid = f.unsaid /\ [f EXCEPT !.said = n].late = f.late
  BY DEF Flow
<1>2. /\ [f EXCEPT !.unsaid = n] \in Flow /\ [f EXCEPT !.unsaid = n].unsaid = n
      /\ [f EXCEPT !.unsaid = n].said = f.said /\ [f EXCEPT !.unsaid = n].late = f.late
  BY DEF Flow
<1>3. /\ [f EXCEPT !.lost = n] \in Flow /\ [f EXCEPT !.lost = n].unsaid = f.unsaid
      /\ [f EXCEPT !.lost = n].said = f.said /\ [f EXCEPT !.lost = n].late = f.late
  BY DEF Flow
<1> QED BY <1>1, <1>2, <1>3

\* Before the farewell, with the client as it was.
LEMMA StillThere ==
  ASSUME SshInv, phase \notin {"draining", "closed"}, NEW n \in Nat, Adds(n), UNCHANGED client,
         flow' \in Flow, flow'.late = flow.late, call'.left \in Nat, obuf' \in Nat,
         flow'.said + flow.unsaid + call.left + obuf
           = flow.said + n + flow'.unsaid + call'.left + obuf'
  PROVE  SshFarewell' /\ SshBalance'
<1>1. ~client.saw /\ ~HasClose(toClient) BY NotClosed
<1>2. ~client'.saw /\ ~HasClose(toClient') BY <1>1 DEF Adds
<1>3. CloseLast(toClient') BY <1>2 DEF HasClose, CloseLast
<1>4. Told(toClient') = Told(toClient) + n BY DEF Adds
<1>5. SshFarewell' BY <1>2, <1>3 DEF SshInv, SshFarewell
<1>6. flow'.said \in Nat /\ flow'.unsaid \in Nat BY DEF Flow
<1>7. ~flow'.late /\ client'.at # "gone" =>
        flow'.said = client'.shown + client'.heard + Told(toClient') + flow'.unsaid + call'.left
                     + obuf'
  <2>1. ~flow.late /\ client.at # "gone" =>
          flow.said = client.shown + client.heard + Told(toClient) + flow.unsaid + call.left + obuf
    BY DEF SshInv, SshBalance
  <2>2. PICK told \in Nat : told = Told(toClient) BY SshNumbers
  <2>3. client' = client /\ Told(toClient') = told + n BY <1>4, <2>2
  <2>4. ASSUME ~flow'.late, client'.at # "gone"
        PROVE  flow'.said = client.shown + client.heard + (told + n) + flow'.unsaid + call'.left
                            + obuf'
    <3>1. flow.said = client.shown + client.heard + told + flow.unsaid + call.left + obuf
      BY <2>1, <2>2, <2>3, <2>4
    <3> QED BY <1>6, <2>2, <3>1, SshNumbers
  <2> QED BY <2>3, <2>4
<1>8. SshBalance' BY <1>2, <1>7 DEF SshBalance
<1> QED BY <1>5, <1>8

LEMMA GatherKeeps == ASSUME SshInv, Gather, UNCHANGED sitting PROVE SshInv'
<1>1. PICK k : k = Lesser(ObufMax - obuf, call.want) OBVIOUS
<1>2. /\ call.is = "write" /\ call.left = 0
      /\ \/ k = 0 /\ call' = [call EXCEPT !.left = obuf, !.spins = 0] /\ obuf' = 0 /\ UNCHANGED flow
         \/ /\ k # 0 /\ obuf' = obuf + k /\ flow' = [flow EXCEPT !.said = @ + k]
            /\ call' = IF k = call.want THEN NoCall ELSE [call EXCEPT !.want = @ - k]
      /\ UNCHANGED <<phase, sealIn, sealOut, tries, chan, pend, ended, toClient, toServer, client>>
  BY <1>1 DEF Gather
<1>3. k \in Nat /\ k <= ObufMax - obuf /\ k <= call.want
  BY <1>1, SshNumbers DEF Lesser
<1>4. phase = "shell" BY <1>2 DEF SshInv, SshCalls, NoCall
<1>5. /\ call' \in CallType /\ call'.left \in Nat /\ (call'.is = "none" => call' = NoCall)
      /\ obuf' \in 0..ObufMax /\ obuf' \in Nat /\ flow' \in Flow /\ flow'.late = flow.late
      /\ flow'.said + flow.unsaid + call.left + obuf
           = flow.said + 0 + flow'.unsaid + call'.left + obuf'
  <2>1. CASE k = 0
    <3>1. /\ call' = [call EXCEPT !.left = obuf, !.spins = 0] /\ obuf' = 0 /\ flow' = flow
      BY <1>2, <2>1
    <3>2. call' \in CallType /\ call'.left = obuf /\ call'.is = "write"
      BY <1>2, <3>1, SshFields, SshNumbers, CallChanges
    <3>3. call'.left \in Nat /\ (call'.is = "none" => call' = NoCall) BY <3>2, SshNumbers
    <3>4. obuf' \in 0..ObufMax /\ obuf' \in Nat BY <3>1, SshNumbers
    <3>5. flow' \in Flow /\ flow'.late = flow.late BY <3>1, SshFields
    <3>6. flow'.said + flow.unsaid + call.left + obuf
            = flow.said + 0 + flow'.unsaid + call'.left + obuf'
      BY <1>2, <3>1, <3>2, SshNumbers
    <3> QED BY <3>2, <3>3, <3>4, <3>5, <3>6
  <2>2. CASE k # 0
    <3>1. PICK w \in Nat : w = call.want - k BY <1>3, SshNumbers
    <3>2. PICK m \in Nat : m = flow.said + k BY <1>3, SshNumbers
    <3>3. /\ obuf' = obuf + k /\ flow' = [flow EXCEPT !.said = m]
          /\ call' = NoCall \/ call' = [call EXCEPT !.want = w]
      BY <1>2, <2>2, <3>1, <3>2
    <3>4. flow' \in Flow /\ flow'.said = m /\ flow'.unsaid = flow.unsaid /\ flow'.late = flow.late
      BY <3>3, SshFields, FlowChanges
    <3>5. call' \in CallType /\ call'.left = 0 /\ (call'.is = "none" => call' = NoCall)
      <4>1. /\ NoCall \in CallType /\ NoCall.left = 0
            /\ [call EXCEPT !.want = w] \in CallType /\ [call EXCEPT !.want = w].left = 0
            /\ [call EXCEPT !.want = w].is = "write"
        BY <1>2, SshFields, CallChanges
      <4> QED BY <3>3, <4>1
    <3>6. obuf' \in 0..ObufMax /\ obuf' \in Nat BY <1>3, <3>3, SshNumbers
    <3>7. flow'.said + flow.unsaid + call.left + obuf
            = flow.said + 0 + flow'.unsaid + call'.left + obuf'
      BY <1>2, <1>3, <3>2, <3>3, <3>4, <3>5, SshNumbers
    <3> QED BY <3>4, <3>5, <3>6, <3>7
  <2> QED BY <2>1, <2>2
<1>6. SshType' BY <1>2, <1>5 DEF SshInv, SshType, CallType, Flow
<1>7. SshCalls' BY <1>2, <1>4, <1>5 DEF SshCalls
<1>8. Adds(0) BY <1>2, AddsNothing DEF SshInv
<1>9. SshFarewell' /\ SshBalance' BY <1>2, <1>4, <1>5, <1>8, StillThere
<1> QED BY <1>6, <1>7, <1>9 DEF SshInv

(***************************************************************************)
(* Packets the driver reads.                                               *)
(***************************************************************************)
LEMMA TakenKeeps ==
  ASSUME SshInv, Takes
  PROVE  /\ toServer' \in Seq(ToServerPackets) /\ Head(toServer) \in ToServerPackets
         /\ Head(toServer).n \in Nat
<1>1. toServer \in Seq(ToServerPackets) BY DEF SshInv, SshType
<1>2. toServer # <<>> /\ toServer' = Tail(toServer) BY DEF Takes
<1>3. Head(toServer) \in ToServerPackets BY <1>1, <1>2
<1>4. Head(toServer).n \in Nat BY <1>3 DEF ToServerPackets
<1> QED BY <1>1, <1>2, <1>3, <1>4

LEMMA ThreeMore ==
  ASSUME NEW s \in Seq(ToClientPackets), NEW a \in ToClientPackets, NEW b \in ToClientPackets,
         NEW c \in ToClientPackets, a.is # "data", b.is # "data", c.is # "data",
         a.is # "close", b.is # "close"
  PROVE  /\ s \o <<a, b, c>> \in Seq(ToClientPackets) /\ Told(s \o <<a, b, c>>) = Told(s)
         /\ HasClose(s \o <<a, b, c>>) <=> HasClose(s) \/ c.is = "close"
         /\ ~HasClose(s) => CloseLast(s \o <<a, b, c>>)
<1>1. PICK t : t = Append(s, a) OBVIOUS
<1>2. PICK u : u = Append(t, b) OBVIOUS
<1>3. PICK v : v = Append(u, c) OBVIOUS
<1>4. t \in Seq(ToClientPackets) /\ Told(t) = Told(s) + 0 /\ (HasClose(t) <=> HasClose(s))
  BY <1>1, SaidMore
<1>5. u \in Seq(ToClientPackets) /\ Told(u) = Told(t) + 0 /\ (HasClose(u) <=> HasClose(t))
  BY <1>2, <1>4, SaidMore
<1>6. /\ v \in Seq(ToClientPackets) /\ Told(v) = Told(u) + 0
      /\ HasClose(v) <=> HasClose(u) \/ c.is = "close"
      /\ ~HasClose(u) => CloseLast(v)
  BY <1>3, <1>5, SaidMore
<1>7. v = s \o <<a, b, c>> BY <1>1, <1>2, <1>3
<1>8. Told(s) \in Nat BY ToldCounts
<1>9. Told(v) = Told(s) BY <1>4, <1>5, <1>6, <1>8
<1> QED BY <1>4, <1>5, <1>6, <1>7, <1>9

LEMMA SetsUpKeeps == ASSUME SshInv, SetsUp, UNCHANGED sitting PROVE SshInv'
<1>1. PICK m : m = Head(toServer) OBVIOUS
<1>2. /\ Takes /\ (Kexinit(m) \/ Guess(m) \/ EcdhInit(m) \/ NewKeys(m) \/ Login(m))
      /\ UNCHANGED <<chan, pend, obuf, ended, call, client, flow>>
  BY <1>1 DEF SetsUp
<1>3. toServer' \in Seq(ToServerPackets) BY <1>2, TakenKeeps
<1>4. /\ phase \in {"kexinit", "guess", "ecdh", "newkeys", "auth"}
      /\ phase' \in {"guess", "ecdh", "newkeys", "auth", "setup", "closed"}
      /\ sealIn' \in BOOLEAN /\ sealOut' \in BOOLEAN /\ tries' \in Nat
  <2>1. sealIn \in BOOLEAN /\ sealOut \in BOOLEAN /\ tries \in Nat BY DEF SshInv, SshType
  <2>2. CASE Kexinit(m) BY <2>1, <2>2 DEF Kexinit
  <2>3. CASE Guess(m) BY <2>1, <2>3 DEF Guess
  <2>4. CASE EcdhInit(m) BY <2>1, <2>4 DEF EcdhInit
  <2>5. CASE NewKeys(m) BY <2>1, <2>5 DEF NewKeys
  <2>6. CASE Login(m)
    <3>1. PICK n \in Nat : n = tries + 1 BY <2>1
    <3>2. /\ phase = "auth" /\ phase' \in {"auth", "setup", "closed"} /\ tries' \in {tries, n}
          /\ UNCHANGED <<sealIn, sealOut>>
      BY <2>6, <3>1 DEF Login
    <3> QED BY <2>1, <3>2
  <2> QED BY <1>2, <2>2, <2>3, <2>4, <2>5, <2>6
<1>5. Adds(0)
  <2>1. CASE UNCHANGED toClient BY <2>1, AddsNothing DEF SshInv
  <2>2. CASE \E is \in {"disconnect"} \cup Answered : Say(is)
    <3>1. PICK is \in {"disconnect"} \cup Answered : toClient' = Says(is, 0) BY <2>2 DEF Say
    <3>2. is # "data" BY <3>1 DEF Answered
    <3> QED BY <3>1, <3>2, AddsOne DEF SshInv
  <2>3. CASE EcdhInit(m)
    <3>1. /\ Packet("reply", 0, FALSE) \in ToClientPackets
          /\ Packet("newkeys", 0, FALSE) \in ToClientPackets
          /\ Packet("extinfo", 0, TRUE) \in ToClientPackets
      BY DEF Packet, ToClientPackets
    <3>2. /\ Packet("reply", 0, FALSE).is = "reply" /\ Packet("newkeys", 0, FALSE).is = "newkeys"
          /\ Packet("extinfo", 0, TRUE).is = "extinfo"
      BY DEF Packet
    <3>3. toClient' = toClient \o <<Packet("reply", 0, FALSE), Packet("newkeys", 0, FALSE),
                                    Packet("extinfo", 0, TRUE)>>
      BY <2>3 DEF EcdhInit
    <3>4. /\ toClient' \in Seq(ToClientPackets) /\ Told(toClient') = Told(toClient)
          /\ HasClose(toClient') <=> HasClose(toClient)
      BY <3>1, <3>2, <3>3, ThreeMore, SshFields
    <3>5. Told(toClient') = Told(toClient) + 0 BY <3>4, SshNumbers
    <3> QED BY <3>4, <3>5 DEF Adds
  <2>4. UNCHANGED toClient \/ (\E is \in {"disconnect"} \cup Answered : Say(is)) \/ EcdhInit(m)
    <3>1. Kexinit(m) => UNCHANGED toClient \/ Say("disconnect") BY DEF Kexinit
    <3>2. Guess(m) \/ NewKeys(m) => UNCHANGED toClient BY DEF Guess, NewKeys
    <3>3. Login(m) => \E is \in {"disconnect"} \cup Answered : Say(is)
      <4>1. m.is \in Questions => ReplyTo(m.is) \in Answered BY DEF Questions, ReplyTo, Answered
      <4>2. {"success", "failure"} \subseteq Answered BY DEF Answered
      <4> QED BY <4>1, <4>2 DEF Login
    <3> QED BY <1>2, <3>1, <3>2, <3>3
  <2> QED BY <2>1, <2>2, <2>3, <2>4
<1>6. call = NoCall /\ call' = NoCall BY <1>2, <1>4 DEF SshInv, SshCalls
<1>7. toClient' \in Seq(ToClientPackets) BY <1>5 DEF Adds
<1>8. SshType' BY <1>2, <1>3, <1>4, <1>7 DEF SshInv, SshType
<1>9. SshCalls' BY <1>4, <1>6 DEF SshCalls
<1>10. flow' \in Flow /\ flow'.late = flow.late /\ call'.left \in Nat /\ obuf' \in Nat
  BY <1>2, SshFields, SshNumbers
<1>11. flow'.said + flow.unsaid + call.left + obuf
         = flow.said + 0 + flow'.unsaid + call'.left + obuf'
  BY <1>2, SshNumbers
<1>12. SshFarewell' /\ SshBalance' BY <1>2, <1>4, <1>5, <1>10, <1>11, StillThere
<1> QED BY <1>8, <1>9, <1>12 DEF SshInv

LEMMA PacketHandled ==
  ASSUME SshInv, Takes, NEW m, m = Head(toServer),
         OpenChannel(m) \/ Request(m) \/ Adjusted(m) \/ Data(m) \/ Ending(m)
  PROVE  /\ Adds(0) /\ ended' \subseteq {"in", "all"}
         /\ chan' \in [open : BOOLEAN, mine : Nat, peers : Nat]
         /\ pend' \in [pos : Nat, len : Nat] /\ pend'.pos <= pend'.len
<1>1. m.n \in Nat BY TakenKeeps
<1>2. UNCHANGED toClient \/ \E is \in {"disconnect"} \cup Answered : \E n \in Nat : toClient' = Says(is, n)
  <2>1. {"confirmation", "open failure", "channel success", "channel failure", "request failure"}
          \subseteq Answered
    BY DEF Answered
  <2> QED BY <2>1, SshBounds DEF OpenChannel, Request, Adjusted, Data, Ending, Say
<1>3. Adds(0)
  <2>1. CASE UNCHANGED toClient BY <2>1, AddsNothing DEF SshInv
  <2>2. ASSUME NEW is \in {"disconnect"} \cup Answered, NEW n \in Nat, toClient' = Says(is, n)
        PROVE  Adds(0)
    <3>1. is # "data" BY DEF Answered
    <3> QED BY <2>2, <3>1, AddsOne DEF SshInv
  <2> QED BY <1>2, <2>1, <2>2
<1>4. ended' \subseteq {"in", "all"}
  BY DEF SshInv, SshType, OpenChannel, Request, Adjusted, Data, Ending
<1>5. chan' \in [open : BOOLEAN, mine : Nat, peers : Nat]
  <2>1. chan \in [open : BOOLEAN, mine : Nat, peers : Nat] BY DEF SshInv, SshType
  <2>2. Window \in Nat BY SshBounds
  <2>3. \/ UNCHANGED chan \/ chan' = [open |-> TRUE, mine |-> Window, peers |-> m.n]
        \/ chan' = [chan EXCEPT !.peers = chan.peers + m.n]
    BY DEF OpenChannel, Request, Adjusted, Data, Ending
  <2>4. PICK n \in Nat : n = chan.peers + m.n BY <1>1, SshNumbers
  <2>5. [open |-> TRUE, mine |-> Window, peers |-> m.n] \in [open : BOOLEAN, mine : Nat, peers : Nat]
    BY <1>1, <2>2
  <2>6. [chan EXCEPT !.peers = n] \in [open : BOOLEAN, mine : Nat, peers : Nat] BY <2>1
  <2> QED BY <2>1, <2>3, <2>4, <2>5, <2>6
<1>6. pend' \in [pos : Nat, len : Nat] /\ pend'.pos <= pend'.len
  <2>1. pend \in [pos : Nat, len : Nat] /\ pend.pos <= pend.len BY DEF SshInv, SshType
  <2>2. MadeRoom \in [pos : Nat, len : Nat] /\ MadeRoom.pos <= MadeRoom.len
    BY <2>1 DEF MadeRoom
  <2>3. pend' = pend \/ pend' = MadeRoom \/ pend' = [MadeRoom EXCEPT !.len = @ + m.n]
    BY DEF OpenChannel, Request, Adjusted, Data, Ending
  <2> QED BY <1>1, <2>1, <2>2, <2>3
<1> QED BY <1>3, <1>4, <1>5, <1>6

\* What send_data gives up is no longer in hand.
LEMMA GaveUp ==
  ASSUME SshInv
  PROVE  /\ Abandoned \in CallType /\ Abandoned.left = 0
         /\ call.is = "close" => Abandoned.is = "close"
         /\ call.is # "close" => Abandoned = NoCall
         /\ Abandoned.is = "none" => Abandoned = NoCall
BY CallChanges, SshFields DEF Abandoned

LEMMA HandlesPacketKeeps == ASSUME SshInv, HandlesPacket, UNCHANGED sitting PROVE SshInv'
<1>1. PICK m : m = Head(toServer) OBVIOUS
<1>2. /\ Takes /\ phase \in {"setup", "shell", "closing"}
      /\ OpenChannel(m) \/ Request(m) \/ Adjusted(m) \/ Data(m) \/ Ending(m)
      /\ \/ /\ phase = "setup" /\ UNCHANGED <<call, flow>>
            /\ phase' \in {"closed", "shell", "setup"}
         \/ Pumped(m)
      /\ UNCHANGED <<sealIn, sealOut, tries, obuf, client>>
  BY <1>1 DEF HandlesPacket
<1>3. toServer' \in Seq(ToServerPackets) /\ m.n \in Nat BY <1>1, <1>2, TakenKeeps
<1>4. /\ Adds(0) /\ ended' \subseteq {"in", "all"}
      /\ chan' \in [open : BOOLEAN, mine : Nat, peers : Nat]
      /\ pend' \in [pos : Nat, len : Nat] /\ pend'.pos <= pend'.len
  BY <1>1, <1>2, PacketHandled
<1>5. toClient' \in Seq(ToClientPackets) BY <1>4 DEF Adds
<1>6. /\ phase' \in {"setup", "shell", "closing", "closed"} /\ (phase' = "closing" => phase = "closing")
      /\ phase' \notin {"shell", "closing"} => phase = "setup" /\ UNCHANGED call
  BY <1>2 DEF Pumped
<1>7. /\ call' \in CallType /\ call'.left \in Nat /\ flow' \in Flow /\ flow'.late = flow.late
      /\ call'.is = "none" => call' = NoCall
      /\ phase = "closing" => call'.is = "close"
      /\ flow'.said + flow.unsaid + call.left + obuf
           = flow.said + 0 + flow'.unsaid + call'.left + obuf
  <2>1. call.is = "none" => call = NoCall BY DEF SshInv, SshCalls
  <2>2. phase = "closing" => call.is = "close" BY DEF SshInv, SshCalls
  <2>3. CASE UNCHANGED <<call, flow>> BY <2>1, <2>2, <2>3, SshFields, SshNumbers
  <2>4. PICK lost \in Nat : lost = flow.lost + Overrun(m) BY <1>3, SshNumbers DEF Overrun
  <2>5. flow \in Flow /\ call \in CallType BY SshFields
  <2>6. CASE /\ call' = Abandoned
             /\ flow' = [flow EXCEPT !.lost = @ + Overrun(m), !.unsaid = @ + call.left]
    <3>1. PICK n \in Nat : n = flow.unsaid + call.left BY SshNumbers
    <3>2. flow' = [flow EXCEPT !.lost = lost, !.unsaid = n] BY <2>4, <2>6, <3>1
    <3>3. flow' \in Flow /\ flow'.said = flow.said /\ flow'.unsaid = n /\ flow'.late = flow.late
      BY <2>5, <3>2 DEF Flow
    <3>4. call' \in CallType /\ call'.left = 0 /\ (call'.is = "none" => call' = NoCall)
          /\ (call.is = "close" => call'.is = "close")
      BY <2>6, GaveUp
    <3>5. flow'.said + flow.unsaid + call.left + obuf
            = flow.said + 0 + flow'.unsaid + call'.left + obuf
      BY <3>1, <3>3, <3>4, SshNumbers
    <3> QED BY <2>2, <3>3, <3>4, <3>5
  <2>7. CASE /\ call' = IF Pumping THEN [call EXCEPT !.spins = @ + 1] ELSE call
             /\ flow' = [flow EXCEPT !.lost = @ + Overrun(m)]
    <3>1. PICK k \in Nat : k = call.spins + 1 BY SshNumbers
    <3>2. call' = call \/ (Pumping /\ call' = [call EXCEPT !.spins = k]) BY <2>7, <3>1
    <3>3. flow' = [flow EXCEPT !.lost = lost] BY <2>4, <2>7
    <3>4. /\ flow' \in Flow /\ flow'.said = flow.said /\ flow'.unsaid = flow.unsaid
          /\ flow'.late = flow.late
      BY <2>4, <2>5, <3>3, FlowChanges
    <3>5. call' \in CallType /\ call'.left = call.left /\ call'.is = call.is
      <4>1. CASE call' = call BY <2>5, <4>1
      <4>2. CASE call' = [call EXCEPT !.spins = k] BY <2>5, <4>2, CallChanges
      <4> QED BY <3>2, <4>1, <4>2
    <3>6. call'.is = "none" => call' = NoCall
      <4>1. Pumping => call.left # 0 BY SshNumbers DEF Pumping
      <4>2. NoCall.left = 0 BY DEF NoCall
      <4> QED BY <2>1, <3>2, <3>5, <4>1, <4>2
    <3>7. flow'.said + flow.unsaid + call.left + obuf
            = flow.said + 0 + flow'.unsaid + call'.left + obuf
      BY <3>4, <3>5, SshNumbers
    <3>8. call'.left \in Nat BY <3>5, SshNumbers
    <3> QED BY <2>2, <3>4, <3>5, <3>6, <3>7, <3>8
  <2> QED BY <1>2, <2>3, <2>6, <2>7 DEF Pumped
<1>8. SshType' BY <1>2, <1>3, <1>4, <1>5, <1>6, <1>7 DEF SshInv, SshType, CallType, Flow
<1>9. SshCalls'
  <2>1. phase = "setup" => call = NoCall BY DEF SshInv, SshCalls
  <2>2. phase = "closing" => obuf = 0 BY DEF SshInv, SshCalls
  <2> QED BY <1>2, <1>6, <1>7, <2>1, <2>2 DEF SshCalls
<1>10. obuf' \in Nat /\ obuf' = obuf BY <1>2, SshNumbers
<1>11. phase \notin {"draining", "closed"} BY <1>2
<1>12. UNCHANGED client BY <1>2
<1>13. SshFarewell' /\ SshBalance' BY <1>4, <1>7, <1>10, <1>11, <1>12, StillThere
<1> QED BY <1>8, <1>9, <1>13 DEF SshInv

(***************************************************************************)
(* The program's calls.                                                    *)
(***************************************************************************)
LEMMA ReadSshKeeps ==
  ASSUME SshInv, NEW n \in ReadSizes, ReadSsh(n), UNCHANGED sitting PROVE SshInv'
<1>1. /\ phase = "shell" /\ call.is = "none" /\ obuf' = 0
      /\ call' = [is |-> "read", left |-> obuf, want |-> n, spins |-> 0]
      /\ UNCHANGED <<phase, sealIn, sealOut, tries, chan, pend, ended, toClient, toServer, client,
                     flow>>
  BY DEF ReadSsh
<1>2. n \in Nat BY SshBounds
<1>3. call.left = 0 BY <1>1 DEF SshInv, SshCalls, NoCall
<1>4. call' \in CallType /\ call'.left = obuf /\ call'.is = "read"
  BY <1>1, <1>2, SshNumbers DEF CallType
<1>5. obuf' \in 0..ObufMax /\ obuf' \in Nat BY <1>1, SshNumbers
<1>6. SshType' BY <1>1, <1>4, <1>5 DEF SshInv, SshType, CallType
<1>7. SshCalls' BY <1>1, <1>4 DEF SshCalls
<1>8. Adds(0) BY <1>1, AddsNothing DEF SshInv
<1>9. flow' \in Flow /\ flow'.late = flow.late /\ call'.left \in Nat
  BY <1>1, <1>4, SshFields, SshNumbers
<1>10. flow'.said + flow.unsaid + call.left + obuf
         = flow.said + 0 + flow'.unsaid + call'.left + obuf'
  BY <1>1, <1>3, <1>4, SshNumbers
<1>11. SshFarewell' /\ SshBalance' BY <1>1, <1>5, <1>8, <1>9, <1>10, StillThere
<1> QED BY <1>6, <1>7, <1>11 DEF SshInv

LEMMA WriteSshKeeps ==
  ASSUME SshInv, NEW n \in WriteSizes, WriteSsh(n), UNCHANGED sitting PROVE SshInv'
<1>1. /\ phase = "shell" /\ call.is = "none"
      /\ call' = [is |-> "write", left |-> 0, want |-> n, spins |-> 0]
      /\ UNCHANGED <<phase, sealIn, sealOut, tries, chan, pend, obuf, ended, toClient, toServer,
                     client, flow>>
  BY DEF WriteSsh
<1>2. n \in Nat BY SshBounds
<1>3. call.left = 0 BY <1>1 DEF SshInv, SshCalls, NoCall
<1>4. call' \in CallType /\ call'.left = 0 /\ call'.is = "write" BY <1>1, <1>2 DEF CallType
<1>5. SshType' BY <1>1, <1>4 DEF SshInv, SshType, CallType
<1>6. SshCalls' BY <1>1, <1>4 DEF SshCalls
<1>7. Adds(0) BY <1>1, AddsNothing DEF SshInv
<1>8. flow' \in Flow /\ flow'.late = flow.late /\ call'.left \in Nat /\ obuf' \in Nat
  BY <1>1, <1>4, SshFields, SshNumbers
<1>9. flow'.said + flow.unsaid + call.left + obuf
         = flow.said + 0 + flow'.unsaid + call'.left + obuf'
  BY <1>1, <1>3, <1>4, SshNumbers
<1>10. SshFarewell' /\ SshBalance' BY <1>1, <1>7, <1>8, <1>9, StillThere
<1> QED BY <1>5, <1>6, <1>10 DEF SshInv

LEMMA SendDataKeeps == ASSUME SshInv, SendData, UNCHANGED sitting PROVE SshInv'
<1>1. PICK n : n = Lesser(Lesser(call.left, chan.peers), MaxPayload) OBVIOUS
<1>2. /\ phase \in {"shell", "closing"} /\ call.left > 0
      /\ toClient' = Says("data", n) /\ chan' = [chan EXCEPT !.peers = chan.peers - n]
      /\ call' = [call EXCEPT !.left = call.left - n, !.spins = 0]
      /\ UNCHANGED <<phase, sealIn, sealOut, tries, pend, obuf, ended, toServer, client, flow>>
  BY <1>1 DEF SendData
<1>3. n \in Nat /\ n <= call.left /\ n <= chan.peers
  BY <1>1, SshNumbers, SshBounds DEF Lesser
<1>4. PICK k \in Nat : k = call.left - n BY <1>3, SshNumbers
<1>5. PICK p \in Nat : p = chan.peers - n BY <1>3, SshNumbers
<1>6. call \in CallType BY SshFields
<1>7. call' \in CallType /\ call'.left = k /\ call'.is = call.is BY <1>2, <1>4, <1>6, CallChanges
<1>8. chan' \in [open : BOOLEAN, mine : Nat, peers : Nat] BY <1>2, <1>5 DEF SshInv, SshType
<1>9. Adds(n) BY <1>2, <1>3, AddsOne DEF SshInv
<1>10. SshType' BY <1>2, <1>7, <1>8, <1>9 DEF SshInv, SshType, CallType, Adds
<1>11. call.is # "none"
  <2>1. call.left # 0 BY <1>2, SshNumbers
  <2> QED BY <2>1 DEF SshInv, SshCalls, NoCall
<1>12. SshCalls' BY <1>2, <1>7, <1>11 DEF SshInv, SshCalls
<1>13. flow' \in Flow /\ flow'.late = flow.late /\ call'.left \in Nat /\ obuf' \in Nat
  BY <1>2, <1>7, SshFields, SshNumbers
<1>14. flow'.said + flow.unsaid + call.left + obuf
         = flow.said + n + flow'.unsaid + call'.left + obuf'
  BY <1>2, <1>3, <1>4, <1>7, SshNumbers
<1>15. SshFarewell' /\ SshBalance' BY <1>2, <1>3, <1>9, <1>13, <1>14, StillThere
<1> QED BY <1>10, <1>12, <1>15 DEF SshInv

LEMMA GivesUpKeeps == ASSUME SshInv, GivesUp, UNCHANGED sitting PROVE SshInv'
<1>1. PICK n \in Nat : n = flow.unsaid + call.left BY SshNumbers
<1>2. /\ phase \in {"shell", "closing"} /\ call' = Abandoned /\ flow' = [flow EXCEPT !.unsaid = n]
      /\ ended' \subseteq ended \cup {"all"}
      /\ UNCHANGED <<phase, sealIn, sealOut, tries, chan, pend, obuf, toClient, toServer, client>>
  BY <1>1 DEF GivesUp
<1>3. flow \in Flow BY SshFields
<1>4. flow' \in Flow /\ flow'.said = flow.said /\ flow'.unsaid = n /\ flow'.late = flow.late
  BY <1>2, <1>3, FlowChanges
<1>5. /\ call' \in CallType /\ call'.left = 0 /\ (call'.is = "none" => call' = NoCall)
      /\ call.is = "close" => call'.is = "close"
  BY <1>2, GaveUp
<1>6. SshType' BY <1>2, <1>4, <1>5 DEF SshInv, SshType, CallType, Flow
<1>7. SshCalls' BY <1>2, <1>5 DEF SshInv, SshCalls
<1>8. Adds(0) BY <1>2, AddsNothing DEF SshInv
<1>9. call'.left \in Nat /\ obuf' \in Nat BY <1>2, <1>5, SshNumbers
<1>10. flow'.said + flow.unsaid + call.left + obuf
         = flow.said + 0 + flow'.unsaid + call'.left + obuf'
  BY <1>1, <1>2, <1>4, <1>5, SshNumbers
<1>11. SshFarewell' /\ SshBalance' BY <1>2, <1>4, <1>8, <1>9, <1>10, StillThere
<1> QED BY <1>6, <1>7, <1>11 DEF SshInv

LEMMA ReadDoneKeeps == ASSUME SshInv, ReadDone, UNCHANGED sitting PROVE SshInv'
<1>1. PICK n : n = Lesser(Unread, call.want) OBVIOUS
<1>2. /\ phase = "shell" /\ call.left = 0 /\ Unread > 0 /\ TopUp(n) /\ call' = NoCall
      /\ pend' = IF n = Unread THEN [pos |-> 0, len |-> 0] ELSE [pend EXCEPT !.pos = pend.pos + n]
      /\ UNCHANGED <<phase, sealIn, sealOut, tries, obuf, ended, toServer, client, flow>>
  BY <1>1 DEF ReadDone
<1>3. pend.pos <= pend.len BY DEF SshInv, SshType
<1>4. n \in Nat /\ n <= pend.len - pend.pos /\ Unread \in Nat
  BY <1>1, <1>3, SshNumbers DEF Lesser, Unread
<1>5. pend' \in [pos : Nat, len : Nat] /\ pend'.pos <= pend'.len
  <2>1. PICK p \in Nat : p = pend.pos + n /\ p <= pend.len BY <1>3, <1>4, SshNumbers
  <2>2. pend' = [pos |-> 0, len |-> 0] \/ pend' = [pend EXCEPT !.pos = p] BY <1>2, <2>1
  <2>3. pend \in [pos : Nat, len : Nat] BY DEF SshInv, SshType
  <2> QED BY <2>1, <2>2, <2>3
<1>6. PICK mine : mine = IF chan.mine > n THEN chan.mine - n ELSE 0 OBVIOUS
<1>7. mine \in Nat BY <1>4, <1>6, SshNumbers
<1>8. /\ Adds(0) /\ chan' \in [open : BOOLEAN, mine : Nat, peers : Nat]
  <2>1. chan \in [open : BOOLEAN, mine : Nat, peers : Nat] BY DEF SshInv, SshType
  <2>2. CASE mine > Window \div 2
    <3>1. chan' = [chan EXCEPT !.mine = mine] /\ UNCHANGED toClient BY <1>2, <1>6, <2>2 DEF TopUp
    <3> QED BY <1>7, <2>1, <3>1, AddsNothing DEF SshInv
  <2>3. CASE ~(mine > Window \div 2)
    <3>1. chan' = [chan EXCEPT !.mine = Window] /\ toClient' = Says("adjust", Window - mine)
      BY <1>2, <1>6, <2>3 DEF TopUp
    <3>2. PICK k \in Nat : k = Window - mine BY <1>7, <2>3, SshBounds
    <3>3. Adds(0) BY <3>1, <3>2, AddsOne DEF SshInv
    <3>4. Window \in Nat BY SshBounds
    <3> QED BY <2>1, <3>1, <3>3, <3>4
  <2> QED BY <2>2, <2>3
<1>9. NoCall \in CallType /\ NoCall.is = "none" /\ NoCall.left = 0 BY DEF NoCall, CallType
<1>10. SshType' BY <1>2, <1>5, <1>8, <1>9 DEF SshInv, SshType, CallType, Adds
<1>11. SshCalls' BY <1>2, <1>9 DEF SshCalls
<1>12. flow' \in Flow /\ flow'.late = flow.late /\ call'.left \in Nat /\ obuf' \in Nat
  BY <1>2, <1>9, SshFields, SshNumbers
<1>13. flow'.said + flow.unsaid + call.left + obuf
         = flow.said + 0 + flow'.unsaid + call'.left + obuf'
  BY <1>2, <1>9, SshNumbers
<1>14. SshFarewell' /\ SshBalance' BY <1>2, <1>8, <1>12, <1>13, StillThere
<1> QED BY <1>10, <1>11, <1>14 DEF SshInv

LEMMA ReadFailsKeeps == ASSUME SshInv, ReadFails, UNCHANGED sitting PROVE SshInv'
<1>1. /\ phase = "shell" /\ call.left = 0 /\ call' = NoCall
      /\ UNCHANGED <<phase, sealIn, sealOut, tries, chan, pend, obuf, ended, toClient, toServer,
                     client, flow>>
  BY DEF ReadFails
<1>2. NoCall \in CallType /\ NoCall.is = "none" /\ NoCall.left = 0 BY DEF NoCall, CallType
<1>3. SshType' BY <1>1, <1>2 DEF SshInv, SshType, CallType
<1>4. SshCalls' BY <1>1, <1>2 DEF SshCalls
<1>5. Adds(0) BY <1>1, AddsNothing DEF SshInv
<1>6. flow' \in Flow /\ flow'.late = flow.late /\ call'.left \in Nat /\ obuf' \in Nat
  BY <1>1, <1>2, SshFields, SshNumbers
<1>7. flow'.said + flow.unsaid + call.left + obuf
        = flow.said + 0 + flow'.unsaid + call'.left + obuf'
  BY <1>1, <1>2, SshNumbers
<1>8. SshFarewell' /\ SshBalance' BY <1>1, <1>5, <1>6, <1>7, StillThere
<1> QED BY <1>3, <1>4, <1>8 DEF SshInv

(***************************************************************************)
(* The end of a session.                                                   *)
(***************************************************************************)
LEMMA CloseSshKeeps == ASSUME SshInv, CloseSsh, UNCHANGED sitting PROVE SshInv'
<1>1. /\ phase = "shell" /\ call = NoCall
      /\ \/ phase' = "draining" /\ UNCHANGED <<call, obuf>>
         \/ /\ phase' = "closing" /\ obuf' = 0
            /\ call' = [is |-> "close", left |-> obuf, want |-> 0, spins |-> 0]
      /\ UNCHANGED <<sealIn, sealOut, tries, chan, pend, ended, toClient, toServer, client, flow>>
  BY DEF CloseSsh, SshInv, SshCalls
<1>2. NoCall \in CallType /\ NoCall.is = "none" /\ NoCall.left = 0 BY DEF NoCall, CallType
<1>3. /\ call' \in CallType /\ call'.left \in Nat /\ obuf' \in Nat /\ obuf' \in 0..ObufMax
      /\ call'.is = "none" => call' = NoCall
      /\ call'.left + obuf' = obuf
      /\ phase' = "draining" => call' = NoCall
      /\ phase' = "closing" => obuf' = 0 /\ call'.is = "close"
  <2>1. CASE phase' = "draining" /\ UNCHANGED <<call, obuf>> BY <1>1, <1>2, <2>1, SshNumbers
  <2>2. CASE /\ phase' = "closing" /\ obuf' = 0
             /\ call' = [is |-> "close", left |-> obuf, want |-> 0, spins |-> 0]
    <3>1. call' \in CallType /\ call'.left = obuf /\ call'.is = "close"
      BY <2>2, SshNumbers DEF CallType
    <3> QED BY <2>2, <3>1, SshNumbers
  <2> QED BY <1>1, <2>1, <2>2
<1>4. phase' \in {"draining", "closing"} BY <1>1
<1>5. SshType' BY <1>1, <1>3, <1>4 DEF SshInv, SshType, CallType
<1>6. SshCalls' BY <1>3, <1>4 DEF SshCalls
<1>7. Adds(0) BY <1>1, AddsNothing DEF SshInv
<1>8. flow' \in Flow /\ flow'.late = flow.late BY <1>1, SshFields
<1>9. flow'.said + flow.unsaid + call.left + obuf
        = flow.said + 0 + flow'.unsaid + call'.left + obuf'
  BY <1>1, <1>2, <1>3, SshNumbers
<1>10. SshFarewell' /\ SshBalance' BY <1>1, <1>3, <1>7, <1>8, <1>9, StillThere
<1> QED BY <1>5, <1>6, <1>10 DEF SshInv

\* The close is the last of what the client has to hear, and nothing is in hand.
LEMMA FarewellKeeps == ASSUME SshInv, Farewell, UNCHANGED sitting PROVE SshInv'
<1>1. /\ phase = "closing" /\ call.left = 0 /\ phase' = "draining" /\ call' = NoCall
      /\ toClient' = Goodbyes(<<"status", "eof", "close">>)
      /\ UNCHANGED <<sealIn, sealOut, tries, chan, pend, obuf, ended, toServer, client, flow>>
  BY DEF Farewell
<1>2. PICK a : a = Packet("status", 0, sealOut) OBVIOUS
<1>3. PICK b : b = Packet("eof", 0, sealOut) OBVIOUS
<1>4. PICK c : c = Packet("close", 0, sealOut) OBVIOUS
<1>5. toClient' = toClient \o <<a, b, c>>
  <2>1. PICK kinds : kinds = <<"status", "eof", "close">> OBVIOUS
  <2>2. DOMAIN kinds = {1, 2, 3} /\ kinds[1] = "status" /\ kinds[2] = "eof" /\ kinds[3] = "close"
    BY <2>1
  <2>3. [i \in DOMAIN kinds |-> Packet(kinds[i], 0, sealOut)] = <<a, b, c>>
    BY <1>2, <1>3, <1>4, <2>1, <2>2
  <2> QED BY <1>1, <2>1, <2>3 DEF Goodbyes
<1>6. sealOut \in BOOLEAN BY DEF SshInv, SshType
<1>7. /\ a \in ToClientPackets /\ b \in ToClientPackets /\ c \in ToClientPackets
      /\ a.is = "status" /\ b.is = "eof" /\ c.is = "close"
  BY <1>2, <1>3, <1>4, <1>6 DEF Packet, ToClientPackets
<1>8. ~client.saw /\ ~HasClose(toClient) BY <1>1, NotClosed
<1>9. /\ toClient' \in Seq(ToClientPackets) /\ Told(toClient') = Told(toClient)
      /\ CloseLast(toClient')
  BY <1>5, <1>7, <1>8, ThreeMore, SshFields
<1>10. NoCall \in CallType /\ NoCall.is = "none" /\ NoCall.left = 0 BY DEF NoCall, CallType
<1>11. SshType' BY <1>1, <1>9, <1>10 DEF SshInv, SshType, CallType
<1>12. SshCalls' BY <1>1 DEF SshCalls
<1>13. obuf' = 0 BY <1>1 DEF SshInv, SshCalls
<1>14. SshFarewell' BY <1>1, <1>8, <1>9, <1>13 DEF SshInv, SshFarewell
<1>15. SshBalance' BY <1>1, <1>8, <1>9, <1>10 DEF SshInv, SshBalance
<1> QED BY <1>11, <1>12, <1>14, <1>15 DEF SshInv

LEMMA DrainClientKeeps == ASSUME SshInv, DrainClient, UNCHANGED sitting PROVE SshInv'
<1>1. /\ phase = "draining" /\ phase' \in {"draining", "closed"}
      /\ toServer' = toServer \/ (toServer # <<>> /\ toServer' = Tail(toServer))
      /\ UNCHANGED <<sealIn, sealOut, tries, chan, pend, obuf, ended, call, toClient, client, flow>>
  BY DEF DrainClient
<1>2. toServer \in Seq(ToServerPackets) BY DEF SshInv, SshType
<1>3. toServer' \in Seq(ToServerPackets) BY <1>1, <1>2
<1>4. SshType' BY <1>1, <1>3 DEF SshInv, SshType
<1>5. SshCalls' BY <1>1 DEF SshInv, SshCalls
<1>6. SshFarewell' BY <1>1 DEF SshInv, SshFarewell
<1>7. SshBalance' BY <1>1 DEF SshInv, SshBalance
<1> QED BY <1>4, <1>5, <1>6, <1>7 DEF SshInv

LEMMA PastDeadlineKeeps == ASSUME SshInv, PastDeadline, UNCHANGED sitting PROVE SshInv'
<1>1. /\ phase = "draining" /\ phase' = "closed" /\ toServer' = <<>>
      /\ toClient' = <<>> \/ toClient' = toClient \/ toClient' = Says("disconnect", 0)
      /\ flow' = [flow EXCEPT !.late = TRUE]
      /\ UNCHANGED <<sealIn, sealOut, tries, chan, pend, obuf, ended, call, client>>
  BY DEF PastDeadline
<1>2. flow' \in Flow /\ flow'.late BY <1>1, SshFields DEF Flow
<1>3. toClient' \in Seq(ToClientPackets) /\ (HasClose(toClient') => HasClose(toClient))
  <2>1. CASE toClient' = <<>> BY <2>1, NothingTold
  <2>2. CASE toClient' = toClient BY <2>2, SshFields
  <2>3. CASE toClient' = Says("disconnect", 0)
    <3>1. Adds(0) BY <2>3, AddsOne DEF SshInv
    <3> QED BY <3>1 DEF Adds
  <2> QED BY <1>1, <2>1, <2>2, <2>3
<1>4. toServer' \in Seq(ToServerPackets) BY <1>1
<1>5. SshType' BY <1>1, <1>2, <1>3, <1>4 DEF SshInv, SshType, Flow
<1>6. SshCalls' BY <1>1 DEF SshInv, SshCalls
<1>7. SshFarewell' BY <1>1, <1>2, <1>3 DEF SshInv, SshFarewell
<1>8. SshBalance' BY <1>2 DEF SshBalance
<1> QED BY <1>5, <1>6, <1>7, <1>8 DEF SshInv

LEMMA CutKeeps == ASSUME SshInv, Cut, UNCHANGED sitting PROVE SshInv'
<1>1. /\ phase # "closed" /\ toClient' = <<>> /\ toServer' = <<>>
      /\ client' = IF client.at = "gone" THEN client
                   ELSE [client EXCEPT !.at = "gone", !.end = "cut"]
      /\ ended' = ended \cup {"all"} /\ call' = Abandoned
      /\ phase' = IF phase \in {"shell", "closing"} THEN phase ELSE "closed"
      /\ UNCHANGED <<sealIn, sealOut, tries, chan, pend, obuf, flow>>
  BY DEF Cut
<1>2. client \in ClientType BY SshFields
<1>3. /\ client' \in ClientType /\ client'.at = "gone" /\ client'.saw = client.saw
      /\ client' = client \/ client'.end = "cut"
  <2>1. CASE client.at = "gone" BY <1>1, <1>2, <2>1
  <2>2. CASE client.at # "gone"
    <3>1. client' = [client EXCEPT !.at = "gone", !.end = "cut"] BY <1>1, <2>2
    <3> QED BY <1>2, <3>1 DEF ClientType
  <2> QED BY <2>1, <2>2
<1>4. /\ call' \in CallType /\ (call'.is = "none" => call' = NoCall)
      /\ call.is = "close" => call'.is = "close"
      /\ call.is # "close" => call' = NoCall
  BY <1>1, GaveUp
<1>5. toClient' \in Seq(ToClientPackets) /\ toServer' \in Seq(ToServerPackets) BY <1>1
<1>6. SshType' BY <1>1, <1>3, <1>4, <1>5 DEF SshInv, SshType, CallType
<1>7. SshCalls'
  <2>1. phase \notin {"shell", "closing"} => call' = NoCall
    <3>1. NoCall.is = "none" BY DEF NoCall
    <3> QED BY <1>4, <3>1 DEF SshInv, SshCalls
  <2>2. phase' = "closing" => phase = "closing" BY <1>1
  <2>3. phase' \notin {"shell", "closing"} => phase \notin {"shell", "closing"} BY <1>1
  <2> QED BY <1>1, <1>4, <2>1, <2>2, <2>3 DEF SshInv, SshCalls
<1>8. SshFarewell'
  <2>1. client.saw => phase' \in {"draining", "closed"} /\ obuf' = 0
    BY <1>1 DEF SshInv, SshFarewell
  <2> QED BY <1>1, <1>3, <2>1, NothingTold DEF SshInv, SshFarewell
<1>9. SshBalance'
  <2>1. ASSUME client'.saw, client'.end = "closed", ~flow'.late
        PROVE  flow'.said = client'.shown + flow'.unsaid
    <3>1. client' = client /\ flow' = flow BY <1>1, <1>3, <2>1
    <3> QED BY <2>1, <3>1 DEF SshInv, SshBalance
  <2> QED BY <1>3, <2>1 DEF SshBalance
<1> QED BY <1>6, <1>7, <1>8, <1>9 DEF SshInv

(***************************************************************************)
(* The client.                                                             *)
(***************************************************************************)
\* A step of the client that hears nothing and does not leave.
LEMMA ClientActs ==
  ASSUME SshInv, UNCHANGED <<sessionVars, toClient, flow, sitting>>,
         client' \in ClientType, toServer' \in Seq(ToServerPackets),
         client.at # "gone", client'.at # "gone", client'.saw = client.saw, client'.end = client.end,
         client'.shown + client'.heard = client.shown + client.heard
  PROVE  SshInv'
<1>1. /\ UNCHANGED <<phase, sealIn, sealOut, tries, chan, pend, obuf, ended, call, toClient, flow,
                     sitting>>
  BY DEF sessionVars
<1>2. SshType' BY <1>1 DEF SshInv, SshType
<1>3. SshCalls' BY <1>1 DEF SshInv, SshCalls
<1>4. SshFarewell' BY <1>1 DEF SshInv, SshFarewell
<1>5. SshBalance'
  <2>1. client.end = "none" BY DEF SshInv, SshFarewell
  <2>2. client'.heard \in Nat /\ client'.shown \in Nat BY DEF ClientType
  <2>3. PICK told \in Nat : told = Told(toClient) BY SshNumbers
  <2>4. ASSUME ~flow.late
        PROVE  flow.said = client'.shown + client'.heard + told + flow.unsaid + call.left + obuf
    <3>1. flow.said = client.shown + client.heard + told + flow.unsaid + call.left + obuf
      BY <2>3, <2>4 DEF SshInv, SshBalance
    <3> QED BY <2>2, <3>1, SshNumbers
  <2> QED BY <1>1, <2>1, <2>3, <2>4 DEF SshBalance
<1> QED BY <1>2, <1>3, <1>4, <1>5 DEF SshInv

\* What a client may say is what the driver may read.
ClientKinds ==
  {"kexinit", "kexinit right", "kexinit wrong", "kexinit strange", "ecdh", "other", "newkeys",
   "open", "global", "shell", "pty", "unknown", "change", "data", "eof", "adjust", "disconnect",
   "rekey"} \cup Questions \cup Attempts \cup Proofs

LEMMA ClientPacket ==
  ASSUME SshInv, NEW is \in ClientKinds, NEW n \in Nat
  PROVE  /\ ByClient(is, n) \in Seq(ToServerPackets)
         /\ toServer \o ByClient(is, n) \in Seq(ToServerPackets)
<1>1. client.sealOut \in BOOLEAN BY SshFields DEF ClientType
<1>2. Packet(is, n, client.sealOut) \in ToServerPackets
  BY <1>1 DEF Packet, ToServerPackets, ClientKinds
<1>3. ByClient(is, n) \in Seq(ToServerPackets) BY <1>2 DEF ByClient
<1>4. toServer \in Seq(ToServerPackets) BY DEF SshInv, SshType
<1> QED BY <1>3, <1>4

LEMMA HelloKeeps == ASSUME SshInv, Hello, UNCHANGED sitting PROVE SshInv'
<1>1. PICK guess \in {"kexinit", "kexinit right", "kexinit wrong", "kexinit strange"} :
        ClientSays([client EXCEPT !.at = "offered", !.guess = guess],
                   ByClient(guess, 0) \o (CASE guess = "kexinit right" -> ByClient("ecdh", 0)
                                            [] guess = "kexinit wrong" -> ByClient("other", 0)
                                            [] OTHER -> <<>>))
  BY DEF Hello
<1>2. PICK rest : rest = CASE guess = "kexinit right" -> ByClient("ecdh", 0)
                           [] guess = "kexinit wrong" -> ByClient("other", 0)
                           [] OTHER -> <<>>
  OBVIOUS
<1>3. /\ client' = [client EXCEPT !.at = "offered", !.guess = guess]
      /\ toServer' = toServer \o (ByClient(guess, 0) \o rest)
      /\ UNCHANGED <<sessionVars, toClient, flow>>
  BY <1>1, <1>2 DEF ClientSays
<1>4. /\ ByClient(guess, 0) \in Seq(ToServerPackets) /\ ByClient("ecdh", 0) \in Seq(ToServerPackets)
      /\ ByClient("other", 0) \in Seq(ToServerPackets)
  BY <1>1, ClientPacket DEF ClientKinds
<1>5. rest \in Seq(ToServerPackets)
  <2>1. CASE guess = "kexinit right" BY <1>2, <1>4, <2>1
  <2>2. CASE guess = "kexinit wrong" BY <1>2, <1>4, <2>2
  <2>3. CASE guess \notin {"kexinit right", "kexinit wrong"}
    <3>1. rest = <<>> BY <1>2, <2>3
    <3>2. <<>> \in Seq(ToServerPackets) BY EmptySeq
    <3> QED BY <3>1, <3>2
  <2> QED BY <2>1, <2>2, <2>3
<1>6. toServer \in Seq(ToServerPackets) BY DEF SshInv, SshType
<1>7. toServer' \in Seq(ToServerPackets)
  <2>1. PICK both : both = ByClient(guess, 0) \o rest OBVIOUS
  <2>2. both \in Seq(ToServerPackets)
    <3>1. ByClient(guess, 0) \o rest \in Seq(ToServerPackets) BY <1>4, <1>5, ConcatProperties
    <3> QED BY <2>1, <3>1
  <2>3. toServer \o both \in Seq(ToServerPackets) BY <1>6, <2>2, ConcatProperties
  <2> QED BY <1>3, <2>1, <2>3
<1>8. client \in ClientType /\ client.at = "hello" BY SshFields DEF Hello
<1>9. /\ client' \in ClientType /\ client'.at # "gone" /\ client'.saw = client.saw
      /\ client'.end = client.end /\ client'.shown = client.shown /\ client'.heard = client.heard
  BY <1>1, <1>3, <1>8 DEF ClientType
<1>10. client.at # "gone" BY <1>8
<1> QED BY <1>3, <1>7, <1>9, <1>10, ClientActs

AskKinds == {"open", "global", "shell", "pty", "unknown"} \cup Questions \cup Attempts \cup Proofs

LEMMA AsksLoginKeeps == ASSUME SshInv, AsksLogin, UNCHANGED sitting PROVE SshInv'
<1>1. PICK is \in Questions \cup Attempts \cup Proofs :
        ClientSays([client EXCEPT !.asked = <<is>>, !.asks = @ + 1], ByClient(is, 0))
  BY DEF AsksLogin
<1>2. client \in ClientType /\ client.at = "exchanging" /\ client.asks \in Nat
  BY SshFields DEF AsksLogin, Here, ClientType
<1>3. PICK n \in Nat : n = client.asks + 1 BY <1>2
<1>4. PICK asked : asked = <<is>> OBVIOUS
<1>5. /\ client' = [client EXCEPT !.asked = asked, !.asks = n]
      /\ toServer' = toServer \o ByClient(is, 0) /\ UNCHANGED <<sessionVars, toClient, flow>>
  BY <1>1, <1>3, <1>4 DEF ClientSays
<1>6. is \in AskKinds /\ is \in ClientKinds BY DEF AskKinds, ClientKinds
<1>7. asked \in Seq(AskKinds) BY <1>4, <1>6
<1>8. /\ client' \in ClientType /\ client'.at # "gone" /\ client'.saw = client.saw
      /\ client'.end = client.end /\ client'.shown = client.shown /\ client'.heard = client.heard
  BY <1>2, <1>5, <1>7 DEF ClientType, AskKinds
<1>9. toServer' \in Seq(ToServerPackets) BY <1>5, <1>6, ClientPacket
<1>10. client.at # "gone" BY <1>2
<1> QED BY <1>5, <1>8, <1>9, <1>10, ClientActs

LEMMA AsksForKeeps == ASSUME SshInv, AsksFor, UNCHANGED sitting PROVE SshInv'
<1>1. PICK is \in {"open", "global", "shell", "pty", "unknown", "change"} :
        ClientSays([client EXCEPT !.asked = IF is = "change" THEN @ ELSE Append(@, is),
                                  !.asks = @ + 1],
                   ByClient(is, IF is = "open" THEN sitting.window ELSE 0))
  BY DEF AsksFor
<1>2. client \in ClientType /\ client.at = "exchanging" /\ client.asks \in Nat
      /\ client.asked \in Seq(AskKinds)
  BY SshFields DEF AsksFor, Here, ClientType, AskKinds
<1>3. PICK n \in Nat : n = client.asks + 1 BY <1>2
<1>4. PICK asked : asked = IF is = "change" THEN client.asked ELSE Append(client.asked, is) OBVIOUS
<1>5. PICK k : k = IF is = "open" THEN sitting.window ELSE 0 OBVIOUS
<1>6. k \in Nat BY <1>5, SshBounds DEF SshInv, SshType
<1>7. /\ client' = [client EXCEPT !.asked = asked, !.asks = n]
      /\ toServer' = toServer \o ByClient(is, k) /\ UNCHANGED <<sessionVars, toClient, flow>>
  BY <1>1, <1>3, <1>4, <1>5 DEF ClientSays
<1>8. is \in ClientKinds /\ (is # "change" => is \in AskKinds) BY DEF AskKinds, ClientKinds
<1>9. asked \in Seq(AskKinds) BY <1>2, <1>4, <1>8
<1>10. /\ client' \in ClientType /\ client'.at # "gone" /\ client'.saw = client.saw
       /\ client'.end = client.end /\ client'.shown = client.shown /\ client'.heard = client.heard
  BY <1>2, <1>7, <1>9 DEF ClientType, AskKinds
<1>11. toServer' \in Seq(ToServerPackets) BY <1>6, <1>7, <1>8, ClientPacket
<1>12. client.at # "gone" BY <1>2
<1> QED BY <1>7, <1>10, <1>11, <1>12, ClientActs

LEMMA TypesKeeps ==
  ASSUME SshInv, (\E n \in 1..MaxPayload : Types(n)) \/ TypesEof \/ Rekeys, UNCHANGED sitting
  PROVE  SshInv'
<1>1. client \in ClientType /\ client.at = "exchanging"
  BY SshFields DEF Types, TypesEof, Rekeys, Here
<1>2. client.typed \in Nat /\ client.credit \in Nat BY <1>1 DEF ClientType
<1>3. /\ UNCHANGED <<sessionVars, toClient, flow>> /\ toServer' \in Seq(ToServerPackets)
      /\ client' \in ClientType /\ client'.at = "exchanging" /\ client'.saw = client.saw
      /\ client'.end = client.end /\ client'.shown = client.shown /\ client'.heard = client.heard
  <2>1. ASSUME NEW n \in 1..MaxPayload, Types(n)
        PROVE  /\ UNCHANGED <<sessionVars, toClient, flow>> /\ toServer' \in Seq(ToServerPackets)
               /\ client' \in ClientType /\ client'.at = "exchanging" /\ client'.saw = client.saw
               /\ client'.end = client.end /\ client'.shown = client.shown
               /\ client'.heard = client.heard
    <3>1. n \in Nat BY SshBounds
    <3>2. n <= client.credit BY <2>1 DEF Types
    <3>3. PICK t \in Nat : t = client.typed + n BY <1>2, <3>1
    <3>4. PICK c \in Nat : c = client.credit - n BY <1>2, <3>1, <3>2
    <3>5. /\ client' = [client EXCEPT !.typed = t, !.credit = c]
          /\ toServer' = toServer \o ByClient("data", n) /\ UNCHANGED <<sessionVars, toClient, flow>>
      BY <2>1, <3>3, <3>4 DEF Types, ClientSays
    <3>6. toServer' \in Seq(ToServerPackets) BY <3>1, <3>5, ClientPacket DEF ClientKinds
    <3>7. /\ client' \in ClientType /\ client'.at = "exchanging" /\ client'.saw = client.saw
          /\ client'.end = client.end /\ client'.shown = client.shown /\ client'.heard = client.heard
      BY <1>1, <3>5 DEF ClientType
    <3> QED BY <3>5, <3>6, <3>7
  <2>2. CASE TypesEof
    <3>1. /\ client' = [client EXCEPT !.eof = TRUE]
          /\ toServer' = toServer \o ByClient("eof", 0) /\ UNCHANGED <<sessionVars, toClient, flow>>
      BY <2>2 DEF TypesEof, ClientSays
    <3>2. toServer' \in Seq(ToServerPackets) BY <3>1, ClientPacket DEF ClientKinds
    <3>3. /\ client' \in ClientType /\ client'.at = "exchanging" /\ client'.saw = client.saw
          /\ client'.end = client.end /\ client'.shown = client.shown /\ client'.heard = client.heard
      BY <1>1, <3>1 DEF ClientType
    <3> QED BY <3>1, <3>2, <3>3
  <2>3. CASE Rekeys
    <3>1. PICK n : n = sitting.asks OBVIOUS
    <3>2. n \in Nat BY <3>1, SshBounds DEF SshInv, SshType
    <3>3. /\ client' = [client EXCEPT !.asks = n]
          /\ toServer' = toServer \o ByClient("rekey", 0) /\ UNCHANGED <<sessionVars, toClient, flow>>
      BY <2>3, <3>1 DEF Rekeys, ClientSays
    <3>4. toServer' \in Seq(ToServerPackets) BY <3>3, ClientPacket DEF ClientKinds
    <3>5. /\ client' \in ClientType /\ client'.at = "exchanging" /\ client'.saw = client.saw
          /\ client'.end = client.end /\ client'.shown = client.shown /\ client'.heard = client.heard
      BY <1>1, <3>2, <3>3 DEF ClientType
    <3> QED BY <3>3, <3>4, <3>5
  <2> QED BY <2>1, <2>2, <2>3
<1>4. client.at # "gone" /\ client'.at # "gone" BY <1>1, <1>3
<1> QED BY <1>3, <1>4, ClientActs

LEMMA ShowsKeeps == ASSUME SshInv, Shows, UNCHANGED sitting PROVE SshInv'
<1>1. PICK n \in Nat : n = client.shown + client.heard BY SshNumbers
<1>2. PICK packets :
        packets = IF phase = "closed" \/ client.saw THEN <<>> ELSE ByClient("adjust", client.heard)
  OBVIOUS
<1>3. /\ client.at = "exchanging" /\ client' = [client EXCEPT !.heard = 0, !.shown = n]
      /\ toServer' = toServer \o packets /\ UNCHANGED <<sessionVars, toClient, flow>>
  BY <1>1, <1>2 DEF Shows, ClientSays
<1>4. toServer' \in Seq(ToServerPackets)
  <2>1. toServer \in Seq(ToServerPackets) BY DEF SshInv, SshType
  <2>2. client.heard \in Nat BY SshNumbers
  <2>3. toServer \o ByClient("adjust", client.heard) \in Seq(ToServerPackets)
    BY <2>2, ClientPacket DEF ClientKinds
  <2>4. toServer \o <<>> = toServer BY <2>1
  <2> QED BY <1>2, <1>3, <2>1, <2>3, <2>4
<1>5. client \in ClientType BY SshFields
<1>6. /\ client' \in ClientType /\ client'.at = "exchanging" /\ client'.saw = client.saw
      /\ client'.end = client.end /\ client'.shown = n /\ client'.heard = 0
  BY <1>3, <1>5 DEF ClientType
<1>7. client'.shown + client'.heard = client.shown + client.heard BY <1>1, <1>6, SshNumbers
<1>8. client.at # "gone" /\ client'.at # "gone" BY <1>3, <1>6
<1> QED BY <1>3, <1>4, <1>6, <1>7, <1>8, ClientActs

\* Who leaves because its channel is closed has shown what was said.
LEMMA ClientLeavesKeeps == ASSUME SshInv, ClientLeaves, UNCHANGED sitting PROVE SshInv'
<1>1. PICK how \in {"closed", "left"} :
        /\ client.at = "exchanging" /\ client' = [client EXCEPT !.at = "gone", !.end = how]
        /\ IF how = "closed" THEN client.saw /\ client.heard = 0 ELSE ~client.saw
        /\ toServer' = toServer \o <<>> \/ toServer' = toServer \o ByClient("disconnect", 0)
        /\ UNCHANGED <<sessionVars, toClient, flow>>
  BY DEF ClientLeaves, ClientSays, LeftAs, Here
<1>2. /\ UNCHANGED <<phase, sealIn, sealOut, tries, chan, pend, obuf, ended, call, toClient, flow,
                     sitting>>
  BY <1>1 DEF sessionVars
<1>3. toServer' \in Seq(ToServerPackets)
  <2>1. toServer \in Seq(ToServerPackets) BY DEF SshInv, SshType
  <2>2. toServer \o ByClient("disconnect", 0) \in Seq(ToServerPackets)
    BY ClientPacket DEF ClientKinds
  <2>3. toServer \o <<>> = toServer BY <2>1
  <2> QED BY <1>1, <2>1, <2>2, <2>3
<1>4. client \in ClientType BY SshFields
<1>5. /\ client' \in ClientType /\ client'.at = "gone" /\ client'.saw = client.saw
      /\ client'.end = how /\ client'.shown = client.shown
  <2>1. PICK c : c = [client EXCEPT !.at = "gone"] OBVIOUS
  <2>2. client' = [client EXCEPT !.at = "gone", !.end = how] BY <1>1
  <2> QED BY <1>4, <2>2 DEF ClientType
<1>6. SshType' BY <1>2, <1>3, <1>5 DEF SshInv, SshType
<1>7. SshCalls' BY <1>2 DEF SshInv, SshCalls
<1>8. SshFarewell' BY <1>1, <1>2, <1>5 DEF SshInv, SshFarewell
<1>9. SshBalance'
  <2>1. ASSUME client.saw, how = "closed", ~flow.late PROVE flow.said = client.shown + flow.unsaid
    <3>1. flow.said = client.shown + client.heard + Told(toClient) + flow.unsaid + call.left + obuf
      BY <1>1, <2>1 DEF SshInv, SshBalance
    <3>2. toClient = <<>> /\ phase \in {"draining", "closed"} /\ obuf = 0
      BY <2>1 DEF SshInv, SshFarewell
    <3>3. call.left = 0 BY <3>2 DEF SshInv, SshCalls, NoCall
    <3>4. client.heard = 0 BY <1>1, <2>1
    <3>5. Told(toClient) = 0 BY <3>2, NothingTold
    <3> QED BY <3>1, <3>2, <3>3, <3>4, <3>5, SshNumbers
  <2> QED BY <1>2, <1>5, <2>1 DEF SshBalance
<1> QED BY <1>6, <1>7, <1>8, <1>9 DEF SshInv

\* What it makes of a packet: of bytes, it has heard so many more; of a close, it
\* has seen one; of a goodbye, it is gone.
LEMMA Understands ==
  ASSUME SshInv, client.at \in {"offered", "exchanging"}, NEW m \in ToClientPackets
  PROVE  /\ Understood(m) \in ClientType
         /\ Understood(m).shown = client.shown
         /\ Understood(m).heard = IF m.is = "data" THEN client.heard + m.n ELSE client.heard
         /\ Understood(m).saw = IF m.is = "close" THEN TRUE ELSE client.saw
         /\ Understood(m).end = IF m.is = "disconnect" THEN "told" ELSE client.end
         /\ Understood(m).at = "gone" <=> m.is = "disconnect"
<1>1. client \in ClientType /\ client.heard \in Nat /\ client.credit \in Nat
  BY SshFields, SshNumbers
<1>2. m.n \in Nat BY DEF ToClientPackets
<1>3. PICK c : c = Understood(m) OBVIOUS
<1>4. CASE m.is = "kexinit"
  <2>1. c = [client EXCEPT !.at = "exchanging", !.guess = "none"]
    BY <1>3, <1>4 DEF Understood, Answered
  <2>2. /\ c \in ClientType /\ c.shown = client.shown /\ c.heard = client.heard
        /\ c.saw = client.saw /\ c.end = client.end /\ c.at # "gone"
    BY <1>1, <2>1 DEF ClientType
  <2> QED BY <1>3, <1>4, <2>2
<1>5. CASE m.is = "reply"
  <2>1. c = [client EXCEPT !.sealOut = TRUE]
    BY <1>3, <1>5 DEF Understood, Answered
  <2>2. /\ c \in ClientType /\ c.shown = client.shown /\ c.heard = client.heard
        /\ c.saw = client.saw /\ c.end = client.end /\ c.at # "gone"
    BY <1>1, <2>1 DEF ClientType
  <2> QED BY <1>3, <1>5, <2>2
<1>6. CASE m.is = "newkeys"
  <2>1. c = [client EXCEPT !.sealIn = TRUE]
    BY <1>3, <1>6 DEF Understood, Answered
  <2>2. /\ c \in ClientType /\ c.shown = client.shown /\ c.heard = client.heard
        /\ c.saw = client.saw /\ c.end = client.end /\ c.at # "gone"
    BY <1>1, <2>1 DEF ClientType
  <2> QED BY <1>3, <1>6, <2>2
<1>7. CASE m.is = "adjust"
  <2>1. PICK n \in Nat : n = client.credit + m.n BY <1>1, <1>2
  <2>2. c = [client EXCEPT !.credit = n]
    BY <1>3, <1>7, <2>1 DEF Understood, Answered
  <2>3. /\ c \in ClientType /\ c.shown = client.shown /\ c.heard = client.heard
        /\ c.saw = client.saw /\ c.end = client.end /\ c.at # "gone"
    BY <1>1, <2>1, <2>2 DEF ClientType
  <2> QED BY <1>3, <1>7, <2>3
<1>8. CASE m.is = "data"
  <2>1. PICK n \in Nat : n = client.heard + m.n BY <1>1, <1>2
  <2>2. c = [client EXCEPT !.heard = n]
    BY <1>3, <1>8, <2>1 DEF Understood, Answered
  <2>3. /\ c \in ClientType /\ c.shown = client.shown /\ c.heard = n
        /\ c.saw = client.saw /\ c.end = client.end /\ c.at # "gone"
    BY <1>1, <2>1, <2>2 DEF ClientType
  <2> QED BY <1>3, <1>8, <2>3, <2>1
<1>9. CASE m.is = "close"
  <2>1. c = [client EXCEPT !.saw = TRUE]
    BY <1>3, <1>9 DEF Understood, Answered
  <2>2. /\ c \in ClientType /\ c.shown = client.shown /\ c.heard = client.heard
        /\ c.saw = TRUE /\ c.end = client.end /\ c.at # "gone"
    BY <1>1, <2>1 DEF ClientType
  <2> QED BY <1>3, <1>9, <2>2
<1>10. CASE m.is = "disconnect"
  <2>1. c = [client EXCEPT !.at = "gone", !.end = "told"]
    BY <1>3, <1>10 DEF Understood, Answered, LeftAs
  <2>2. /\ c \in ClientType /\ c.shown = client.shown /\ c.heard = client.heard
        /\ c.saw = client.saw /\ c.end = "told" /\ c.at = "gone"
    BY <1>1, <2>1 DEF ClientType
  <2> QED BY <1>3, <1>10, <2>2
<1>11. CASE m.is \in Answered
  <2>1. PICK asked : asked = Tail(client.asked) OBVIOUS
  <2>2. PICK login : login = (client.login \/ m.is = "success") OBVIOUS
  <2>3. PICK asks : asks = IF m.is = "success" THEN 0 ELSE client.asks OBVIOUS
  <2>4. PICK open : open = (client.chan \/ m.is = "confirmation") OBVIOUS
  <2>5. PICK credit : credit = IF m.is = "confirmation" THEN m.n ELSE client.credit OBVIOUS
  <2>6. client.asked \in Seq(AskKinds) BY <1>1 DEF ClientType, AskKinds
  <2>7. asked \in Seq(AskKinds)
    <3>1. CASE client.asked = <<>> BY <2>1, <3>1
    <3>2. CASE client.asked # <<>> BY <2>1, <2>6, <3>2
    <3> QED BY <3>1, <3>2
  <2>8. login \in BOOLEAN /\ open \in BOOLEAN BY <2>2, <2>4
  <2>9. asks \in Nat /\ credit \in Nat BY <1>1, <1>2, <2>3, <2>5 DEF ClientType
  <2>10. c = [client EXCEPT !.asked = asked, !.login = login, !.asks = asks, !.chan = open,
                           !.credit = credit]
    BY <1>3, <1>11, <2>1, <2>2, <2>3, <2>4, <2>5 DEF Understood, Answered
  <2>11. m.is \notin {"data", "close", "disconnect"} BY <1>11 DEF Answered
  <2>12. /\ c \in ClientType /\ c.shown = client.shown /\ c.heard = client.heard
         /\ c.saw = client.saw /\ c.end = client.end /\ c.at # "gone"
    BY <1>1, <2>7, <2>8, <2>9, <2>10 DEF ClientType, AskKinds
  <2> QED BY <1>3, <2>11, <2>12
<1>12. CASE m.is \in {"extinfo", "status", "eof"}
  <2>1. c = client BY <1>3, <1>12 DEF Understood, Answered
  <2>2. m.is \notin {"data", "close", "disconnect"} BY <1>12
  <2> QED BY <1>1, <1>3, <2>1, <2>2
<1> QED BY <1>4, <1>5, <1>6, <1>7, <1>8, <1>9, <1>10, <1>11, <1>12 DEF ToClientPackets

LEMMA ListensKeeps == ASSUME SshInv, Listens, UNCHANGED sitting PROVE SshInv'
<1>1. PICK m : m = Head(toClient) OBVIOUS
<1>2. PICK packets : packets = CASE m.is = "kexinit" /\ client.guess # "kexinit right" -> ByClient("ecdh", 0)
                                 [] m.is = "reply" -> ByClient("newkeys", 0)
                                 [] OTHER -> <<>>
  OBVIOUS
<1>3. /\ client.at \in {"offered", "exchanging"} /\ toClient # <<>> /\ client' = Understood(m)
      /\ toClient' = IF m.is = "disconnect" THEN <<>> ELSE Tail(toClient)
      /\ toServer' = toServer \o packets /\ UNCHANGED <<sessionVars, flow>>
  BY <1>1, <1>2 DEF Listens
<1>4. UNCHANGED <<phase, sealIn, sealOut, tries, chan, pend, obuf, ended, call, flow, sitting>>
  BY <1>3 DEF sessionVars
<1>5. toServer' \in Seq(ToServerPackets)
  <2>1. toServer \in Seq(ToServerPackets) BY DEF SshInv, SshType
  <2>2. /\ toServer \o ByClient("ecdh", 0) \in Seq(ToServerPackets)
        /\ toServer \o ByClient("newkeys", 0) \in Seq(ToServerPackets)
    BY ClientPacket DEF ClientKinds
  <2>3. toServer \o <<>> = toServer BY <2>1
  <2>4. packets = ByClient("ecdh", 0) \/ packets = ByClient("newkeys", 0) \/ packets = <<>> BY <1>2
  <2> QED BY <1>3, <2>1, <2>2, <2>3, <2>4
<1>6. PICK s : s = toClient OBVIOUS
<1>7. s \in Seq(ToClientPackets) /\ s # <<>> BY <1>3, <1>6, SshFields
<1>8. /\ m \in ToClientPackets /\ Tail(s) \in Seq(ToClientPackets)
      /\ Told(s) = (IF m.is = "data" THEN m.n ELSE 0) + Told(Tail(s))
      /\ HasClose(s) <=> m.is = "close" \/ HasClose(Tail(s))
      /\ CloseLast(s) => CloseLast(Tail(s)) /\ (m.is = "close" => Tail(s) = <<>>)
  BY <1>1, <1>6, <1>7, HeardOne
<1>9. /\ client' \in ClientType /\ client'.shown = client.shown
      /\ client'.heard = IF m.is = "data" THEN client.heard + m.n ELSE client.heard
      /\ client'.saw = IF m.is = "close" THEN TRUE ELSE client.saw
      /\ client'.end = IF m.is = "disconnect" THEN "told" ELSE client.end
      /\ client'.at = "gone" <=> m.is = "disconnect"
  BY <1>3, <1>8, Understands
<1>10. /\ toClient' \in Seq(ToClientPackets)
       /\ m.is = "close" \/ HasClose(toClient') => HasClose(s)
       /\ CloseLast(s) => CloseLast(toClient')
       /\ m.is = "close" /\ CloseLast(s) => toClient' = <<>>
  BY <1>3, <1>6, <1>8, NothingTold
<1>11. SshType' BY <1>4, <1>5, <1>9, <1>10 DEF SshInv, SshType
<1>12. SshCalls' BY <1>4 DEF SshInv, SshCalls
<1>13. client.saw => flow.late BY <1>3 DEF SshInv, SshFarewell
<1>14. client.end = "none" BY <1>3 DEF SshInv, SshFarewell
<1>15. SshFarewell'
  <2>1. client'.saw \/ HasClose(toClient') => client.saw \/ HasClose(toClient) BY <1>6, <1>9, <1>10
  <2>2. client'.saw \/ HasClose(toClient') => phase' \in {"draining", "closed"} /\ obuf' = 0
    BY <1>4, <2>1 DEF SshInv, SshFarewell
  <2>3. ~flow.late => CloseLast(s) BY <1>6 DEF SshInv, SshFarewell
  <2>4. ~flow'.late => (client'.saw => toClient' = <<>>) /\ CloseLast(toClient')
    BY <1>4, <1>9, <1>10, <1>13, <2>3
  <2>5. client'.saw /\ client'.end = "told" => flow'.late
    <3>1. client'.end = "told" => m.is = "disconnect" BY <1>9, <1>14
    <3>2. m.is = "disconnect" /\ client'.saw => client.saw BY <1>9
    <3> QED BY <1>4, <1>13, <3>1, <3>2
  <2>6. client'.at = "gone" \/ client'.end = "none" BY <1>9, <1>14
  <2> QED BY <2>2, <2>4, <2>5, <2>6 DEF SshFarewell
<1>16. SshBalance'
  <2>1. client'.end # "closed" BY <1>9, <1>14
  <2>2. ASSUME client'.at # "gone", ~flow'.late
        PROVE  flow'.said = client'.shown + client'.heard + Told(toClient') + flow'.unsaid + call'.left
                            + obuf'
    <3>1. PICK n : n = IF m.is = "data" THEN m.n ELSE 0 OBVIOUS
    <3>2. n \in Nat BY <1>8, <3>1 DEF ToClientPackets
    <3>3. PICK told \in Nat : told = Told(Tail(s)) BY <1>8, ToldCounts
    <3>4. Told(toClient') = told BY <1>3, <1>6, <1>9, <2>2, <3>3
    <3>5. Told(toClient) = n + told BY <1>6, <1>8, <3>1, <3>3
    <3>6. flow.said = client.shown + client.heard + (n + told) + flow.unsaid + call.left + obuf
      BY <1>3, <1>4, <2>2, <3>5 DEF SshInv, SshBalance
    <3>7. flow.said = client.shown + (client.heard + n) + told + flow.unsaid + call.left + obuf
      BY <3>2, <3>3, <3>6, SshNumbers
    <3>8. client'.heard = client.heard + n BY <1>9, <3>1, SshNumbers
    <3> QED BY <1>4, <1>9, <3>4, <3>7, <3>8
  <2> QED BY <2>1, <2>2 DEF SshBalance
<1> QED BY <1>11, <1>12, <1>15, <1>16 DEF SshInv

(***************************************************************************)
(* The theorem.                                                            *)
(***************************************************************************)
LEMMA SshStarts == ASSUME SshInit PROVE SshInv
<1>1. /\ phase = "kexinit" /\ sealIn = FALSE /\ sealOut = FALSE /\ tries = 0
      /\ chan = [open |-> FALSE, mine |-> 0, peers |-> 0]
      /\ pend = [pos |-> 0, len |-> 0] /\ obuf = 0 /\ ended = {} /\ call = NoCall
      /\ toClient = <<Packet("kexinit", 0, FALSE)>> /\ toServer = <<>>
      /\ client = NoClient /\ sitting \in Sittings
      /\ flow = [said |-> 0, unsaid |-> 0, lost |-> 0, late |-> FALSE]
  BY DEF SshInit
<1>2. PICK p : p = Packet("kexinit", 0, FALSE) OBVIOUS
<1>3. p \in ToClientPackets /\ p.is = "kexinit" BY <1>2 DEF Packet, ToClientPackets
<1>4. toClient = Append(<<>>, p) BY <1>1, <1>2
<1>5. /\ toClient \in Seq(ToClientPackets) /\ Told(toClient) = 0
      /\ ~HasClose(toClient) /\ CloseLast(toClient)
  <2>1. PICK e : e = <<>> OBVIOUS
  <2>2. e \in Seq(ToClientPackets) /\ Told(e) = 0 /\ ~HasClose(e) BY <2>1, NothingTold
  <2>3. /\ Append(e, p) \in Seq(ToClientPackets) /\ Told(Append(e, p)) = 0 + 0
        /\ ~HasClose(Append(e, p)) /\ CloseLast(Append(e, p))
    BY <1>3, <2>2, SaidMore
  <2> QED BY <1>4, <2>1, <2>3
<1>6. client \in ClientType
  <2>1. <<>> \in Seq(AskKinds) OBVIOUS
  <2> QED BY <1>1, <2>1 DEF NoClient, ClientType, AskKinds
<1>7. client.at = "hello" /\ ~client.saw /\ client.end = "none" /\ client.heard = 0
      /\ client.shown = 0
  BY <1>1 DEF NoClient
<1>8. call \in CallType /\ call.left = 0 /\ flow \in Flow /\ flow.said = 0 /\ flow.unsaid = 0
  BY <1>1 DEF NoCall, CallType, Flow
<1>9. obuf \in 0..ObufMax BY <1>1, SshBounds
<1>10. SshType
  <2>1. chan \in [open : BOOLEAN, mine : Nat, peers : Nat] BY <1>1
  <2>2. pend \in [pos : Nat, len : Nat] /\ pend.pos <= pend.len BY <1>1
  <2>3. toServer \in Seq(ToServerPackets) BY <1>1
  <2> QED BY <1>1, <1>5, <1>6, <1>8, <1>9, <2>1, <2>2, <2>3 DEF SshType, CallType, Flow
<1>11. SshCalls BY <1>1 DEF SshCalls
<1>12. SshFarewell BY <1>1, <1>5, <1>7 DEF SshFarewell
<1>13. SshBalance BY <1>1, <1>5, <1>7, <1>8 DEF SshBalance
<1> QED BY <1>10, <1>11, <1>12, <1>13 DEF SshInv

LEMMA SshStep == ASSUME SshInv, SshNext PROVE SshInv'
<1>1. UNCHANGED sitting BY DEF SshNext
<1>2. CASE SetsUp BY <1>1, <1>2, SetsUpKeeps
<1>3. CASE HandlesPacket BY <1>1, <1>3, HandlesPacketKeeps
<1>4. CASE \E n \in ReadSizes : ReadSsh(n) BY <1>1, <1>4, ReadSshKeeps
<1>5. CASE \E n \in WriteSizes : WriteSsh(n) BY <1>1, <1>5, WriteSshKeeps
<1>6. CASE Gather BY <1>1, <1>6, GatherKeeps
<1>7. CASE SendData BY <1>1, <1>7, SendDataKeeps
<1>8. CASE GivesUp BY <1>1, <1>8, GivesUpKeeps
<1>9. CASE ReadDone BY <1>1, <1>9, ReadDoneKeeps
<1>10. CASE ReadFails BY <1>1, <1>10, ReadFailsKeeps
<1>11. CASE CloseSsh BY <1>1, <1>11, CloseSshKeeps
<1>12. CASE Farewell BY <1>1, <1>12, FarewellKeeps
<1>13. CASE DrainClient BY <1>1, <1>13, DrainClientKeeps
<1>14. CASE PastDeadline BY <1>1, <1>14, PastDeadlineKeeps
<1>15. CASE Cut BY <1>1, <1>15, CutKeeps
<1>16. CASE ClientNext
  <2>1. CASE Hello BY <1>1, <2>1, HelloKeeps
  <2>2. CASE Listens BY <1>1, <2>2, ListensKeeps
  <2>3. CASE AsksLogin BY <1>1, <2>3, AsksLoginKeeps
  <2>4. CASE AsksFor BY <1>1, <2>4, AsksForKeeps
  <2>5. CASE (\E n \in 1..MaxPayload : Types(n)) \/ TypesEof \/ Rekeys BY <1>1, <2>5, TypesKeeps
  <2>6. CASE Shows BY <1>1, <2>6, ShowsKeeps
  <2>7. CASE ClientLeaves BY <1>1, <2>7, ClientLeavesKeeps
  <2> QED BY <1>16, <2>1, <2>2, <2>3, <2>4, <2>5, <2>6, <2>7 DEF ClientNext
<1> QED BY <1>2, <1>3, <1>4, <1>5, <1>6, <1>7, <1>8, <1>9, <1>10, <1>11, <1>12, <1>13, <1>14,
           <1>15, <1>16 DEF SshNext

LEMMA SshStays == ASSUME SshInv, UNCHANGED sshVars PROVE SshInv'
<1>1. UNCHANGED <<phase, sealIn, sealOut, tries, chan, pend, obuf, ended, call, toClient,
                  toServer, client, sitting, flow>>
  BY DEF sshVars, sessionVars
<1>2. SshType' BY <1>1 DEF SshInv, SshType
<1>3. SshCalls' BY <1>1 DEF SshInv, SshCalls
<1>4. SshFarewell' BY <1>1 DEF SshInv, SshFarewell
<1>5. SshBalance' BY <1>1 DEF SshInv, SshBalance
<1> QED BY <1>2, <1>3, <1>4, <1>5 DEF SshInv

\* A client that stays until its channel is closed has shown all that the
\* program wrote and was not told could not be said (ssh_close, drv_ssh.c).
THEOREM HeardToTheEndAlways == SshSpec => []HeardToTheEnd
<1>1. SshInit => SshInv BY SshStarts
<1>2. SshInv /\ [SshNext]_sshVars => SshInv' BY SshStep, SshStays
<1>3. SshInv => HeardToTheEnd
  <2>1. ASSUME SshInv, client.saw, client.end \in {"closed", "told"}, ~flow.late
        PROVE  client.shown + flow.unsaid = flow.said
    <3>1. client.end = "closed" BY <2>1 DEF SshInv, SshFarewell
    <3>2. flow.said = client.shown + flow.unsaid BY <2>1, <3>1 DEF SshInv, SshBalance
    <3> QED BY <3>2
  <2> QED BY <2>1 DEF HeardToTheEnd
<1> QED BY <1>1, <1>2, <1>3, PTL DEF SshSpec

(***************************************************************************)
(* Which packets are sealed.                                               *)
(***************************************************************************)
LEMMA BothParts ==
  ASSUME NEW S, NEW s \in Seq(S), NEW more \in Seq(S), NEW n, n = Len(s), NEW m, m = Len(more),
         NEW t, t = s \o more
  PROVE  /\ t \in Seq(S) /\ Len(t) = n + m /\ n \in Nat /\ m \in Nat
         /\ \A i \in 1..n : t[i] = s[i]
         /\ \A i \in 1..m : t[n + i] = more[i]
<1>1. /\ t \in Seq(S) /\ Len(t) = n + m /\ n \in Nat /\ m \in Nat
      /\ \A i \in 1..(n + m) : t[i] = IF i <= n THEN s[i] ELSE more[i - n]
  BY ConcatProperties
<1>2. \A i \in 1..n : t[i] = s[i] BY <1>1
<1>3. ASSUME NEW i \in 1..m PROVE t[n + i] = more[i]
  <2>1. n + i \in 1..(n + m) /\ ~(n + i <= n) /\ (n + i) - n = i BY <1>1
  <2> QED BY <1>1, <2>1
<1> QED BY <1>1, <1>2, <1>3

\* All but the first k packets are sealed.
SealedAfter(s, k) == \A i \in 1..Len(s) : s[i].sealed <=> i > k
AllSealed(s) == \A i \in 1..Len(s) : s[i].sealed

LEMMA SealedMore ==
  ASSUME NEW S, NEW s \in Seq(S), NEW more \in Seq(S), NEW k \in Nat, k <= Len(s), SealedAfter(s, k),
         AllSealed(more)
  PROVE  s \o more \in Seq(S) /\ k <= Len(s \o more) /\ SealedAfter(s \o more, k)
<1>1. PICK t : t = s \o more OBVIOUS
<1>2. PICK n \in Nat : n = Len(s) OBVIOUS
<1>3. PICK m \in Nat : m = Len(more) OBVIOUS
<1>4. /\ t \in Seq(S) /\ Len(t) = n + m /\ (\A i \in 1..n : t[i] = s[i])
      /\ \A i \in 1..m : t[n + i] = more[i]
  BY <1>1, <1>2, <1>3, BothParts
<1>5. ASSUME NEW i \in 1..(n + m) PROVE t[i].sealed <=> i > k
  <2>1. CASE i <= n BY <1>2, <1>4, <2>1 DEF SealedAfter
  <2>2. CASE i > n
    <3>1. i - n \in 1..m /\ n + (i - n) = i BY <2>2
    <3>2. t[i] = more[i - n] BY <1>4, <3>1
    <3> QED BY <1>2, <1>3, <2>2, <3>1, <3>2 DEF AllSealed
  <2> QED BY <2>1, <2>2
<1> QED BY <1>1, <1>2, <1>4, <1>5 DEF SealedAfter

LEMMA ClearMore ==
  ASSUME NEW S, NEW s \in Seq(S), SealedAfter(s, Len(s)), NEW p \in S, ~p.sealed
  PROVE  /\ Append(s, p) \in Seq(S) /\ Len(Append(s, p)) = Len(s) + 1
         /\ SealedAfter(Append(s, p), Len(Append(s, p)))
<1>1. PICK t : t = Append(s, p) OBVIOUS
<1>2. PICK n \in Nat : n = Len(s) OBVIOUS
<1>3. t \in Seq(S) /\ Len(t) = n + 1 /\ t[n + 1] = p /\ \A i \in 1..n : t[i] = s[i] BY <1>1, <1>2
<1>4. ASSUME NEW i \in 1..(n + 1) PROVE t[i].sealed <=> i > n + 1
  <2>1. CASE i = n + 1 BY <1>3, <2>1
  <2>2. CASE i # n + 1
    <3>1. i \in 1..n BY <2>2
    <3> QED BY <1>2, <1>3, <3>1 DEF SealedAfter
  <2> QED BY <2>1, <2>2
<1> QED BY <1>1, <1>2, <1>3, <1>4 DEF SealedAfter

LEMMA SealedLess ==
  ASSUME NEW S, NEW s \in Seq(S), s # <<>>, NEW k \in Nat, SealedAfter(s, k)
  PROVE  /\ Tail(s) \in Seq(S) /\ Len(s) = Len(Tail(s)) + 1
         /\ Head(s) \in S /\ (Head(s).sealed <=> k = 0)
         /\ k = 0 => SealedAfter(Tail(s), 0)
         /\ \A j \in Nat : k = j + 1 => SealedAfter(Tail(s), j)
<1>1. PICK t : t = Tail(s) OBVIOUS
<1>2. PICK n \in Nat : Len(s) = n + 1
  <2>1. Len(s) \in Nat /\ Len(s) # 0 OBVIOUS
  <2>2. PICK m \in Nat : m = Len(s) - 1 BY <2>1
  <2> QED BY <2>1, <2>2
<1>3. t \in Seq(S) /\ Len(t) = n /\ (\A i \in 1..n : t[i] = s[i + 1]) /\ Head(s) = s[1]
  BY <1>1, <1>2
<1>4. 1 \in 1..(n + 1) /\ \A i \in 1..n : i + 1 \in 1..(n + 1) OBVIOUS
<1>5. Head(s) \in S OBVIOUS
<1>6. Head(s).sealed <=> k = 0 BY <1>2, <1>3, <1>4 DEF SealedAfter
<1>7. k = 0 => SealedAfter(t, 0)
  <2>1. ASSUME k = 0, NEW i \in 1..n PROVE t[i].sealed <=> i > 0
    BY <1>2, <1>3, <1>4, <2>1 DEF SealedAfter
  <2> QED BY <1>3, <2>1 DEF SealedAfter
<1>8. ASSUME NEW j \in Nat, k = j + 1 PROVE SealedAfter(t, j)
  <2>1. ASSUME NEW i \in 1..n PROVE t[i].sealed <=> i > j
    <3>1. t[i] = s[i + 1] /\ i + 1 \in 1..(n + 1) BY <1>3, <1>4
    <3>2. s[i + 1].sealed <=> i + 1 > j + 1 BY <1>2, <1>8, <3>1 DEF SealedAfter
    <3> QED BY <3>1, <3>2
  <2> QED BY <1>3, <2>1 DEF SealedAfter
<1> QED BY <1>1, <1>2, <1>3, <1>5, <1>6, <1>7, <1>8

\* What the driver says in the clear, in this order; all else is sealed.
Script == <<"kexinit", "reply", "newkeys">>
ScriptKinds == {"kexinit", "reply", "newkeys"}

\* s is what is under way of a script of which so much was heard, and so much said.
ScriptedFrom(s, heard, said) ==
  \A i \in 1..Len(s) : IF i + heard <= said THEN ~s[i].sealed /\ s[i].is = Script[i + heard]
                       ELSE s[i].sealed /\ s[i].is \notin ScriptKinds

LEMMA ScriptedMore ==
  ASSUME NEW S, NEW s \in Seq(S), NEW more \in Seq(S), NEW heard \in Nat, NEW said \in Nat,
         said <= Len(s) + heard, ScriptedFrom(s, heard, said),
         \A i \in 1..Len(more) : more[i].sealed /\ more[i].is \notin ScriptKinds
  PROVE  /\ s \o more \in Seq(S) /\ said <= Len(s \o more) + heard
         /\ ScriptedFrom(s \o more, heard, said)
<1>1. PICK t : t = s \o more OBVIOUS
<1>2. PICK n \in Nat : n = Len(s) OBVIOUS
<1>3. PICK m \in Nat : m = Len(more) OBVIOUS
<1>4. /\ t \in Seq(S) /\ Len(t) = n + m /\ (\A i \in 1..n : t[i] = s[i])
      /\ \A i \in 1..m : t[n + i] = more[i]
  BY <1>1, <1>2, <1>3, BothParts
<1>5. ASSUME NEW i \in 1..(n + m)
      PROVE  IF i + heard <= said THEN ~t[i].sealed /\ t[i].is = Script[i + heard]
             ELSE t[i].sealed /\ t[i].is \notin ScriptKinds
  <2>1. CASE i <= n
    <3>1. i \in 1..n /\ t[i] = s[i] BY <1>4, <2>1
    <3> QED BY <1>2, <3>1 DEF ScriptedFrom
  <2>2. CASE i > n
    <3>1. i - n \in 1..m /\ n + (i - n) = i BY <2>2
    <3>2. t[i] = more[i - n] BY <1>4, <3>1
    <3>3. ~(i + heard <= said) BY <1>2, <2>2
    <3> QED BY <1>3, <3>1, <3>2, <3>3
  <2> QED BY <2>1, <2>2
<1> QED BY <1>1, <1>2, <1>4, <1>5 DEF ScriptedFrom

LEMMA ScriptedLess ==
  ASSUME NEW S, NEW s \in Seq(S), s # <<>>, NEW heard \in Nat, NEW said \in Nat,
         ScriptedFrom(s, heard, said)
  PROVE  /\ Tail(s) \in Seq(S) /\ Len(s) = Len(Tail(s)) + 1 /\ Head(s) \in S
         /\ heard < said => /\ ~Head(s).sealed /\ Head(s).is = Script[heard + 1]
                            /\ ScriptedFrom(Tail(s), heard + 1, said)
         /\ heard >= said => /\ Head(s).sealed /\ Head(s).is \notin ScriptKinds
                             /\ ScriptedFrom(Tail(s), heard, said)
<1>1. PICK t : t = Tail(s) OBVIOUS
<1>2. PICK n \in Nat : Len(s) = n + 1
  <2>1. Len(s) \in Nat /\ Len(s) # 0 OBVIOUS
  <2>2. PICK m \in Nat : m = Len(s) - 1 BY <2>1
  <2> QED BY <2>1, <2>2
<1>3. t \in Seq(S) /\ Len(t) = n /\ (\A i \in 1..n : t[i] = s[i + 1]) /\ Head(s) = s[1]
  BY <1>1, <1>2
<1>4. 1 \in 1..(n + 1) /\ \A i \in 1..n : i + 1 \in 1..(n + 1) OBVIOUS
<1>5. Head(s) \in S OBVIOUS
<1>6. \A i \in 1..(n + 1) : IF i + heard <= said THEN ~s[i].sealed /\ s[i].is = Script[i + heard]
                            ELSE s[i].sealed /\ s[i].is \notin ScriptKinds
  BY <1>2 DEF ScriptedFrom
<1>7. ASSUME heard < said
      PROVE  /\ ~Head(s).sealed /\ Head(s).is = Script[heard + 1]
             /\ ScriptedFrom(t, heard + 1, said)
  <2>1. 1 + heard <= said /\ 1 + heard = heard + 1 BY <1>7
  <2>2. ~s[1].sealed /\ s[1].is = Script[heard + 1] BY <1>4, <1>6, <2>1
  <2>3. ASSUME NEW i \in 1..n
        PROVE  IF i + (heard + 1) <= said THEN ~t[i].sealed /\ t[i].is = Script[i + (heard + 1)]
               ELSE t[i].sealed /\ t[i].is \notin ScriptKinds
    <3>1. PICK j : j = i + 1 OBVIOUS
    <3>2. j \in 1..(n + 1) /\ t[i] = s[j] /\ i + (heard + 1) = j + heard BY <1>3, <3>1
    <3> QED BY <1>6, <3>2
  <2> QED BY <1>3, <2>2, <2>3 DEF ScriptedFrom
<1>8. ASSUME heard >= said
      PROVE  Head(s).sealed /\ Head(s).is \notin ScriptKinds /\ ScriptedFrom(t, heard, said)
  <2>1. \A i \in 1..(n + 1) : ~(i + heard <= said) BY <1>8
  <2>2. \A i \in 1..(n + 1) : s[i].sealed /\ s[i].is \notin ScriptKinds BY <1>6, <2>1
  <2>3. ASSUME NEW i \in 1..n
        PROVE  ~(i + heard <= said) /\ t[i].sealed /\ t[i].is \notin ScriptKinds
    <3>1. i + 1 \in 1..(n + 1) /\ t[i] = s[i + 1] BY <1>3, <1>4
    <3> QED BY <1>8, <2>2, <3>1
  <2> QED BY <1>3, <1>4, <2>2, <2>3 DEF ScriptedFrom
<1> QED BY <1>1, <1>2, <1>3, <1>5, <1>7, <1>8

Unkeyed == phase \in {"kexinit", "guess", "ecdh", "newkeys"}
Keyed == phase \in {"auth", "setup", "shell", "closing", "draining"}

\* Clear packets that the driver has still to read, and the client to send.
Due ==
  IF phase = "newkeys" THEN 1 ELSE IF phase = "ecdh" THEN 2 ELSE IF phase = "guess" THEN 3
  ELSE IF toServer # <<>> /\ Head(toServer).is = "kexinit wrong" THEN 4 ELSE 3
GuessedRight == client.guess = "kexinit right"
Owes == IF client.sealOut THEN 0 ELSE IF client.at = "offered" /\ ~GuessedRight THEN 2 ELSE 1

\* The client's packets are clear up to its change of keys, where the driver changes
\* its own; who is not past that has no login and no channel.
SealsIn ==
  /\ Unkeyed => ~sealIn /\ client.at # "gone" /\ ~client.login
  /\ Keyed => sealIn
  /\ sealIn => client.sealOut /\ SealedAfter(toServer, 0)
  /\ client.at = "hello" => phase = "kexinit" /\ toServer = <<>>
  /\ Unkeyed /\ client.at # "hello" =>
       \E k \in Nat : /\ k + Owes = Due /\ k <= Len(toServer) /\ SealedAfter(toServer, k)
                      /\ ~client.sealOut => Len(toServer) = k
  /\ phase = "closed" /\ ~sealIn =>
       /\ SealedAfter(toServer, Len(toServer))
       /\ client.at = "gone" \/ (~client.sealOut /\ ~sealOut)
  /\ ~client.sealOut => ~client.login /\ ~client.chan /\ client.heard = 0 /\ ~client.saw
  /\ \A i \in 1..Len(toServer) : toServer[i].is \in Answerable => toServer[i].sealed

\* How far the client has heard the driver's script, and how much of it was said.
HasHeard ==
  IF client.at \in {"hello", "offered"} THEN 0
  ELSE IF ~client.sealOut THEN 1 ELSE IF ~client.sealIn THEN 2 ELSE 3
HasSaid == IF sealOut THEN 3 ELSE 1

SealsOut ==
  /\ phase \in {"kexinit", "guess", "ecdh"} => ~sealOut
  /\ phase = "newkeys" \/ Keyed => sealOut
  /\ (client.sealIn => client.sealOut) /\ (sealIn => sealOut)
  /\ client.at \in {"hello", "offered"} => ~client.sealOut
  /\ client.at # "gone" /\ (sealOut \/ phase # "closed") =>
       /\ phase # "closed" => HasSaid <= Len(toClient) + HasHeard
       /\ ~sealOut => Len(toClient) + HasHeard = 1
       /\ ScriptedFrom(toClient, HasHeard, HasSaid)
  /\ client.at # "gone" /\ phase = "closed" /\ ~sealOut =>
       \A i \in 1..Len(toClient) :
         ~toClient[i].sealed /\ toClient[i].is \in {"kexinit", "disconnect"}
  /\ Unkeyed => \A i \in 1..Len(toClient) : toClient[i].is \in ScriptKinds \cup {"extinfo"}

SshSeals == SealsIn /\ SealsOut

\* A packet is opened as it was sealed.
LEMMA SealsAgree == ASSUME SshInv, SshSeals PROVE OpenedAsSealed
<1>1. toServer \in Seq(ToServerPackets) /\ toClient \in Seq(ToClientPackets)
      /\ sealIn \in BOOLEAN /\ sealOut \in BOOLEAN /\ client \in ClientType
  BY DEF SshInv, SshType
<1>2. client.sealOut \in BOOLEAN /\ client.sealIn \in BOOLEAN BY <1>1 DEF ClientType
<1>3. ASSUME toServer # <<>>, phase # "draining" PROVE Head(toServer).sealed = sealIn
  <2>1. Head(toServer) \in ToServerPackets BY <1>1, <1>3
  <2>2. Head(toServer).sealed \in BOOLEAN BY <2>1 DEF ToServerPackets
  <2>3. CASE sealIn
    <3>1. SealedAfter(toServer, 0) BY <2>3 DEF SshSeals, SealsIn
    <3>2. Head(toServer).sealed BY <1>1, <1>3, <3>1, SealedLess
    <3> QED BY <1>1, <2>2, <2>3, <3>2
  <2>4. CASE ~sealIn /\ phase = "closed"
    <3>1. SealedAfter(toServer, Len(toServer)) /\ Len(toServer) \in Nat /\ Len(toServer) # 0
      BY <1>1, <1>3, <2>4 DEF SshSeals, SealsIn
    <3>2. ~Head(toServer).sealed BY <1>1, <1>3, <3>1, SealedLess
    <3> QED BY <1>1, <2>2, <2>4, <3>2
  <2>5. CASE ~sealIn /\ Unkeyed
    <3>1. PICK k \in Nat : /\ k + Owes = Due /\ k <= Len(toServer) /\ SealedAfter(toServer, k)
                           /\ ~client.sealOut => Len(toServer) = k
      BY <1>3, <2>5 DEF SshSeals, SealsIn
    <3>2. k # 0
      <4>1. Len(toServer) # 0 BY <1>1, <1>3
      <4>2. Due # 0 /\ (client.sealOut => Owes = 0) BY DEF Due, Owes
      <4> QED BY <3>1, <4>1, <4>2
    <3>3. ~Head(toServer).sealed BY <1>1, <1>3, <3>1, <3>2, SealedLess
    <3> QED BY <1>1, <2>2, <2>5, <3>3
  <2>6. sealIn \/ phase = "closed" \/ Unkeyed
    BY <1>3 DEF SshInv, SshType, SshSeals, SealsIn, Unkeyed, Keyed
  <2> QED BY <1>1, <2>3, <2>4, <2>5, <2>6
<1>4. ASSUME toClient # <<>>, client.at # "gone" PROVE Head(toClient).sealed = client.sealIn
  <2>1. Head(toClient) \in ToClientPackets BY <1>1, <1>4
  <2>2. Head(toClient).sealed \in BOOLEAN BY <2>1 DEF ToClientPackets
  <2>3. CASE phase = "closed" /\ ~sealOut
    <3>1. 1 \in 1..Len(toClient) /\ Head(toClient) = toClient[1] BY <1>1, <1>4
    <3>2. ~Head(toClient).sealed BY <1>4, <2>3, <3>1 DEF SshSeals, SealsOut
    <3>3. ~client.sealIn
      <4>1. ~sealIn BY <2>3 DEF SshSeals, SealsOut
      <4>2. ~client.sealOut BY <1>4, <2>3, <4>1 DEF SshSeals, SealsIn
      <4> QED BY <4>2 DEF SshSeals, SealsOut
    <3> QED BY <1>2, <2>2, <3>2, <3>3
  <2>4. CASE sealOut \/ phase # "closed"
    <3>1. /\ ScriptedFrom(toClient, HasHeard, HasSaid)
          /\ ~sealOut => Len(toClient) + HasHeard = 1
      BY <1>4, <2>4 DEF SshSeals, SealsOut
    <3>2. HasHeard \in Nat /\ HasSaid \in Nat /\ HasHeard <= 3 BY DEF HasHeard, HasSaid
    <3>3. PICK heard \in Nat : heard = HasHeard BY <3>2
    <3>4. PICK said \in Nat : said = HasSaid BY <3>2
    <3>5. ScriptedFrom(toClient, heard, said) BY <3>1, <3>3, <3>4
    <3>6. Len(toClient) \in Nat /\ Len(toClient) # 0 BY <1>1, <1>4
    <3>7. CASE heard < said
      <4>1. ~Head(toClient).sealed BY <1>1, <1>4, <3>5, <3>7, ScriptedLess
      <4>2. heard # 3 BY <3>4, <3>7 DEF HasSaid
      <4>3. ~client.sealIn
        <5>1. client.at \in {"hello", "offered"} => ~client.sealOut BY DEF SshSeals, SealsOut
        <5>2. client.sealIn => client.sealOut BY DEF SshSeals, SealsOut
        <5> QED BY <3>3, <4>2, <5>1, <5>2 DEF HasHeard
      <4> QED BY <1>2, <2>2, <4>1, <4>3
    <3>8. CASE heard >= said
      <4>1. Head(toClient).sealed BY <1>1, <1>4, <3>5, <3>8, ScriptedLess
      <4>2. sealOut
        <5>1. ~sealOut => said = 1 /\ Len(toClient) + heard = 1 BY <3>1, <3>3, <3>4 DEF HasSaid
        <5> QED BY <3>6, <3>8, <5>1
      <4>3. heard = 3 BY <3>2, <3>3, <3>4, <3>8, <4>2 DEF HasSaid
      <4>4. client.sealIn BY <3>3, <4>3 DEF HasHeard
      <4> QED BY <1>2, <2>2, <4>1, <4>4
    <3> QED BY <3>7, <3>8
  <2> QED BY <2>3, <2>4
<1> QED BY <1>3, <1>4 DEF OpenedAsSealed

LEMMA SealTypes ==
  ASSUME SshInv
  PROVE  /\ toServer \in Seq(ToServerPackets) /\ toClient \in Seq(ToClientPackets)
         /\ sealIn \in BOOLEAN /\ sealOut \in BOOLEAN /\ client \in ClientType
         /\ client.sealIn \in BOOLEAN /\ client.sealOut \in BOOLEAN
         /\ Unkeyed \/ Keyed \/ phase = "closed"
         /\ Len(toServer) \in Nat /\ Len(toClient) \in Nat
<1>1. /\ toServer \in Seq(ToServerPackets) /\ toClient \in Seq(ToClientPackets)
      /\ sealIn \in BOOLEAN /\ sealOut \in BOOLEAN /\ client \in ClientType
  BY DEF SshInv, SshType
<1>2. Unkeyed \/ Keyed \/ phase = "closed" BY DEF SshInv, SshType, Unkeyed, Keyed
<1>3. client.sealIn \in BOOLEAN /\ client.sealOut \in BOOLEAN BY <1>1 DEF ClientType
<1>4. Len(toServer) \in Nat /\ Len(toClient) \in Nat BY <1>1
<1> QED BY <1>1, <1>2, <1>3, <1>4

\* What is read before the change of keys is clear, and no question.
LEMMA UnkeyedTakes ==
  ASSUME SshInv, SshSeals, Unkeyed, Takes
  PROVE  /\ Tail(toServer) \in Seq(ToServerPackets) /\ client.at \notin {"hello", "gone"}
         /\ Head(toServer).is \notin Answerable
         /\ \A i \in 1..Len(Tail(toServer)) :
              Tail(toServer)[i].is \in Answerable => Tail(toServer)[i].sealed
         /\ \E j \in Nat : /\ j + 1 + Owes = Due /\ j <= Len(Tail(toServer))
                           /\ SealedAfter(Tail(toServer), j)
                           /\ ~client.sealOut => Len(Tail(toServer)) = j
<1>1. toServer # <<>> /\ toServer \in Seq(ToServerPackets) BY SealTypes DEF Takes
<1>2. client.at \notin {"hello", "gone"} BY <1>1 DEF SshSeals, SealsIn
<1>3. PICK k \in Nat : /\ k + Owes = Due /\ k <= Len(toServer) /\ SealedAfter(toServer, k)
                       /\ ~client.sealOut => Len(toServer) = k
  BY <1>2 DEF SshSeals, SealsIn
<1>4. PICK n \in Nat : n = Len(Tail(toServer)) BY <1>1
<1>5. /\ Tail(toServer) \in Seq(ToServerPackets) /\ Len(toServer) = n + 1
      /\ Head(toServer).sealed <=> k = 0
      /\ \A j \in Nat : k = j + 1 => SealedAfter(Tail(toServer), j)
  BY <1>1, <1>3, <1>4, SealedLess
<1>6. k # 0
  <2>1. Due # 0 /\ (client.sealOut => Owes = 0) BY DEF Due, Owes
  <2> QED BY <1>3, <1>5, <2>1
<1>7. PICK j \in Nat : k = j + 1
  <2>1. PICK j : j = k - 1 OBVIOUS
  <2> QED BY <1>3, <1>6, <2>1
<1>8. Owes \in Nat /\ Due \in Nat BY DEF Owes, Due
<1>9. j + 1 + Owes = Due /\ j <= n /\ SealedAfter(Tail(toServer), j)
      /\ (~client.sealOut => n = j)
  BY <1>3, <1>5, <1>7, <1>8
<1>10. 1 \in 1..Len(toServer) /\ Head(toServer) = toServer[1]
       /\ \A i \in 1..n : i + 1 \in 1..Len(toServer) /\ Tail(toServer)[i] = toServer[i + 1]
  BY <1>1, <1>4, <1>5
<1>11. Head(toServer).is \notin Answerable BY <1>5, <1>6, <1>10 DEF SshSeals, SealsIn
<1>12. \A i \in 1..n : Tail(toServer)[i].is \in Answerable => Tail(toServer)[i].sealed
  BY <1>10 DEF SshSeals, SealsIn
<1> QED BY <1>2, <1>4, <1>5, <1>9, <1>11, <1>12

LEMMA KeyedActs ==
  ASSUME SshInv, SshSeals, Keyed, Keyed' \/ phase' = "closed", UNCHANGED <<sealIn, sealOut, client>>,
         toServer' \in {toServer, <<>>} \/ (toServer # <<>> /\ toServer' = Tail(toServer)),
         NEW more \in Seq(ToClientPackets), toClient' = toClient \o more,
         \A i \in 1..Len(more) : more[i].sealed /\ more[i].is \notin ScriptKinds
  PROVE  SshSeals'
<1>1. sealIn /\ sealOut /\ sealIn' /\ sealOut' /\ ~Unkeyed' /\ client' = client
  BY DEF SshSeals, SealsIn, SealsOut, Keyed, Unkeyed
<1>2. SealedAfter(toServer', 0)
  <2>1. SealedAfter(toServer, 0) BY <1>1 DEF SshSeals, SealsIn
  <2>2. CASE toServer' = toServer BY <2>1, <2>2
  <2>3. CASE toServer # <<>> /\ toServer' = Tail(toServer)
    <3>1. PICK s \in Seq(ToServerPackets) : s = toServer BY SealTypes
    <3>2. SealedAfter(Tail(s), 0) BY <2>1, <2>3, <3>1, SealedLess
    <3> QED BY <2>3, <3>1, <3>2
  <2>4. CASE toServer' = <<>> BY <2>4 DEF SealedAfter
  <2> QED BY <2>2, <2>3, <2>4
<1>3. \A i \in 1..Len(toServer') : toServer'[i].sealed
  <2>1. \A i \in 1..Len(toServer') : i > 0
    <3>1. toServer \in Seq(ToServerPackets) BY SealTypes
    <3>2. toServer' \in Seq(ToServerPackets)
      <4>1. CASE toServer' = <<>> BY <4>1, EmptySeq
      <4>2. CASE toServer' = toServer BY <3>1, <4>2
      <4>3. CASE toServer # <<>> /\ toServer' = Tail(toServer) BY <3>1, <4>3
      <4> QED BY <4>1, <4>2, <4>3
    <3>3. Len(toServer') \in Nat BY <3>2
    <3> QED BY <3>3
  <2> QED BY <1>2, <2>1 DEF SealedAfter
<1>4. client.at # "hello" BY DEF SshSeals, SealsIn, Keyed
<1>5. SealsIn' BY <1>1, <1>2, <1>3, <1>4 DEF SshSeals, SealsIn
<1>6. ASSUME client.at # "gone"
      PROVE  HasSaid <= Len(toClient') + HasHeard /\ ScriptedFrom(toClient', HasHeard, HasSaid)
  <2>1. phase # "closed" BY DEF Keyed
  <2>2. PICK heard \in Nat : heard = HasHeard BY DEF HasHeard
  <2>3. PICK said \in Nat : said = HasSaid BY DEF HasSaid
  <2>4. said <= Len(toClient) + heard /\ ScriptedFrom(toClient, heard, said)
    BY <1>6, <2>1, <2>2, <2>3 DEF SshSeals, SealsOut
  <2>5. PICK s \in Seq(ToClientPackets) : s = toClient BY SealTypes
  <2>6. said <= Len(s \o more) + heard /\ ScriptedFrom(s \o more, heard, said)
    BY <2>4, <2>5, ScriptedMore
  <2> QED BY <2>2, <2>3, <2>5, <2>6
<1>7. HasHeard' = HasHeard /\ HasSaid' = HasSaid BY DEF HasHeard, HasSaid
<1>8. SealsOut'
  <2>1. client'.sealIn => client'.sealOut BY DEF SshSeals, SealsOut
  <2>2. client'.at \in {"hello", "offered"} => ~client'.sealOut BY DEF SshSeals, SealsOut
  <2> QED BY <1>1, <1>6, <1>7, <2>1, <2>2 DEF SealsOut, Keyed, Unkeyed
<1> QED BY <1>5, <1>8 DEF SshSeals

\* With one packet, or none.
LEMMA KeyedActsOnce ==
  ASSUME SshInv, SshSeals, Keyed, Keyed' \/ phase' = "closed", UNCHANGED <<sealIn, sealOut, client>>,
         toServer' \in {toServer, <<>>} \/ (toServer # <<>> /\ toServer' = Tail(toServer)),
         \/ UNCHANGED toClient
         \/ \E is \in {"disconnect", "adjust", "data"} \cup Answered : \E n \in Nat :
              toClient' = Says(is, n)
  PROVE  SshSeals'
<1>1. sealOut BY DEF SshSeals, SealsOut
<1>2. PICK s : s = toClient OBVIOUS
<1>3. s \in Seq(ToClientPackets) BY <1>2, SealTypes
<1>4. CASE UNCHANGED toClient
  <2>1. PICK more : more = <<>> OBVIOUS
  <2>2. more \in Seq(ToClientPackets) /\ s \o more = s
    <3>1. <<>> \in Seq(ToClientPackets) BY EmptySeq
    <3>2. s \o <<>> = s BY <1>3
    <3> QED BY <2>1, <3>1, <3>2
  <2>3. \A i \in 1..Len(more) : FALSE BY <2>1
  <2>4. toClient' = toClient \o more BY <1>2, <1>4, <2>2
  <2> QED BY <2>2, <2>3, <2>4, KeyedActs
<1>5. ASSUME NEW is \in {"disconnect", "adjust", "data"} \cup Answered, NEW n \in Nat,
             toClient' = Says(is, n)
      PROVE  SshSeals'
  <2>1. PICK p : p = Packet(is, n, sealOut) OBVIOUS
  <2>2. p.sealed /\ p.is = is /\ p \in ToClientPackets
    BY <1>1, <2>1, SealTypes DEF Packet, ToClientPackets
  <2>3. is \notin ScriptKinds BY DEF ScriptKinds, Answered
  <2>4. PICK more : more = <<p>> OBVIOUS
  <2>5. more \in Seq(ToClientPackets) /\ Len(more) = 1 /\ more[1] = p BY <2>2, <2>4
  <2>6. toClient' = toClient \o more
    <3>1. Append(s, p) = s \o <<p>> BY <1>3, <2>2
    <3> QED BY <1>2, <1>5, <2>1, <2>4, <3>1 DEF Says
  <2>7. \A i \in 1..Len(more) : more[i].sealed /\ more[i].is \notin ScriptKinds
    BY <2>2, <2>3, <2>5
  <2> QED BY <2>5, <2>6, <2>7, KeyedActs
<1> QED BY <1>4, <1>5

\* What a client says that has changed its keys.
LEMMA KeyedSays ==
  ASSUME SshInv, SshSeals, UNCHANGED <<phase, sealIn, sealOut, toClient>>,
         client.at = "exchanging", client.sealOut, client'.at \in {"exchanging", "gone"},
         Unkeyed => client'.at # "gone", client'.login = client.login,
         client'.sealIn = client.sealIn, client'.sealOut = client.sealOut,
         NEW more \in Seq(ToServerPackets), toServer' = toServer \o more, AllSealed(more)
  PROVE  SshSeals'
<1>1. PICK s \in Seq(ToServerPackets) : s = toServer BY SealTypes
<1>2. ASSUME NEW k \in Nat, k <= Len(s), SealedAfter(s, k)
      PROVE  k <= Len(s \o more) /\ SealedAfter(s \o more, k)
  BY <1>2, SealedMore
<1>3. client'.sealOut BY DEF SshSeals
<1>4. Owes = 0 /\ Owes' = 0 BY <1>3 DEF Owes
<1>5. ASSUME Unkeyed
      PROVE  \E k \in Nat : k + Owes' = Due' /\ k <= Len(toServer') /\ SealedAfter(toServer', k)
  <2>1. PICK k \in Nat : k + Owes = Due /\ k <= Len(s) /\ SealedAfter(s, k)
    BY <1>1, <1>5 DEF SshSeals, SealsIn
  <2>2. Due' = Due
    <3>1. CASE phase # "kexinit"
      <4>1. CASE phase = "newkeys" BY <4>1 DEF Due
      <4>2. CASE phase = "ecdh" BY <4>2 DEF Due
      <4>3. CASE phase = "guess" BY <4>3 DEF Due
      <4> QED BY <1>5, <3>1, <4>1, <4>2, <4>3 DEF Unkeyed
    <3>2. CASE s = <<>>
      <4>1. k = 0 BY <2>1, <3>2
      <4>2. Due # 0 BY DEF Due
      <4>3. FALSE BY <1>4, <2>1, <4>1, <4>2
      <4> QED BY <4>3
    <3>3. CASE s # <<>>
      <4>1. s \o more # <<>> /\ Head(s \o more) = Head(s)
        <5>1. Len(s) \in Nat /\ Len(s) # 0 BY <3>3
        <5>2. /\ s \o more \in Seq(ToServerPackets) /\ Len(s \o more) = Len(s) + Len(more)
              /\ \A i \in 1..(Len(s) + Len(more)) :
                   (s \o more)[i] = IF i <= Len(s) THEN s[i] ELSE more[i - Len(s)]
          BY ConcatProperties
        <5>3. Len(more) \in Nat /\ 1 \in 1..(Len(s) + Len(more)) /\ 1 <= Len(s) BY <5>1
        <5>4. (s \o more)[1] = s[1] BY <5>2, <5>3
        <5>5. s \o more # <<>> BY <5>1, <5>2, <5>3
        <5> QED BY <3>3, <5>2, <5>4, <5>5
      <4>2. toServer' # <<>> /\ toServer # <<>> /\ Head(toServer') = Head(toServer)
        BY <1>1, <3>3, <4>1
      <4>3. phase' = phase OBVIOUS
      <4> QED BY <4>2, <4>3 DEF Due
    <3> QED BY <3>1, <3>2, <3>3
  <2>3. k <= Len(s \o more) /\ SealedAfter(s \o more, k) BY <1>2, <2>1
  <2> QED BY <1>1, <1>4, <2>1, <2>2, <2>3
<1>6. sealIn => SealedAfter(toServer', 0)
  <2>1. sealIn => SealedAfter(s, 0) BY <1>1 DEF SshSeals, SealsIn
  <2>2. 0 <= Len(s) OBVIOUS
  <2> QED BY <1>1, <1>2, <2>1, <2>2
<1>7. \A i \in 1..Len(toServer') : toServer'[i].is \in Answerable => toServer'[i].sealed
  <2>1. /\ Len(s \o more) = Len(s) + Len(more)
        /\ \A i \in 1..(Len(s) + Len(more)) :
             (s \o more)[i] = IF i <= Len(s) THEN s[i] ELSE more[i - Len(s)]
    BY ConcatProperties
  <2>2. Len(s) \in Nat /\ Len(more) \in Nat OBVIOUS
  <2>3. ASSUME NEW i \in 1..(Len(s) + Len(more)), (s \o more)[i].is \in Answerable
        PROVE  (s \o more)[i].sealed
    <3>1. CASE i <= Len(s)
      <4>1. i \in 1..Len(s) /\ (s \o more)[i] = s[i] BY <2>1, <2>2, <3>1
      <4> QED BY <1>1, <2>3, <4>1 DEF SshSeals, SealsIn
    <3>2. CASE i > Len(s)
      <4>1. i - Len(s) \in 1..Len(more) /\ (s \o more)[i] = more[i - Len(s)] BY <2>1, <2>2, <3>2
      <4> QED BY <4>1 DEF AllSealed
    <3> QED BY <2>2, <3>1, <3>2
  <2> QED BY <1>1, <2>1, <2>3
<1>8. ~(phase = "closed" /\ ~sealIn) BY DEF SshSeals, SealsIn
<1>9. SealsIn'
  <2>1. Unkeyed' <=> Unkeyed BY DEF Unkeyed
  <2>2. Keyed' <=> Keyed BY DEF Keyed
  <2>3. Unkeyed' => ~sealIn' /\ client'.at # "gone" /\ ~client'.login BY <2>1 DEF SshSeals, SealsIn
  <2>4. Keyed' => sealIn' BY <2>2 DEF SshSeals, SealsIn
  <2>5. Unkeyed' => \E k \in Nat : /\ k + Owes' = Due' /\ k <= Len(toServer')
                                   /\ SealedAfter(toServer', k)
                                   /\ ~client'.sealOut => Len(toServer') = k
    BY <1>3, <1>5, <2>1
  <2>6. ~(phase' = "closed" /\ ~sealIn') BY <1>8
  <2> QED BY <1>3, <1>6, <1>7, <2>3, <2>4, <2>5, <2>6 DEF SealsIn
<1>10. SealsOut'
  <2>1. HasSaid' = HasSaid /\ (client'.at # "gone" => HasHeard' = HasHeard)
    BY DEF HasSaid, HasHeard
  <2>2. (client'.sealIn => client'.sealOut) /\ (sealIn' => sealOut') BY DEF SshSeals, SealsOut
  <2>3. Unkeyed' => Unkeyed BY DEF Unkeyed
  <2>4. Keyed' => Keyed BY DEF Keyed
  <2> QED BY <2>1, <2>2, <2>3, <2>4 DEF SshSeals, SealsOut
<1> QED BY <1>9, <1>10 DEF SshSeals

\* The driver's side of the change of keys.
LEMMA SetsUpSeals == ASSUME SshInv, SshSeals, SetsUp PROVE SshSeals'
<1>1. PICK m : m = Head(toServer) OBVIOUS
<1>2. /\ Takes /\ (Kexinit(m) \/ Guess(m) \/ EcdhInit(m) \/ NewKeys(m) \/ Login(m))
      /\ client' = client /\ toServer # <<>> /\ toServer' = Tail(toServer)
  BY <1>1 DEF SetsUp, Takes
<1>3. /\ toServer \in Seq(ToServerPackets) /\ toClient \in Seq(ToClientPackets)
      /\ sealIn \in BOOLEAN /\ sealOut \in BOOLEAN
  BY SealTypes
<1>4. CASE Unkeyed
  <2>1. /\ toServer' \in Seq(ToServerPackets) /\ client.at \notin {"hello", "gone"}
        /\ \A i \in 1..Len(toServer') : toServer'[i].is \in Answerable => toServer'[i].sealed
    BY <1>2, <1>4, UnkeyedTakes
  <2>2. PICK j \in Nat : /\ j + 1 + Owes = Due /\ j <= Len(toServer')
                         /\ SealedAfter(toServer', j)
                         /\ ~client.sealOut => Len(toServer') = j
    BY <1>2, <1>4, UnkeyedTakes
  <2>3. Owes' = Owes /\ HasHeard' = HasHeard BY <1>2 DEF Owes, GuessedRight, HasHeard
  <2>4. Owes \in Nat /\ (Owes = 0 => client.sealOut) BY DEF Owes
  <2>5. ~sealIn /\ ~client.login BY <1>4 DEF SshSeals, SealsIn
  <2>6. /\ ~client.sealOut => ~client.login /\ ~client.chan /\ client.heard = 0 /\ ~client.saw
        /\ client.sealIn => client.sealOut
        /\ client.at \in {"hello", "offered"} => ~client.sealOut
        /\ \A i \in 1..Len(toClient) : toClient[i].is \in ScriptKinds \cup {"extinfo"}
    BY <1>4 DEF SshSeals, SealsIn, SealsOut
  <2>7. /\ HasSaid <= Len(toClient) + HasHeard /\ ScriptedFrom(toClient, HasHeard, HasSaid)
        /\ ~sealOut => Len(toClient) + HasHeard = 1
    BY <1>4, <2>1 DEF SshSeals, SealsOut, Unkeyed
  <2>8. CASE phase' \in {"guess", "ecdh"} /\ UNCHANGED <<toClient, sealIn, sealOut>>
             /\ ~sealOut /\ \E d \in Nat : Due' = d /\ Due = d + 1
    <3>1. j + Owes' = Due'
      <4>1. PICK d \in Nat : Due' = d /\ Due = d + 1 BY <2>8
      <4>2. PICK o \in Nat : o = Owes BY <2>4
      <4>3. j + 1 + o = d + 1 BY <2>2, <4>1, <4>2
      <4>4. j + o = d BY <4>3
      <4> QED BY <2>3, <4>1, <4>2, <4>4
    <3>2. SealsIn' BY <1>2, <2>1, <2>2, <2>5, <2>6, <2>8, <3>1 DEF SealsIn, Unkeyed, Keyed
    <3>3. HasSaid' = HasSaid BY <2>8 DEF HasSaid
    <3>4. SealsOut' BY <1>2, <2>3, <2>5, <2>6, <2>7, <2>8, <3>3 DEF SealsOut, Unkeyed, Keyed
    <3> QED BY <3>2, <3>4 DEF SshSeals
  <2>9. CASE phase' = "closed" /\ Say("disconnect") /\ UNCHANGED <<sealIn, sealOut>> /\ ~sealOut
    <3>1. PICK n \in Nat : n = Len(toClient) BY <1>3
    <3>2. HasHeard \in {0, 1, 2, 3} BY DEF HasHeard
    <3>3. n + HasHeard = 1 BY <2>7, <2>9, <3>1
    <3>4. ~client.sealOut
      <4>1. HasHeard \in {0, 1} BY <3>1, <3>2, <3>3
      <4> QED BY <2>6, <4>1 DEF HasHeard
    <3>5. SealedAfter(toServer', Len(toServer')) BY <2>2, <3>4
    <3>6. SealsIn' BY <1>2, <2>1, <2>5, <2>6, <2>9, <3>4, <3>5 DEF SealsIn, Unkeyed, Keyed
    <3>7. PICK p : p = Packet("disconnect", 0, sealOut) OBVIOUS
    <3>8. p.is = "disconnect" /\ ~p.sealed BY <2>9, <3>7 DEF Packet
    <3>9. toClient' = Append(toClient, p) BY <2>9, <3>7 DEF Say, Says
    <3>10. /\ Len(toClient') = n + 1 /\ toClient'[n + 1] = p
           /\ \A i \in 1..n : toClient'[i] = toClient[i]
      BY <1>3, <3>1, <3>9
    <3>11. ASSUME NEW i \in 1..(n + 1)
           PROVE  ~toClient'[i].sealed /\ toClient'[i].is \in {"kexinit", "disconnect"}
      <4>1. CASE i = n + 1 BY <3>8, <3>10, <4>1
      <4>2. CASE i # n + 1
        <5>1. i = 1 /\ n = 1 /\ HasHeard = 0 BY <3>2, <3>3, <4>2
        <5>2. HasSaid = 1 BY <2>9 DEF HasSaid
        <5>3. ~toClient[1].sealed /\ toClient[1].is = Script[1]
          BY <2>7, <3>1, <5>1, <5>2 DEF ScriptedFrom
        <5> QED BY <3>10, <5>1, <5>3 DEF Script
      <4> QED BY <4>1, <4>2
    <3>12. SealsOut' BY <1>2, <2>5, <2>6, <2>9, <3>10, <3>11 DEF SealsOut, Unkeyed, Keyed
    <3> QED BY <3>6, <3>12 DEF SshSeals
  <2>10. CASE Kexinit(m)
    <3>1. phase = "kexinit" /\ ~sealOut BY <2>10 DEF Kexinit, SshSeals, SealsOut
    <3>2. CASE m.is = "kexinit strange" BY <2>9, <2>10, <3>1, <3>2 DEF Kexinit
    <3>3. CASE m.is # "kexinit strange"
      <4>1. /\ phase' = IF m.is = "kexinit wrong" THEN "guess" ELSE "ecdh"
            /\ UNCHANGED <<toClient, sealIn, sealOut>>
        BY <2>10, <3>3 DEF Kexinit
      <4>2. Due = IF m.is = "kexinit wrong" THEN 4 ELSE 3 BY <1>1, <1>2, <3>1 DEF Due
      <4>3. \E d \in Nat : Due' = d /\ Due = d + 1
        <5>1. CASE m.is = "kexinit wrong"
          <6>1. phase' = "guess" BY <4>1, <5>1
          <6>2. Due' = 3 BY <6>1 DEF Due
          <6>3. Due = 4 BY <4>2, <5>1
          <6>4. 4 = 3 + 1 OBVIOUS
          <6> QED BY <6>2, <6>3, <6>4
        <5>2. CASE m.is # "kexinit wrong"
          <6>1. phase' = "ecdh" BY <4>1, <5>2
          <6>2. Due' = 2 BY <6>1 DEF Due
          <6>3. Due = 3 BY <4>2, <5>2
          <6>4. 3 = 2 + 1 OBVIOUS
          <6> QED BY <6>2, <6>3, <6>4
        <5> QED BY <5>1, <5>2
      <4> QED BY <2>8, <3>1, <4>1, <4>3
    <3> QED BY <3>2, <3>3
  <2>11. CASE Guess(m)
    <3>1. /\ phase = "guess" /\ phase' = "ecdh" /\ UNCHANGED <<toClient, sealIn, sealOut>>
          /\ ~sealOut
      BY <2>11 DEF Guess, SshSeals, SealsOut
    <3>2. Due' = 2 /\ Due = 3 /\ 3 = 2 + 1 BY <3>1 DEF Due
    <3> QED BY <2>8, <3>1, <3>2
  <2>12. CASE EcdhInit(m)
    <3>1. /\ phase = "ecdh" /\ phase' = "newkeys" /\ sealOut' = TRUE /\ sealIn' = sealIn /\ ~sealOut
          /\ toClient' = toClient \o <<Packet("reply", 0, FALSE), Packet("newkeys", 0, FALSE),
                                      Packet("extinfo", 0, TRUE)>>
      BY <2>12 DEF EcdhInit, SshSeals, SealsOut
    <3>2. Due = 2 /\ Due' = 1 BY <3>1 DEF Due
    <3>3. j + Owes' = Due' BY <2>2, <2>3, <2>4, <3>2
    <3>4. SealsIn' BY <1>2, <2>1, <2>2, <2>5, <2>6, <3>1, <3>3 DEF SealsIn, Unkeyed, Keyed
    <3>5. PICK n \in Nat : n = Len(toClient) BY <1>3
    <3>6. PICK a : a = Packet("reply", 0, FALSE) OBVIOUS
    <3>7. PICK b : b = Packet("newkeys", 0, FALSE) OBVIOUS
    <3>8. PICK c : c = Packet("extinfo", 0, TRUE) OBVIOUS
    <3>9. /\ a.is = "reply" /\ ~a.sealed /\ b.is = "newkeys" /\ ~b.sealed
          /\ c.is = "extinfo" /\ c.sealed
      BY <3>6, <3>7, <3>8 DEF Packet
    <3>10. /\ Len(toClient') = n + 3 /\ (\A i \in 1..n : toClient'[i] = toClient[i])
           /\ toClient'[n + 1] = a /\ toClient'[n + 2] = b /\ toClient'[n + 3] = c
      <4>1. a \in ToClientPackets /\ b \in ToClientPackets /\ c \in ToClientPackets
        BY <3>6, <3>7, <3>8 DEF Packet, ToClientPackets
      <4>2. PICK more : more = <<a, b, c>> OBVIOUS
      <4>3. /\ more \in Seq(ToClientPackets) /\ Len(more) = 3
            /\ more[1] = a /\ more[2] = b /\ more[3] = c
        BY <4>1, <4>2
      <4>4. PICK k : k = Len(more) OBVIOUS
      <4>5. PICK s : s = toClient OBVIOUS
      <4>6. s \in Seq(ToClientPackets) /\ n = Len(s) BY <1>3, <3>5, <4>5
      <4>7. PICK t : t = s \o more OBVIOUS
      <4>8. toClient' = t BY <3>1, <3>6, <3>7, <3>8, <4>2, <4>5, <4>7
      <4>9. /\ Len(t) = n + k /\ (\A i \in 1..n : t[i] = s[i])
            /\ \A i \in 1..k : t[n + i] = more[i]
        <5>1. more \in Seq(ToClientPackets) BY <4>3
        <5> QED BY <4>4, <4>6, <4>7, <5>1, BothParts
      <4>10. k = 3 /\ 1 \in 1..k /\ 2 \in 1..k /\ 3 \in 1..k BY <4>3, <4>4
      <4> QED BY <4>3, <4>5, <4>8, <4>9, <4>10
    <3>11. PICK heard \in Nat : heard = HasHeard BY DEF HasHeard
    <3>12. n + heard = 1 BY <2>7, <3>1, <3>5, <3>11
    <3>13. HasSaid = 1 /\ HasSaid' = 3 BY <3>1 DEF HasSaid
    <3>14. ScriptedFrom(toClient', heard, 3)
      <4>1. ASSUME NEW i \in 1..(n + 3)
            PROVE  IF i + heard <= 3 THEN ~toClient'[i].sealed /\ toClient'[i].is = Script[i + heard]
                   ELSE toClient'[i].sealed /\ toClient'[i].is \notin ScriptKinds
        <5>1. CASE i = n + 1
          <6>1. i + heard = 2 BY <3>12, <5>1
          <6> QED BY <3>9, <3>10, <5>1, <6>1 DEF Script
        <5>2. CASE i = n + 2
          <6>1. i + heard = 3 BY <3>12, <5>2
          <6> QED BY <3>9, <3>10, <5>2, <6>1 DEF Script
        <5>3. CASE i = n + 3
          <6>1. i + heard = 4 BY <3>12, <5>3
          <6> QED BY <3>9, <3>10, <5>3, <6>1 DEF ScriptKinds
        <5>4. CASE i \in 1..n
          <6>1. i + heard = 1 BY <3>12, <5>4
          <6>2. ~toClient[i].sealed /\ toClient[i].is = Script[i + heard]
            BY <2>7, <3>5, <3>11, <3>13, <5>4, <6>1 DEF ScriptedFrom
          <6> QED BY <3>10, <5>4, <6>1, <6>2
        <5> QED BY <5>1, <5>2, <5>3, <5>4
      <4> QED BY <3>10, <4>1 DEF ScriptedFrom
    <3>15. \A i \in 1..(n + 3) : toClient'[i].is \in ScriptKinds \cup {"extinfo"}
      <4>1. ASSUME NEW i \in 1..(n + 3) PROVE toClient'[i].is \in ScriptKinds \cup {"extinfo"}
        <5>1. CASE i \in 1..n BY <2>6, <3>5, <3>10, <5>1
        <5>2. CASE i \in {n + 1, n + 2, n + 3} BY <3>9, <3>10, <5>2 DEF ScriptKinds
        <5> QED BY <5>1, <5>2
      <4> QED BY <4>1
    <3>16. 3 <= Len(toClient') + heard BY <3>10, <3>12
    <3>17. SealsOut'
      <4>1. HasHeard' = heard BY <2>3, <3>11
      <4> QED BY <1>2, <2>6, <3>1, <3>10, <3>13, <3>14, <3>15, <3>16, <4>1
           DEF SealsOut, Unkeyed, Keyed
    <3> QED BY <3>4, <3>17 DEF SshSeals
  <2>13. CASE NewKeys(m)
    <3>1. /\ phase = "newkeys" /\ phase' = "auth" /\ sealIn' = TRUE
          /\ UNCHANGED <<toClient, sealOut>> /\ sealOut
      BY <2>13 DEF NewKeys, SshSeals, SealsOut
    <3>2. Due = 1 BY <3>1 DEF Due
    <3>3. j = 0 /\ client.sealOut BY <2>2, <2>4, <3>2
    <3>4. SealsIn' BY <1>2, <2>1, <2>2, <3>1, <3>3 DEF SealsIn, Unkeyed, Keyed
    <3>5. HasSaid' = HasSaid BY <3>1 DEF HasSaid
    <3>6. SealsOut' BY <1>2, <2>3, <2>6, <2>7, <3>1, <3>3, <3>5 DEF SealsOut, Unkeyed, Keyed
    <3> QED BY <3>4, <3>6 DEF SshSeals
  <2>14. ~Login(m) BY <1>4 DEF Login, Unkeyed
  <2> QED BY <1>2, <2>10, <2>11, <2>12, <2>13, <2>14
<1>5. CASE ~Unkeyed
  <2>1. Login(m) BY <1>2, <1>5 DEF Unkeyed, Kexinit, Guess, EcdhInit, NewKeys
  <2>2. phase = "auth" /\ Keyed BY <2>1 DEF Login, Keyed
  <2>3. /\ phase' \in {"auth", "setup", "closed"} /\ UNCHANGED <<sealIn, sealOut>>
        /\ \E is \in {"disconnect"} \cup Answered : Say(is)
    <3>1. m.is \in Questions => ReplyTo(m.is) \in Answered BY DEF Questions, ReplyTo, Answered
    <3>2. {"success", "failure"} \subseteq Answered BY DEF Answered
    <3> QED BY <2>1, <2>2, <3>1, <3>2 DEF Login
  <2>4. Keyed' \/ phase' = "closed" BY <2>3 DEF Keyed
  <2> QED BY <1>2, <2>2, <2>3, <2>4, KeyedActsOnce DEF Say
<1> QED BY <1>4, <1>5

\* What touches neither end's packets, nor the phase.
LEMMA SealsStay ==
  ASSUME SshInv, SshSeals, UNCHANGED <<phase, sealIn, sealOut, client, toClient, toServer>>
  PROVE  SshSeals'
<1>1. Owes' = Owes /\ Due' = Due /\ HasHeard' = HasHeard /\ HasSaid' = HasSaid
  <2>1. phase' = phase /\ client' = client /\ sealOut' = sealOut /\ toServer' = toServer OBVIOUS
  <2> QED BY <2>1 DEF Owes, GuessedRight, Due, HasHeard, HasSaid
<1>2. Unkeyed' = Unkeyed /\ Keyed' = Keyed BY DEF Unkeyed, Keyed
<1>3. SealsIn' BY <1>1, <1>2 DEF SshSeals, SealsIn
<1>4. SealsOut' BY <1>1, <1>2 DEF SshSeals, SealsOut
<1> QED BY <1>3, <1>4 DEF SshSeals

LEMMA DriverSeals ==
  ASSUME SshInv, SshSeals,
         \/ HandlesPacket \/ SendData \/ ReadDone \/ CloseSsh \/ DrainClient
  PROVE  SshSeals'
<1>1. CASE HandlesPacket
  <2>1. PICK m : m = Head(toServer) OBVIOUS
  <2>2. /\ Takes /\ phase \in {"setup", "shell", "closing"}
        /\ OpenChannel(m) \/ Request(m) \/ Adjusted(m) \/ Data(m) \/ Ending(m)
        /\ phase' \in {"setup", "shell", "closing", "closed"}
        /\ UNCHANGED <<sealIn, sealOut, client>>
    BY <1>1, <2>1 DEF HandlesPacket, Pumped
  <2>3. \/ UNCHANGED toClient
        \/ \E is \in {"disconnect"} \cup Answered : \E n \in Nat : toClient' = Says(is, n)
    <3>1. {"confirmation", "open failure", "channel success", "channel failure", "request failure"}
            \subseteq Answered
      BY DEF Answered
    <3> QED BY <2>2, <3>1, SshBounds DEF OpenChannel, Request, Adjusted, Data, Ending, Say
  <2>4. Keyed /\ (Keyed' \/ phase' = "closed") BY <2>2 DEF Keyed
  <2> QED BY <2>2, <2>3, <2>4, KeyedActsOnce DEF Takes
<1>2. CASE SendData
  <2>1. PICK n : n = Lesser(Lesser(call.left, chan.peers), MaxPayload) OBVIOUS
  <2>2. /\ phase \in {"shell", "closing"} /\ toClient' = Says("data", n)
        /\ UNCHANGED <<phase, sealIn, sealOut, client, toServer>>
    BY <1>2, <2>1 DEF SendData
  <2>3. n \in Nat BY <2>1, SshNumbers, SshBounds DEF Lesser
  <2>4. Keyed /\ Keyed' BY <2>2 DEF Keyed
  <2> QED BY <2>2, <2>3, <2>4, KeyedActsOnce
<1>3. CASE ReadDone
  <2>1. PICK n : n = Lesser(Unread, call.want) OBVIOUS
  <2>2. phase = "shell" /\ TopUp(n) /\ UNCHANGED <<phase, sealIn, sealOut, client, toServer>>
    BY <1>3, <2>1 DEF ReadDone
  <2>3. pend.pos <= pend.len BY DEF SshInv, SshType
  <2>4. n \in Nat BY <2>1, <2>3, SshNumbers DEF Lesser, Unread
  <2>5. PICK mine : mine = IF chan.mine > n THEN chan.mine - n ELSE 0 OBVIOUS
  <2>6. mine \in Nat BY <2>4, <2>5, SshNumbers
  <2>7. UNCHANGED toClient \/ (~(mine > Window \div 2) /\ toClient' = Says("adjust", Window - mine))
    BY <2>2, <2>5 DEF TopUp
  <2>8. ~(mine > Window \div 2) => Window - mine \in Nat BY <2>6, SshBounds
  <2>9. Keyed /\ Keyed' BY <2>2 DEF Keyed
  <2> QED BY <2>2, <2>7, <2>8, <2>9, KeyedActsOnce
<1>4. CASE CloseSsh \/ DrainClient
  <2>1. /\ phase \in {"shell", "draining"} /\ phase' \in {"draining", "closing", "closed"}
        /\ UNCHANGED <<sealIn, sealOut, client, toClient>>
        /\ toServer' = toServer \/ (toServer # <<>> /\ toServer' = Tail(toServer))
    BY <1>4 DEF CloseSsh, DrainClient
  <2>2. Keyed /\ (Keyed' \/ phase' = "closed") BY <2>1 DEF Keyed
  <2> QED BY <2>1, <2>2, KeyedActsOnce
<1> QED BY <1>1, <1>2, <1>3, <1>4

LEMMA FarewellSeals == ASSUME SshInv, SshSeals, Farewell PROVE SshSeals'
<1>1. /\ phase = "closing" /\ phase' = "draining"
      /\ toClient' = Goodbyes(<<"status", "eof", "close">>)
      /\ UNCHANGED <<sealIn, sealOut, client, toServer>>
  BY DEF Farewell
<1>2. Keyed /\ Keyed' BY <1>1 DEF Keyed
<1>3. sealOut BY <1>2 DEF SshSeals, SealsOut
<1>4. PICK kinds : kinds = <<"status", "eof", "close">> OBVIOUS
<1>5. DOMAIN kinds = 1..3 /\ \A i \in 1..3 : kinds[i] \in {"status", "eof", "close"}
  BY <1>4
<1>6. PICK more : more = [i \in DOMAIN kinds |-> Packet(kinds[i], 0, sealOut)] OBVIOUS
<1>7. \A i \in 1..3 : /\ more[i] \in ToClientPackets /\ more[i].sealed
                      /\ more[i].is \notin ScriptKinds
  <2>1. ASSUME NEW i \in 1..3
        PROVE  more[i] \in ToClientPackets /\ more[i].sealed /\ more[i].is \notin ScriptKinds
    <3>1. more[i] = Packet(kinds[i], 0, sealOut) BY <1>5, <1>6
    <3>2. more[i].is \in {"status", "eof", "close"} /\ more[i].sealed
          /\ more[i] \in ToClientPackets
      BY <1>3, <1>5, <3>1, SealTypes DEF Packet, ToClientPackets
    <3> QED BY <3>2 DEF ScriptKinds
  <2> QED BY <2>1
<1>8. more \in Seq(ToClientPackets) /\ DOMAIN more = 1..3
  <2>1. PICK k \in Nat : k = 3 OBVIOUS
  <2>2. more \in [1..k -> ToClientPackets] BY <1>5, <1>6, <1>7, <2>1
  <2>3. more \in Seq(ToClientPackets) BY <2>2
  <2> QED BY <1>5, <1>6, <2>3
<1>9. Len(more) = 3 BY <1>8
<1>10. toClient' = toClient \o more BY <1>1, <1>4, <1>6 DEF Goodbyes
<1> QED BY <1>1, <1>2, <1>7, <1>8, <1>9, <1>10, KeyedActs

LEMMA PastDeadlineSeals == ASSUME SshInv, SshSeals, PastDeadline PROVE SshSeals'
<1>1. /\ phase = "draining" /\ phase' = "closed" /\ toServer' = <<>>
      /\ toClient' = <<>> \/ toClient' = toClient \/ toClient' = Says("disconnect", 0)
      /\ UNCHANGED <<sealIn, sealOut, client>>
  BY DEF PastDeadline
<1>2. Keyed BY <1>1 DEF Keyed
<1>3. CASE toClient' = toClient \/ toClient' = Says("disconnect", 0)
  BY <1>1, <1>2, <1>3, KeyedActsOnce
<1>4. CASE toClient' = <<>>
  <2>1. sealIn' /\ sealOut' /\ client.sealOut /\ client.at # "hello"
    BY <1>1, <1>2 DEF SshSeals, SealsIn, SealsOut
  <2>2. ~Unkeyed' /\ ~Keyed' BY <1>1 DEF Unkeyed, Keyed
  <2>3. SealsIn' BY <1>1, <2>1, <2>2 DEF SealsIn, SealedAfter
  <2>4. client.at \in {"hello", "offered"} => ~client.sealOut BY DEF SshSeals, SealsOut
  <2>5. SealsOut' BY <1>1, <1>4, <2>1, <2>2, <2>4 DEF SealsOut, ScriptedFrom
  <2> QED BY <2>3, <2>5 DEF SshSeals
<1> QED BY <1>1, <1>3, <1>4

LEMMA CutSeals == ASSUME SshInv, SshSeals, Cut PROVE SshSeals'
<1>1. /\ toClient' = <<>> /\ toServer' = <<>> /\ UNCHANGED <<sealIn, sealOut>>
      /\ client' = IF client.at = "gone" THEN client
                   ELSE [client EXCEPT !.at = "gone", !.end = "cut"]
      /\ (phase' = phase /\ phase \in {"shell", "closing"}) \/ phase' = "closed"
  BY DEF Cut
<1>2. client \in ClientType BY SealTypes
<1>3. /\ client'.at = "gone" /\ client'.sealIn = client.sealIn /\ client'.sealOut = client.sealOut
      /\ client'.login = client.login /\ client'.chan = client.chan /\ client'.heard = client.heard
      /\ client'.saw = client.saw
  <2>1. CASE client.at = "gone" BY <1>1, <2>1
  <2>2. CASE client.at # "gone"
    <3>1. client' = [client EXCEPT !.at = "gone", !.end = "cut"] BY <1>1, <2>2
    <3> QED BY <1>2, <3>1 DEF ClientType
  <2> QED BY <2>1, <2>2
<1>4. ~Unkeyed' /\ (Keyed' => Keyed) BY <1>1 DEF Unkeyed, Keyed
<1>5. SealedAfter(toServer', Len(toServer')) /\ SealedAfter(toServer', 0)
      /\ \A i \in 1..Len(toServer') : FALSE
  BY <1>1 DEF SealedAfter
<1>6. SealsIn' BY <1>1, <1>3, <1>4, <1>5 DEF SshSeals, SealsIn
<1>7. phase' \notin {"kexinit", "guess", "ecdh", "newkeys"} BY <1>1
<1>8. SealsOut' BY <1>1, <1>3, <1>4, <1>7 DEF SshSeals, SealsOut
<1> QED BY <1>6, <1>8 DEF SshSeals

(***************************************************************************)
(* The client's side of the change of keys.                                *)
(***************************************************************************)
\* What a client says in the clear is what it says first.
LEMMA HelloSeals == ASSUME SshInv, SshSeals, Hello PROVE SshSeals'
<1>1. PICK guess :
        /\ guess \in {"kexinit", "kexinit right", "kexinit wrong", "kexinit strange"}
        /\ ClientSays([client EXCEPT !.at = "offered", !.guess = guess],
                      ByClient(guess, 0) \o (CASE guess = "kexinit right" -> ByClient("ecdh", 0)
                                               [] guess = "kexinit wrong" -> ByClient("other", 0)
                                               [] OTHER -> <<>>))
  BY DEF Hello
<1>2. /\ client.at = "hello" /\ phase = "kexinit" /\ toServer = <<>> /\ ~sealIn /\ ~sealOut
      /\ ~client.sealOut /\ ~client.sealIn /\ client \in ClientType
      /\ ~client.login /\ ~client.chan /\ client.heard = 0 /\ ~client.saw
  BY SealTypes DEF Hello, SshSeals, SealsIn, SealsOut, Unkeyed
<1>3. PICK rest : rest = CASE guess = "kexinit right" -> ByClient("ecdh", 0)
                           [] guess = "kexinit wrong" -> ByClient("other", 0)
                           [] OTHER -> <<>>
  OBVIOUS
<1>4. PICK p : p = Packet(guess, 0, FALSE) OBVIOUS
<1>5. p \in ToServerPackets /\ p.is = guess /\ ~p.sealed BY <1>1, <1>4 DEF Packet, ToServerPackets
<1>6. ByClient(guess, 0) = <<p>>
  <2>1. client.sealOut = FALSE BY <1>2, SealTypes
  <2> QED BY <1>4, <2>1 DEF ByClient
<1>7. /\ client' = [client EXCEPT !.at = "offered", !.guess = guess]
      /\ toServer' = toServer \o (<<p>> \o rest)
      /\ UNCHANGED <<sessionVars, toClient>>
  BY <1>1, <1>3, <1>6 DEF ClientSays
<1>8. UNCHANGED <<phase, sealIn, sealOut, toClient>> BY <1>7 DEF sessionVars
<1>9. /\ client'.at = "offered" /\ client'.guess = guess /\ ~client'.sealOut /\ ~client'.sealIn
      /\ ~client'.login /\ ~client'.chan /\ client'.heard = 0 /\ ~client'.saw
  BY <1>2, <1>7 DEF ClientType
<1>10. PICK q : q = Packet(IF guess = "kexinit right" THEN "ecdh" ELSE "other", 0, FALSE) OBVIOUS
<1>11. q \in ToServerPackets /\ ~q.sealed /\ q.is \in {"ecdh", "other"}
  BY <1>10 DEF Packet, ToServerPackets
<1>12. rest = IF guess \in {"kexinit right", "kexinit wrong"} THEN <<q>> ELSE <<>>
  <2>1. client.sealOut = FALSE BY <1>2, SealTypes
  <2>2. CASE guess = "kexinit right" BY <1>3, <1>10, <2>1, <2>2 DEF ByClient
  <2>3. CASE guess = "kexinit wrong" BY <1>3, <1>10, <2>1, <2>3 DEF ByClient
  <2>4. CASE guess \notin {"kexinit right", "kexinit wrong"} BY <1>3, <2>4
  <2> QED BY <2>2, <2>3, <2>4
<1>13. PICK long : long = (guess \in {"kexinit right", "kexinit wrong"}) OBVIOUS
<1>14. PICK t : t = toServer' OBVIOUS
<1>15. \E k \in Nat : /\ k = (IF long THEN 2 ELSE 1) /\ Len(t) = k /\ Head(t).is = guess /\ t # <<>>
                      /\ \A i \in 1..k : ~t[i].sealed /\ t[i].is \in {guess, "ecdh", "other"}
  <2>1. CASE long
    <3>1. PICK one : one = <<p>> OBVIOUS
    <3>2. one \in Seq(ToServerPackets) /\ Len(one) = 1 /\ one[1] = p BY <1>5, <3>1
    <3>3. PICK two : two = Append(one, q) OBVIOUS
    <3>4. /\ two \in Seq(ToServerPackets) /\ Len(two) = 2 /\ two[1] = p /\ two[2] = q
          /\ two # <<>> /\ Head(two) = p
      BY <1>11, <3>2, <3>3
    <3>5. two = <<p>> \o rest
      <4>1. two = one \o <<q>> BY <1>11, <3>2, <3>3, AppendIsConcat
      <4> QED BY <1>12, <1>13, <2>1, <3>1, <4>1
    <3>6. t = two
      <4>1. <<>> \o two = two BY <3>4, ConcatEmptySeq
      <4> QED BY <1>2, <1>7, <1>14, <3>5, <4>1
    <3>7. \A i \in 1..2 : i = 1 \/ i = 2 OBVIOUS
    <3>8. \A i \in 1..2 : ~two[i].sealed /\ two[i].is \in {guess, "ecdh", "other"}
      BY <1>5, <1>11, <3>4, <3>7
    <3> QED BY <1>5, <2>1, <3>4, <3>6, <3>8
  <2>2. CASE ~long
    <3>1. PICK one : one = <<p>> OBVIOUS
    <3>2. one \in Seq(ToServerPackets) BY <1>5, <3>1
    <3>3. t = one
      <4>1. one \o <<>> = one /\ <<>> \o one = one BY <3>2, ConcatEmptySeq
      <4> QED BY <1>2, <1>7, <1>12, <1>13, <1>14, <2>2, <3>1, <4>1
    <3>4. Len(one) = 1 /\ one[1] = p /\ Head(one) = p /\ one # <<>> BY <3>1
    <3>5. \A i \in 1..1 : i = 1 OBVIOUS
    <3>6. \A i \in 1..1 : ~one[i].sealed /\ one[i].is \in {guess, "ecdh", "other"}
      BY <1>5, <3>4, <3>5
    <3> QED BY <1>5, <2>2, <3>3, <3>4, <3>6
  <2> QED BY <2>1, <2>2
<1>16. PICK k \in Nat : /\ k = (IF long THEN 2 ELSE 1) /\ Len(t) = k /\ Head(t).is = guess
                        /\ t # <<>>
                        /\ \A i \in 1..k : ~t[i].sealed /\ t[i].is \in {guess, "ecdh", "other"}
  BY <1>15
<1>17. SealedAfter(t, k)
  <2>1. \A i \in 1..k : ~(i > k) OBVIOUS
  <2> QED BY <1>16, <2>1 DEF SealedAfter
<1>18. k + Owes' = Due'
  <2>1. Due' = IF guess = "kexinit wrong" THEN 4 ELSE 3 BY <1>2, <1>8, <1>14, <1>16 DEF Due
  <2>2. Owes' = IF guess # "kexinit right" THEN 2 ELSE 1 BY <1>9 DEF Owes, GuessedRight
  <2>3. CASE guess = "kexinit wrong"
    <3>1. Due' = 4 BY <2>1, <2>3
    <3>2. Owes' = 2 BY <2>2, <2>3
    <3>3. long BY <1>13, <2>3
    <3>4. k = 2 BY <1>16, <3>3
    <3>5. k + 2 = 4 BY <3>4
    <3> QED BY <3>1, <3>2, <3>5
  <2>4. CASE guess = "kexinit right"
    <3>1. Due' = 3 BY <2>1, <2>4
    <3>2. Owes' = 1 BY <2>2, <2>4
    <3>3. long BY <1>13, <2>4
    <3>4. k = 2 BY <1>16, <3>3
    <3>5. k + 1 = 3 BY <3>4
    <3> QED BY <3>1, <3>2, <3>5
  <2>5. CASE guess \notin {"kexinit right", "kexinit wrong"}
    <3>1. Due' = 3 BY <2>1, <2>5
    <3>2. Owes' = 2 BY <2>2, <2>5
    <3>3. ~long BY <1>13, <2>5
    <3>4. k = 1 BY <1>16, <3>3
    <3>5. k + 2 = 3 BY <3>4
    <3> QED BY <3>1, <3>2, <3>5
  <2> QED BY <2>3, <2>4, <2>5
<1>19. SealsIn'
  <2>1. \A i \in 1..Len(t) : t[i].is \notin Answerable
    <3>1. {guess, "ecdh", "other"} \cap Answerable = {}
      <4>1. guess \in {"kexinit", "kexinit right", "kexinit wrong", "kexinit strange"} BY <1>1
      <4> QED BY <4>1 DEF Answerable, Questions, Attempts, Proofs
    <3> QED BY <1>16, <3>1
  <2>2. k <= Len(t) BY <1>16
  <2>3. \E j \in Nat : /\ j + Owes' = Due' /\ j <= Len(toServer') /\ SealedAfter(toServer', j)
                       /\ ~client'.sealOut => Len(toServer') = j
    BY <1>14, <1>16, <1>17, <1>18, <2>2
  <2>4. phase' = "kexinit" /\ ~sealIn' BY <1>2, <1>8
  <2>5. Unkeyed' /\ ~Keyed' BY <2>4 DEF Unkeyed, Keyed
  <2>6. client'.at # "hello" /\ client'.at # "gone" BY <1>9
  <2>7. \A i \in 1..Len(toServer') : toServer'[i].is \in Answerable => toServer'[i].sealed
    BY <1>14, <2>1
  <2>8. phase' # "closed" BY <2>4
  <2> QED BY <1>9, <2>3, <2>4, <2>5, <2>6, <2>7, <2>8 DEF SealsIn
<1>20. HasHeard' = 0 /\ HasHeard = 0 /\ HasSaid' = HasSaid BY <1>2, <1>8, <1>9 DEF HasHeard, HasSaid
<1>21. SealsOut'
  <2>1. /\ HasSaid <= Len(toClient) + HasHeard /\ ScriptedFrom(toClient, HasHeard, HasSaid)
        /\ Len(toClient) + HasHeard = 1
        /\ \A i \in 1..Len(toClient) : toClient[i].is \in ScriptKinds \cup {"extinfo"}
    BY <1>2 DEF SshSeals, SealsOut, Unkeyed
  <2>2. /\ HasSaid' <= Len(toClient') + HasHeard' /\ ScriptedFrom(toClient', HasHeard', HasSaid')
        /\ Len(toClient') + HasHeard' = 1
    BY <1>8, <1>20, <2>1
  <2> QED BY <1>2, <1>8, <1>9, <2>1, <2>2 DEF SealsOut, Unkeyed, Keyed
<1> QED BY <1>19, <1>21 DEF SshSeals

\* What does not bear on the keys.
SameElse(c) ==
  c.login = client.login /\ c.chan = client.chan /\ c.heard = client.heard /\ c.saw = client.saw

\* What becomes of its keys when it hears a packet.
LEMMA UnderstandsKeys ==
  ASSUME SshInv, NEW m \in ToClientPackets, NEW c, c = Understood(m)
  PROVE  /\ m.is = "kexinit" => /\ c.at = "exchanging" /\ c.guess = "none" /\ SameElse(c)
                                /\ c.sealIn = client.sealIn /\ c.sealOut = client.sealOut
         /\ m.is = "reply" => /\ c.at = client.at /\ c.sealOut /\ SameElse(c)
                              /\ c.sealIn = client.sealIn
         /\ m.is = "newkeys" => /\ c.at = client.at /\ c.sealIn /\ SameElse(c)
                                /\ c.guess = client.guess /\ c.sealOut = client.sealOut
         /\ m.is \notin ScriptKinds =>
              /\ c.at = IF m.is = "disconnect" THEN "gone" ELSE client.at
              /\ c.guess = client.guess /\ c.sealIn = client.sealIn /\ c.sealOut = client.sealOut
         /\ m.is = "disconnect" => SameElse(c)
         /\ m.is = "extinfo" => c = client
<1>1. client \in ClientType BY SealTypes
<1>2. CASE m.is = "kexinit"
  <2>1. c = [client EXCEPT !.at = "exchanging", !.guess = "none"] BY <1>2 DEF Understood, Answered
  <2>2. /\ c.at = "exchanging" /\ c.guess = "none" /\ SameElse(c)
        /\ c.sealIn = client.sealIn /\ c.sealOut = client.sealOut
    BY <1>1, <2>1 DEF ClientType, SameElse
  <2> QED BY <1>2, <2>2 DEF ScriptKinds
<1>3. CASE m.is = "reply"
  <2>1. c = [client EXCEPT !.sealOut = TRUE] BY <1>3 DEF Understood, Answered
  <2>2. c.at = client.at /\ c.sealOut /\ SameElse(c) /\ c.sealIn = client.sealIn
    BY <1>1, <2>1 DEF ClientType, SameElse
  <2> QED BY <1>3, <2>2 DEF ScriptKinds
<1>4. CASE m.is = "newkeys"
  <2>1. c = [client EXCEPT !.sealIn = TRUE] BY <1>4 DEF Understood, Answered
  <2>2. /\ c.at = client.at /\ c.sealIn /\ SameElse(c)
        /\ c.guess = client.guess /\ c.sealOut = client.sealOut
    BY <1>1, <2>1 DEF ClientType, SameElse
  <2> QED BY <1>4, <2>2 DEF ScriptKinds
<1>5. CASE m.is = "disconnect"
  <2>1. c = [client EXCEPT !.at = "gone", !.end = "told"]
    BY <1>5 DEF Understood, Answered, LeftAs
  <2>2. /\ c.at = "gone" /\ c.guess = client.guess /\ c.sealIn = client.sealIn
        /\ c.sealOut = client.sealOut /\ SameElse(c)
    BY <1>1, <2>1 DEF ClientType, SameElse
  <2> QED BY <1>5, <2>2 DEF ScriptKinds
<1>6. CASE m.is = "extinfo"
  <2>1. c = client BY <1>6 DEF Understood, Answered
  <2> QED BY <1>6, <2>1 DEF ScriptKinds
<1>7. CASE m.is \in {"adjust", "data", "status", "eof", "close"} \cup Answered
  <2>1. m.is \notin {"kexinit", "reply", "newkeys", "disconnect", "extinfo"} BY <1>7 DEF Answered
  <2>2. /\ c.at = client.at /\ c.guess = client.guess /\ c.sealIn = client.sealIn
        /\ c.sealOut = client.sealOut
    <3>1. CASE m.is = "adjust"
      <4>1. c = [client EXCEPT !.credit = client.credit + m.n] BY <3>1 DEF Understood, Answered
      <4>2. PICK n : n = client.credit + m.n OBVIOUS
      <4>3. c = [client EXCEPT !.credit = n] BY <4>1, <4>2
      <4> QED BY <1>1, <4>3 DEF ClientType
    <3>2. CASE m.is = "data"
      <4>1. c = [client EXCEPT !.heard = client.heard + m.n] BY <3>2 DEF Understood, Answered
      <4>2. PICK n : n = client.heard + m.n OBVIOUS
      <4>3. c = [client EXCEPT !.heard = n] BY <4>1, <4>2
      <4> QED BY <1>1, <4>3 DEF ClientType
    <3>3. CASE m.is = "close"
      <4>1. c = [client EXCEPT !.saw = TRUE] BY <3>3 DEF Understood, Answered
      <4> QED BY <1>1, <4>1 DEF ClientType
    <3>4. CASE m.is \in {"status", "eof"}
      <4>1. c = client BY <3>4 DEF Understood, Answered
      <4> QED BY <4>1
    <3>5. CASE m.is \in Answered
      <4>1. PICK asked : asked = Tail(client.asked) OBVIOUS
      <4>2. PICK login : login = (client.login \/ m.is = "success") OBVIOUS
      <4>3. PICK asks : asks = IF m.is = "success" THEN 0 ELSE client.asks OBVIOUS
      <4>4. PICK open : open = (client.chan \/ m.is = "confirmation") OBVIOUS
      <4>5. PICK credit : credit = IF m.is = "confirmation" THEN m.n ELSE client.credit OBVIOUS
      <4>6. c = [client EXCEPT !.asked = asked, !.login = login, !.asks = asks, !.chan = open,
                               !.credit = credit]
        BY <3>5, <4>1, <4>2, <4>3, <4>4, <4>5 DEF Understood, Answered
      <4> QED BY <1>1, <4>6 DEF ClientType
    <3> QED BY <1>7, <3>1, <3>2, <3>3, <3>4, <3>5
  <2> QED BY <2>1, <2>2
<1> QED BY <1>2, <1>3, <1>4, <1>5, <1>6, <1>7 DEF ToClientPackets

\* One packet more in the clear, of a client whose packets all are.
LEMMA OneClear ==
  ASSUME SshInv, SshSeals, SealedAfter(toServer, Len(toServer)), ~client.sealOut,
         NEW is \in {"ecdh", "newkeys"}, toServer' = toServer \o ByClient(is, 0)
  PROVE  /\ Len(toServer') = Len(toServer) + 1 /\ SealedAfter(toServer', Len(toServer'))
         /\ \A i \in 1..Len(toServer') : toServer'[i].is \in Answerable => toServer'[i].sealed
         /\ toServer # <<>> => toServer' # <<>> /\ Head(toServer') = Head(toServer)
<1>1. PICK s : s = toServer OBVIOUS
<1>2. PICK p : p = Packet(is, 0, client.sealOut) OBVIOUS
<1>3. p \in ToServerPackets /\ ~p.sealed /\ p.is = is
  BY <1>2, SealTypes DEF Packet, ToServerPackets
<1>4. s \in Seq(ToServerPackets) BY <1>1, SealTypes
<1>5. PICK t : t = Append(s, p) OBVIOUS
<1>6. toServer' = t
  <2>1. ByClient(is, 0) = <<p>> BY <1>2 DEF ByClient
  <2>2. Append(s, p) = s \o <<p>> BY <1>3, <1>4, AppendIsConcat
  <2> QED BY <1>1, <1>5, <2>1, <2>2
<1>7. /\ t \in Seq(ToServerPackets) /\ Len(t) = Len(s) + 1 /\ SealedAfter(t, Len(t))
  BY <1>1, <1>3, <1>4, <1>5, ClearMore
<1>8. PICK n \in Nat : n = Len(s) BY <1>4
<1>9. t[n + 1] = p /\ \A i \in 1..n : t[i] = s[i] BY <1>3, <1>4, <1>5, <1>8
<1>10. \A i \in 1..(n + 1) : t[i].is \in Answerable => t[i].sealed
  <2>1. p.is \notin Answerable BY <1>3 DEF Answerable, Questions, Attempts, Proofs
  <2>2. \A i \in 1..n : s[i].is \in Answerable => s[i].sealed
    BY <1>1, <1>8 DEF SshSeals, SealsIn
  <2>3. \A i \in 1..(n + 1) : i = n + 1 \/ i \in 1..n OBVIOUS
  <2> QED BY <1>9, <2>1, <2>2, <2>3
<1>11. s # <<>> => t # <<>> /\ Head(t) = Head(s)
  <2>1. ASSUME s # <<>> PROVE t # <<>> /\ Head(t) = Head(s)
    <3>1. n # 0 BY <1>4, <1>8, <2>1
    <3>2. 1 \in 1..n /\ Len(t) # 0 BY <1>7, <1>8, <3>1
    <3>3. Head(s) = s[1] /\ Head(t) = t[1] BY <1>4, <1>7, <2>1
    <3> QED BY <1>7, <1>9, <3>2, <3>3
  <2> QED BY <2>1
<1> QED BY <1>1, <1>6, <1>7, <1>8, <1>10, <1>11

\* It hears the driver's kexinit: it answers with its own choice, or has done so.
LEMMA HearsKexinit ==
  ASSUME SshInv, SshSeals, UNCHANGED <<phase, sealIn, sealOut>>, client.at = "offered",
         SameElse(client'), client'.at = "exchanging", client'.sealIn = client.sealIn,
         client'.sealOut = client.sealOut,
         GuessedRight => toServer' = toServer,
         ~GuessedRight => toServer' = toServer \o ByClient("ecdh", 0),
         toClient # <<>>, toClient' = Tail(toClient), sealOut \/ phase # "closed"
  PROVE  SshSeals'
<1>1. ~client.sealOut /\ ~client.sealIn /\ ~sealIn /\ Unkeyed
  BY SealTypes DEF SshSeals, SealsIn, SealsOut
<1>2. Unkeyed' /\ ~Keyed' /\ phase' # "closed" BY <1>1 DEF Unkeyed, Keyed
<1>3. PICK k \in Nat : k + Owes = Due /\ SealedAfter(toServer, k) /\ Len(toServer) = k
  BY <1>1 DEF SshSeals, SealsIn
<1>4. /\ ~client.login /\ ~client.chan /\ client.heard = 0 /\ ~client.saw
      /\ \A i \in 1..Len(toServer) : toServer[i].is \in Answerable => toServer[i].sealed
  BY <1>1 DEF SshSeals, SealsIn
<1>5. Owes' = 1 BY <1>1 DEF Owes
<1>6. \E j \in Nat : /\ j + Owes' = Due' /\ Len(toServer') = j /\ SealedAfter(toServer', j)
                    /\ \A i \in 1..j : toServer'[i].is \in Answerable => toServer'[i].sealed
  <2>1. CASE GuessedRight
    <3>1. Owes = 1 /\ toServer' = toServer BY <1>1, <2>1 DEF Owes
    <3>2. phase' = phase OBVIOUS
    <3>3. Due' = Due BY <3>1, <3>2 DEF Due
    <3> QED BY <1>3, <1>4, <1>5, <3>1, <3>3
  <2>2. CASE ~GuessedRight
    <3>1. Owes = 2 /\ toServer' = toServer \o ByClient("ecdh", 0) BY <1>1, <2>2 DEF Owes
    <3>2. /\ Len(toServer') = k + 1 /\ SealedAfter(toServer', Len(toServer'))
          /\ \A i \in 1..Len(toServer') : toServer'[i].is \in Answerable => toServer'[i].sealed
          /\ toServer # <<>> => toServer' # <<>> /\ Head(toServer') = Head(toServer)
      BY <1>1, <1>3, <3>1, OneClear
    <3>3. Due = k + 2 BY <1>3, <3>1
    <3>4. Due' = Due
      <4>1. phase' = phase OBVIOUS
      <4>2. CASE phase # "kexinit"
        <5>1. CASE phase = "newkeys" BY <5>1 DEF Due
        <5>2. CASE phase = "ecdh" BY <5>2 DEF Due
        <5>3. CASE phase = "guess" BY <5>3 DEF Due
        <5> QED BY <1>1, <4>2, <5>1, <5>2, <5>3 DEF Unkeyed
      <4>3. CASE phase = "kexinit"
        <5>1. toServer # <<>>
          <6>1. Due \in {3, 4} BY <4>3 DEF Due
          <6>2. k # 0 BY <3>3, <6>1
          <6> QED BY <1>3, <6>2
        <5> QED BY <3>2, <4>1, <5>1 DEF Due
      <4> QED BY <4>2, <4>3
    <3>5. k + 1 + 1 = Due BY <3>3
    <3> QED BY <1>5, <3>2, <3>4, <3>5
  <2> QED BY <2>1, <2>2
<1>7. PICK j \in Nat : /\ j + Owes' = Due' /\ Len(toServer') = j /\ SealedAfter(toServer', j)
                      /\ \A i \in 1..j : toServer'[i].is \in Answerable => toServer'[i].sealed
  BY <1>6
<1>8. SealsIn'
  <2>1. j <= Len(toServer') BY <1>7
  <2> QED BY <1>1, <1>2, <1>4, <1>7, <2>1 DEF SealsIn, SameElse
<1>9. HasHeard = 0 /\ HasHeard' = 1 /\ HasSaid' = HasSaid BY <1>1 DEF HasHeard, HasSaid
<1>10. PICK said \in Nat : said = HasSaid /\ said >= 1 BY DEF HasSaid
<1>11. PICK s : s = toClient OBVIOUS
<1>12. s \in Seq(ToClientPackets) /\ s # <<>> BY <1>11, SealTypes
<1>13. phase # "closed" BY <1>1 DEF Unkeyed
<1>14. /\ said <= Len(s) + 0 /\ ScriptedFrom(s, 0, said) /\ (~sealOut => Len(s) + 0 = 1)
       /\ \A i \in 1..Len(s) : s[i].is \in ScriptKinds \cup {"extinfo"}
  BY <1>1, <1>9, <1>10, <1>11, <1>13 DEF SshSeals, SealsOut
<1>15. PICK n \in Nat : n = Len(Tail(s)) BY <1>12
<1>16. Len(s) = n + 1 /\ ScriptedFrom(Tail(s), 1, said)
  <2>1. 0 < said /\ 0 + 1 = 1 BY <1>10
  <2>2. Len(s) = n + 1 /\ ScriptedFrom(Tail(s), 0 + 1, said)
    BY <1>12, <1>14, <1>15, <2>1, ScriptedLess
  <2> QED BY <2>1, <2>2
<1>17. \A i \in 1..n : Tail(s)[i] = s[i + 1] /\ i + 1 \in 1..Len(s) BY <1>12, <1>15, <1>16
<1>18. SealsOut'
  <2>1. said <= n + 1 /\ (~sealOut => n + 1 = 1) BY <1>14, <1>16
  <2>2. toClient' = Tail(s) BY <1>11
  <2>3. \A i \in 1..Len(toClient') : toClient'[i].is \in ScriptKinds \cup {"extinfo"}
    BY <1>14, <1>15, <1>17, <2>2
  <2>4. /\ HasSaid' <= Len(toClient') + HasHeard' /\ (~sealOut' => Len(toClient') + HasHeard' = 1)
        /\ ScriptedFrom(toClient', HasHeard', HasSaid')
    BY <1>9, <1>10, <1>15, <1>16, <2>1, <2>2
  <2>5. phase' = phase /\ sealOut' = sealOut /\ sealIn' = sealIn OBVIOUS
  <2>6. phase' \in {"kexinit", "guess", "ecdh"} => ~sealOut' BY <2>5 DEF SshSeals, SealsOut
  <2>7. phase' = "newkeys" => sealOut' BY <2>5 DEF SshSeals, SealsOut
  <2> QED BY <1>1, <1>2, <2>3, <2>4, <2>5, <2>6, <2>7 DEF SealsOut
<1> QED BY <1>8, <1>18 DEF SshSeals

\* What is left when it has heard one packet more.
LEMMA HasHeardOne ==
  ASSUME SshInv, SshSeals, toClient # <<>>, client.at # "gone", sealOut \/ phase # "closed",
         toClient' = Tail(toClient), NEW heard \in Nat, heard = HasHeard, NEW said \in Nat,
         said = HasSaid
  PROVE  /\ Len(toClient) = Len(toClient') + 1 /\ Len(toClient') \in Nat
         /\ phase # "closed" => said <= Len(toClient') + 1 + heard
         /\ ~sealOut => Len(toClient') + 1 + heard = 1
         /\ heard < said => ScriptedFrom(toClient', heard + 1, said)
         /\ heard >= said => ScriptedFrom(toClient', heard, said)
         /\ Unkeyed => \A i \in 1..Len(toClient') : toClient'[i].is \in ScriptKinds \cup {"extinfo"}
<1>1. PICK s : s = toClient OBVIOUS
<1>2. s \in Seq(ToClientPackets) /\ s # <<>> BY <1>1, SealTypes
<1>3. ScriptedFrom(s, heard, said) /\ (phase # "closed" => said <= Len(s) + heard)
      /\ (~sealOut => Len(s) + heard = 1)
  <2>1. /\ ScriptedFrom(toClient, HasHeard, HasSaid)
        /\ phase # "closed" => HasSaid <= Len(toClient) + HasHeard
        /\ ~sealOut => Len(toClient) + HasHeard = 1
    BY DEF SshSeals, SealsOut
  <2> QED BY <1>1, <2>1
<1>4. PICK t : t = Tail(s) OBVIOUS
<1>5. toClient' = t BY <1>1, <1>4
<1>6. PICK n \in Nat : n = Len(t) BY <1>2, <1>4
<1>7. /\ Len(s) = n + 1
      /\ heard < said => ScriptedFrom(t, heard + 1, said)
      /\ heard >= said => ScriptedFrom(t, heard, said)
  BY <1>2, <1>3, <1>4, <1>6, ScriptedLess
<1>8. \A i \in 1..n : t[i] = s[i + 1] /\ i + 1 \in 1..Len(s) BY <1>2, <1>4, <1>6, <1>7
<1>9. Unkeyed => \A i \in 1..Len(s) : s[i].is \in ScriptKinds \cup {"extinfo"}
  BY <1>1 DEF SshSeals, SealsOut
<1>10. Unkeyed => \A i \in 1..n : t[i].is \in ScriptKinds \cup {"extinfo"} BY <1>8, <1>9
<1>11. Len(toClient) = n + 1 /\ Len(toClient') = n BY <1>1, <1>5, <1>6, <1>7
<1>12. /\ Len(toClient) = Len(toClient') + 1 /\ Len(toClient') \in Nat
       /\ phase # "closed" => said <= Len(toClient') + 1 + heard
       /\ ~sealOut => Len(toClient') + 1 + heard = 1
  BY <1>3, <1>7, <1>11
<1>13. /\ heard < said => ScriptedFrom(toClient', heard + 1, said)
       /\ heard >= said => ScriptedFrom(toClient', heard, said)
  BY <1>5, <1>7
<1>14. Unkeyed => \A i \in 1..Len(toClient') : toClient'[i].is \in ScriptKinds \cup {"extinfo"}
  BY <1>5, <1>6, <1>10
<1> QED BY <1>12, <1>13, <1>14

\* It hears the driver's part of the keys: it changes its own after one more packet.
LEMMA HearsReply ==
  ASSUME SshInv, SshSeals, UNCHANGED <<phase, sealIn, sealOut>>, sealOut,
         client.at = "exchanging", ~client.sealOut, SameElse(client'),
         client'.at = "exchanging", client'.sealOut, client'.sealIn = client.sealIn,
         toServer' = toServer \o ByClient("newkeys", 0),
         toClient # <<>>, toClient' = Tail(toClient)
  PROVE  SshSeals'
<1>1. ~client.sealIn /\ ~sealIn BY DEF SshSeals, SealsIn, SealsOut
<1>2. phase = "newkeys"
  <2>1. phase # "closed" BY <1>1 DEF SshSeals, SealsIn
  <2>2. ~Keyed BY <1>1 DEF SshSeals, SealsIn
  <2>3. Unkeyed BY <2>1, <2>2, SealTypes
  <2>4. phase \notin {"kexinit", "guess", "ecdh"} BY DEF SshSeals, SealsOut
  <2> QED BY <2>3, <2>4 DEF Unkeyed
<1>3. Unkeyed /\ Unkeyed' /\ ~Keyed' BY <1>2 DEF Unkeyed, Keyed
<1>4. Due = 1 /\ Due' = 1 BY <1>2 DEF Due
<1>5. Owes = 1 /\ Owes' = 0 BY DEF Owes
<1>6. PICK k \in Nat : k + Owes = Due /\ SealedAfter(toServer, k) /\ Len(toServer) = k
  BY <1>3 DEF SshSeals, SealsIn
<1>7. k = 0 BY <1>4, <1>5, <1>6
<1>8. /\ Len(toServer') = Len(toServer) + 1 /\ SealedAfter(toServer', Len(toServer'))
      /\ \A i \in 1..Len(toServer') : toServer'[i].is \in Answerable => toServer'[i].sealed
  BY <1>6, OneClear
<1>9. Len(toServer') = 1 /\ SealedAfter(toServer', 1)
  <2>1. Len(toServer) = 0 BY <1>6, <1>7
  <2>2. Len(toServer') = 0 + 1 BY <1>8, <2>1
  <2>3. Len(toServer') = 1 BY <2>2
  <2> QED BY <1>8, <2>3
<1>10. ~client.login BY <1>3 DEF SshSeals, SealsIn
<1>11. \E j \in Nat : /\ j + Owes' = Due' /\ j <= Len(toServer') /\ SealedAfter(toServer', j)
                      /\ ~client'.sealOut => Len(toServer') = j
  <2>1. 1 + 0 = 1 /\ 1 <= 1 OBVIOUS
  <2> QED BY <1>4, <1>5, <1>9, <2>1
<1>12. SealsIn' BY <1>1, <1>2, <1>3, <1>8, <1>10, <1>11 DEF SealsIn, SameElse
<1>13. HasHeard = 1 /\ HasHeard' = 2 BY <1>1 DEF HasHeard
<1>14. HasSaid = 3 /\ HasSaid' = 3 BY DEF HasSaid
<1>15. PICK heard \in Nat : heard = HasHeard /\ heard = 1 BY <1>13
<1>16. PICK said \in Nat : said = HasSaid /\ said = 3 BY <1>14
<1>17. PICK n \in Nat : n = Len(toClient')
  <2>1. Len(toClient') \in Nat BY <1>15, <1>16, HasHeardOne
  <2> QED BY <2>1
<1>18. phase # "closed" BY <1>2
<1>19. /\ said <= n + 1 + heard /\ (heard < said => ScriptedFrom(toClient', heard + 1, said))
       /\ \A i \in 1..n : toClient'[i].is \in ScriptKinds \cup {"extinfo"}
  <2>1. said <= Len(toClient') + 1 + heard BY <1>15, <1>16, <1>18, HasHeardOne
  <2>2. heard < said => ScriptedFrom(toClient', heard + 1, said) BY <1>15, <1>16, <1>18, HasHeardOne
  <2>3. \A i \in 1..Len(toClient') : toClient'[i].is \in ScriptKinds \cup {"extinfo"}
    BY <1>3, <1>15, <1>16, <1>18, HasHeardOne
  <2> QED BY <1>17, <2>1, <2>2, <2>3
<1>20. 3 <= n + 2 /\ ScriptedFrom(toClient', 2, 3)
  <2>1. 1 < 3 /\ 1 + 1 = 2 OBVIOUS
  <2>2. heard < said /\ heard + 1 = 2 BY <1>15, <1>16, <2>1
  <2>3. ScriptedFrom(toClient', 2, 3) BY <1>16, <1>19, <2>2
  <2>4. 3 <= n + 2 BY <1>15, <1>16, <1>19
  <2> QED BY <2>3, <2>4
<1>21. SealsOut' BY <1>1, <1>2, <1>3, <1>13, <1>14, <1>17, <1>19, <1>20 DEF SealsOut
<1> QED BY <1>12, <1>21 DEF SshSeals

\* It hears the driver's change of keys.
LEMMA HearsNewkeys ==
  ASSUME SshInv, SshSeals, UNCHANGED <<phase, sealIn, sealOut, toServer>>, sealOut,
         client.at = "exchanging", client.sealOut, ~client.sealIn, SameElse(client'),
         client'.at = "exchanging", client'.sealIn, client'.sealOut = client.sealOut,
         toClient # <<>>, toClient' = Tail(toClient)
  PROVE  SshSeals'
<1>1. Unkeyed' = Unkeyed /\ Keyed' = Keyed BY DEF Unkeyed, Keyed
<1>2. Owes = 0 /\ Owes' = 0 BY DEF Owes
<1>3. Due' = Due
  <2>1. phase' = phase /\ toServer' = toServer OBVIOUS
  <2> QED BY <2>1 DEF Due
<1>4. ~(phase = "closed" /\ ~sealIn) BY DEF SshSeals, SealsIn
<1>5. Unkeyed => \E k \in Nat : /\ k + Owes' = Due' /\ k <= Len(toServer)
                                /\ SealedAfter(toServer, k)
  BY <1>2, <1>3 DEF SshSeals, SealsIn
<1>6. SealsIn' BY <1>1, <1>4, <1>5 DEF SshSeals, SealsIn, SameElse
<1>7. HasHeard = 2 /\ HasHeard' = 3 BY DEF HasHeard
<1>8. HasSaid = 3 /\ HasSaid' = 3 BY DEF HasSaid
<1>9. PICK heard \in Nat : heard = HasHeard /\ heard = 2 BY <1>7
<1>10. PICK said \in Nat : said = HasSaid /\ said = 3 BY <1>8
<1>11. PICK n \in Nat : n = Len(toClient')
  <2>1. Len(toClient') \in Nat BY <1>9, <1>10, HasHeardOne
  <2> QED BY <2>1
<1>12. /\ heard < said => ScriptedFrom(toClient', heard + 1, said)
       /\ Unkeyed => \A i \in 1..n : toClient'[i].is \in ScriptKinds \cup {"extinfo"}
  <2>1. heard < said => ScriptedFrom(toClient', heard + 1, said) BY <1>9, <1>10, HasHeardOne
  <2>2. Unkeyed => \A i \in 1..Len(toClient') : toClient'[i].is \in ScriptKinds \cup {"extinfo"}
    BY <1>9, <1>10, HasHeardOne
  <2> QED BY <1>11, <2>1, <2>2
<1>13. 3 <= n + 3 /\ ScriptedFrom(toClient', 3, 3)
  <2>1. 2 < 3 /\ 2 + 1 = 3 OBVIOUS
  <2>2. heard < said /\ heard + 1 = 3 BY <1>9, <1>10, <2>1
  <2>3. ScriptedFrom(toClient', 3, 3) BY <1>10, <1>12, <2>2
  <2>4. 3 <= n + 3 OBVIOUS
  <2> QED BY <2>3, <2>4
<1>14. /\ phase \in {"kexinit", "guess", "ecdh"} => ~sealOut
       /\ sealIn => sealOut
  BY DEF SshSeals, SealsOut
<1>15. SealsOut' BY <1>1, <1>7, <1>8, <1>11, <1>12, <1>13, <1>14 DEF SealsOut
<1> QED BY <1>6, <1>15 DEF SshSeals

\* It hears what is sealed.
LEMMA HearsSealed ==
  ASSUME SshInv, SshSeals, UNCHANGED <<phase, sealIn, sealOut, toServer>>, sealOut,
         client.at = "exchanging", client.sealOut, client.sealIn,
         Unkeyed => client'.login = client.login, client'.at \in {"exchanging", "gone"},
         Unkeyed => client'.at # "gone", client'.sealIn = client.sealIn,
         client'.sealOut = client.sealOut, toClient # <<>>,
         client'.at # "gone" => toClient' = Tail(toClient),
         client'.at = "gone" => toClient' = <<>>
  PROVE  SshSeals'
<1>1. Unkeyed' = Unkeyed /\ Keyed' = Keyed BY DEF Unkeyed, Keyed
<1>2. Owes = 0 /\ Owes' = 0 BY DEF Owes
<1>3. Due' = Due
  <2>1. phase' = phase /\ toServer' = toServer OBVIOUS
  <2> QED BY <2>1 DEF Due
<1>4. ~(phase = "closed" /\ ~sealIn) BY DEF SshSeals, SealsIn
<1>5. Unkeyed => \E k \in Nat : /\ k + Owes' = Due' /\ k <= Len(toServer)
                                /\ SealedAfter(toServer, k)
  BY <1>2, <1>3 DEF SshSeals, SealsIn
<1>6. SealsIn' BY <1>1, <1>4, <1>5 DEF SshSeals, SealsIn
<1>7. /\ phase \in {"kexinit", "guess", "ecdh"} => ~sealOut
      /\ sealIn => sealOut
  BY DEF SshSeals, SealsOut
<1>8. CASE client'.at = "gone"
  <2>1. ~Unkeyed BY <1>8
  <2> QED BY <1>1, <1>6, <1>7, <1>8, <2>1 DEF SshSeals, SealsOut
<1>9. CASE client'.at # "gone"
  <2>1. HasHeard = 3 /\ HasHeard' = 3 BY <1>9 DEF HasHeard
  <2>2. HasSaid = 3 /\ HasSaid' = 3 BY DEF HasSaid
  <2>3. PICK heard \in Nat : heard = HasHeard /\ heard = 3 BY <2>1
  <2>4. PICK said \in Nat : said = HasSaid /\ said = 3 BY <2>2
  <2>5. toClient' = Tail(toClient) /\ client.at # "gone" BY <1>9
  <2>6. PICK n \in Nat : n = Len(toClient')
    <3>1. Len(toClient') \in Nat BY <2>3, <2>4, <2>5, HasHeardOne
    <3> QED BY <3>1
  <2>7. /\ heard >= said => ScriptedFrom(toClient', heard, said)
        /\ Unkeyed => \A i \in 1..n : toClient'[i].is \in ScriptKinds \cup {"extinfo"}
    <3>1. heard >= said => ScriptedFrom(toClient', heard, said) BY <2>3, <2>4, <2>5, HasHeardOne
    <3>2. Unkeyed => \A i \in 1..Len(toClient') : toClient'[i].is \in ScriptKinds \cup {"extinfo"}
      BY <2>3, <2>4, <2>5, HasHeardOne
    <3> QED BY <2>6, <3>1, <3>2
  <2>8. 3 <= n + 3 /\ 3 >= 3 OBVIOUS
  <2>9. ScriptedFrom(toClient', 3, 3) BY <2>3, <2>4, <2>7, <2>8
  <2>10. SealsOut' BY <1>1, <1>7, <1>9, <2>1, <2>2, <2>6, <2>7, <2>8, <2>9 DEF SealsOut
  <2> QED BY <1>6, <2>10 DEF SshSeals
<1> QED BY <1>8, <1>9

\* It hears how a driver ends that never came to the keys.
LEMMA HearsTheEnd ==
  ASSUME SshInv, SshSeals, UNCHANGED <<phase, sealIn, sealOut>>, ~sealOut, phase = "closed",
         client.at \in {"offered", "exchanging"}, client'.at \in {"exchanging", "gone"},
         SameElse(client'), client'.sealIn = client.sealIn, client'.sealOut = client.sealOut,
         toServer' \in {toServer, toServer \o ByClient("ecdh", 0)}, toClient # <<>>,
         toClient' \in {<<>>, Tail(toClient)}
  PROVE  SshSeals'
<1>1. ~sealIn BY DEF SshSeals, SealsOut
<1>2. ~client.sealOut /\ SealedAfter(toServer, Len(toServer))
      /\ ~client.login /\ ~client.chan /\ client.heard = 0 /\ ~client.saw
  BY <1>1 DEF SshSeals, SealsIn
<1>3. /\ SealedAfter(toServer', Len(toServer'))
      /\ \A i \in 1..Len(toServer') : toServer'[i].is \in Answerable => toServer'[i].sealed
  <2>1. CASE toServer' = toServer BY <1>2, <2>1 DEF SshSeals, SealsIn
  <2>2. CASE toServer' = toServer \o ByClient("ecdh", 0) BY <1>2, <2>2, OneClear
  <2> QED BY <2>1, <2>2
<1>4. ~Unkeyed' /\ ~Keyed' BY DEF Unkeyed, Keyed
<1>5. SealsIn' BY <1>1, <1>2, <1>3, <1>4 DEF SealsIn, SameElse
<1>6. \A i \in 1..Len(toClient) : ~toClient[i].sealed /\ toClient[i].is \in {"kexinit", "disconnect"}
  BY DEF SshSeals, SealsOut
<1>7. \A i \in 1..Len(toClient') :
        ~toClient'[i].sealed /\ toClient'[i].is \in {"kexinit", "disconnect"}
  <2>1. CASE toClient' = <<>> BY <2>1
  <2>2. CASE toClient' = Tail(toClient)
    <3>1. PICK s : s = toClient OBVIOUS
    <3>2. s \in Seq(ToClientPackets) /\ s # <<>> BY <3>1, SealTypes
    <3>3. PICK n \in Nat : n = Len(Tail(s)) BY <3>2
    <3>4. \A i \in 1..n : Tail(s)[i] = s[i + 1] /\ i + 1 \in 1..Len(s) BY <3>2, <3>3
    <3>5. \A i \in 1..n : ~Tail(s)[i].sealed /\ Tail(s)[i].is \in {"kexinit", "disconnect"}
      BY <1>6, <3>1, <3>4
    <3> QED BY <2>2, <3>1, <3>3, <3>5
  <2> QED BY <2>1, <2>2
<1>8. SealsOut' BY <1>1, <1>2, <1>4, <1>7 DEF SshSeals, SealsOut
<1> QED BY <1>5, <1>8 DEF SshSeals

\* What it hears next is the next of that script, and past that what is sealed.
LEMMA ListensSeals == ASSUME SshInv, SshSeals, Listens PROVE SshSeals'
<1>1. PICK m : m = Head(toClient) OBVIOUS
<1>2. /\ client.at \in {"offered", "exchanging"} /\ toClient # <<>> /\ client' = Understood(m)
      /\ toClient' = IF m.is = "disconnect" THEN <<>> ELSE Tail(toClient)
      /\ UNCHANGED sessionVars
  BY <1>1 DEF Listens
<1>3. UNCHANGED <<phase, sealIn, sealOut>> BY <1>2 DEF sessionVars
<1>4. PICK packets :
        /\ toServer' = toServer \o packets
        /\ m.is = "kexinit" /\ ~GuessedRight => packets = ByClient("ecdh", 0)
        /\ m.is = "kexinit" /\ GuessedRight => packets = <<>>
        /\ m.is = "reply" => packets = ByClient("newkeys", 0)
        /\ m.is \notin {"kexinit", "reply"} => packets = <<>>
  <2>1. PICK packets :
          packets = CASE m.is = "kexinit" /\ client.guess # "kexinit right" -> ByClient("ecdh", 0)
                      [] m.is = "reply" -> ByClient("newkeys", 0)
                      [] OTHER -> <<>>
    OBVIOUS
  <2>2. toServer' = toServer \o packets BY <1>1, <2>1 DEF Listens
  <2>3. m.is = "kexinit" /\ ~GuessedRight => packets = ByClient("ecdh", 0)
    BY <2>1 DEF GuessedRight
  <2>4. m.is = "kexinit" /\ GuessedRight => packets = <<>> BY <2>1 DEF GuessedRight
  <2>5. m.is = "reply" => packets = ByClient("newkeys", 0) BY <2>1
  <2>6. m.is \notin {"kexinit", "reply"} => packets = <<>> BY <2>1
  <2> QED BY <2>2, <2>3, <2>4, <2>5, <2>6
<1>5. toServer \o <<>> = toServer
  <2>1. toServer \in Seq(ToServerPackets) BY SealTypes
  <2> QED BY <2>1, ConcatEmptySeq
<1>6. /\ m.is = "kexinit" /\ ~GuessedRight => toServer' = toServer \o ByClient("ecdh", 0)
      /\ m.is = "kexinit" /\ GuessedRight => toServer' = toServer
      /\ m.is = "reply" => toServer' = toServer \o ByClient("newkeys", 0)
      /\ m.is \notin {"kexinit", "reply"} => toServer' = toServer
  BY <1>4, <1>5
<1>7. toClient \in Seq(ToClientPackets) BY SealTypes
<1>8. m \in ToClientPackets BY <1>1, <1>2, <1>7
<1>9. PICK c : c = client' OBVIOUS
<1>10. /\ m.is = "kexinit" => /\ c.at = "exchanging" /\ SameElse(c)
                              /\ c.sealIn = client.sealIn /\ c.sealOut = client.sealOut
       /\ m.is = "reply" => /\ c.at = client.at /\ c.sealOut /\ SameElse(c)
                            /\ c.sealIn = client.sealIn
       /\ m.is = "newkeys" => /\ c.at = client.at /\ c.sealIn /\ SameElse(c)
                              /\ c.sealOut = client.sealOut
       /\ m.is \notin ScriptKinds =>
            /\ c.at = IF m.is = "disconnect" THEN "gone" ELSE client.at
            /\ c.sealIn = client.sealIn /\ c.sealOut = client.sealOut
       /\ m.is = "disconnect" => SameElse(c)
       /\ m.is = "extinfo" => c = client
  BY <1>2, <1>8, <1>9, UnderstandsKeys
<1>11. CASE phase = "closed" /\ ~sealOut
  <2>1. 1 \in 1..Len(toClient) /\ m = toClient[1] BY <1>1, <1>2, <1>7
  <2>2. m.is \in {"kexinit", "disconnect"} BY <1>2, <1>11, <2>1 DEF SshSeals, SealsOut
  <2>3. /\ client'.at \in {"exchanging", "gone"} /\ SameElse(client')
        /\ client'.sealIn = client.sealIn /\ client'.sealOut = client.sealOut
    BY <1>9, <1>10, <2>2 DEF ScriptKinds
  <2>4. toServer' \in {toServer, toServer \o ByClient("ecdh", 0)} BY <1>6, <2>2
  <2>5. toClient' \in {<<>>, Tail(toClient)} BY <1>2
  <2> QED BY <1>2, <1>3, <1>11, <2>3, <2>4, <2>5, HearsTheEnd
<1>12. CASE sealOut \/ phase # "closed"
  <2>1. /\ ScriptedFrom(toClient, HasHeard, HasSaid)
        /\ ~sealOut => Len(toClient) + HasHeard = 1
    BY <1>2, <1>12 DEF SshSeals, SealsOut
  <2>2. HasHeard \in {0, 1, 2, 3} /\ HasSaid \in {1, 3} BY DEF HasHeard, HasSaid
  <2>3. PICK heard \in Nat : heard = HasHeard BY <2>2
  <2>4. PICK said \in Nat : said = HasSaid BY <2>2
  <2>5. PICK s \in Seq(ToClientPackets) : s = toClient BY <1>7
  <2>6. s # <<>> /\ ScriptedFrom(s, heard, said) BY <1>2, <2>1, <2>3, <2>4, <2>5
  <2>7. /\ heard < said => m.is = Script[heard + 1]
        /\ heard >= said => m.is \notin ScriptKinds
    BY <1>1, <2>5, <2>6, ScriptedLess
  <2>8. CASE heard < said
    <3>1. m.is = Script[heard + 1] BY <2>7, <2>8
    <3>2. CASE heard = 0
      <4>1. m.is = "kexinit" BY <3>1, <3>2 DEF Script
      <4>2. client.at = "offered" BY <1>2, <2>3, <3>2 DEF HasHeard
      <4>3. toClient' = Tail(toClient) BY <1>2, <4>1
      <4>4. SameElse(client') /\ client'.at = "exchanging" /\ client'.sealIn = client.sealIn
            /\ client'.sealOut = client.sealOut
        BY <1>9, <1>10, <4>1
      <4>5. /\ GuessedRight => toServer' = toServer
            /\ ~GuessedRight => toServer' = toServer \o ByClient("ecdh", 0)
        BY <1>6, <4>1
      <4> QED BY <1>2, <1>3, <1>12, <4>2, <4>3, <4>4, <4>5, HearsKexinit
    <3>3. CASE heard = 1
      <4>1. m.is = "reply" BY <3>1, <3>3 DEF Script
      <4>2. client.at = "exchanging" /\ ~client.sealOut BY <1>2, <2>3, <3>3 DEF HasHeard
      <4>3. sealOut BY <2>4, <2>8, <3>3 DEF HasSaid
      <4>4. toClient' = Tail(toClient) BY <1>2, <4>1
      <4>5. SameElse(client') /\ client'.at = "exchanging" /\ client'.sealOut
            /\ client'.sealIn = client.sealIn
        BY <1>9, <1>10, <4>1, <4>2
      <4> QED BY <1>2, <1>3, <1>6, <4>1, <4>2, <4>3, <4>4, <4>5, HearsReply
    <3>4. CASE heard = 2
      <4>1. m.is = "newkeys" BY <3>1, <3>4 DEF Script
      <4>2. client.at = "exchanging" /\ client.sealOut /\ ~client.sealIn
        BY <1>2, <2>3, <3>4 DEF HasHeard
      <4>3. sealOut BY <2>4, <2>8, <3>4 DEF HasSaid
      <4>4. toClient' = Tail(toClient) /\ toServer' = toServer BY <1>2, <1>6, <4>1
      <4>5. SameElse(client') /\ client'.at = "exchanging" /\ client'.sealIn
            /\ client'.sealOut = client.sealOut
        BY <1>9, <1>10, <4>1, <4>2
      <4> QED BY <1>2, <1>3, <4>2, <4>3, <4>4, <4>5, HearsNewkeys
    <3>5. heard \in {0, 1, 2} BY <2>2, <2>3, <2>4, <2>8
    <3> QED BY <3>2, <3>3, <3>4, <3>5
  <2>9. CASE heard >= said
    <3>1. m.is \notin ScriptKinds BY <2>7, <2>9
    <3>2. sealOut
      <4>1. Len(s) \in Nat /\ Len(s) # 0 BY <2>6
      <4>2. ~sealOut => said = 1 /\ Len(s) + heard = 1 BY <2>1, <2>3, <2>4, <2>5 DEF HasSaid
      <4> QED BY <2>9, <4>1, <4>2
    <3>3. heard = 3
      <4>1. said = 3 BY <2>4, <3>2 DEF HasSaid
      <4> QED BY <2>2, <2>3, <2>9, <4>1
    <3>4. client.at = "exchanging" /\ client.sealOut /\ client.sealIn
      BY <1>2, <2>3, <3>3 DEF HasHeard
    <3>5. /\ client'.at \in {"exchanging", "gone"} /\ (client'.at = "gone" <=> m.is = "disconnect")
          /\ client'.sealIn = client.sealIn /\ client'.sealOut = client.sealOut
      BY <1>9, <1>10, <3>1, <3>4
    <3>6. toServer' = toServer BY <1>6, <3>1 DEF ScriptKinds
    <3>7. /\ client'.at # "gone" => toClient' = Tail(toClient)
          /\ client'.at = "gone" => toClient' = <<>>
      BY <1>2, <3>5
    <3>8. Unkeyed => client'.login = client.login /\ client'.at # "gone"
      <4>1. ASSUME Unkeyed PROVE client' = client
        <5>1. 1 \in 1..Len(toClient) /\ m = toClient[1] BY <1>1, <1>2, <1>7
        <5>2. m.is \in ScriptKinds \cup {"extinfo"} BY <4>1, <5>1 DEF SshSeals, SealsOut
        <5> QED BY <1>9, <1>10, <3>1, <5>2
      <4> QED BY <3>4, <4>1
    <3> QED BY <1>2, <1>3, <3>2, <3>4, <3>5, <3>6, <3>7, <3>8, HearsSealed
  <2> QED BY <2>3, <2>4, <2>8, <2>9
<1> QED BY <1>11, <1>12

\* With one packet, or none.
LEMMA KeyedSaysOnce ==
  ASSUME SshInv, SshSeals, UNCHANGED <<phase, sealIn, sealOut, toClient>>,
         client.at = "exchanging", client.login \/ client.chan \/ client.sealOut \/ client.saw,
         NEW c, client' = c, c.at \in {"exchanging", "gone"}, Unkeyed => c.at # "gone",
         c.login = client.login, c.sealIn = client.sealIn, c.sealOut = client.sealOut,
         \/ toServer' = toServer \o <<>>
         \/ \E is \in ClientKinds : \E n \in Nat : toServer' = toServer \o ByClient(is, n)
  PROVE  SshSeals'
<1>1. client.sealOut BY DEF SshSeals, SealsIn
<1>2. CASE toServer' = toServer \o <<>>
  <2>1. PICK more : more = <<>> OBVIOUS
  <2>2. more \in Seq(ToServerPackets) BY <2>1, EmptySeq
  <2>3. AllSealed(more) BY <2>1 DEF AllSealed
  <2>4. toServer' = toServer \o more BY <1>2, <2>1
  <2> QED BY <1>1, <2>2, <2>3, <2>4, KeyedSays
<1>3. ASSUME NEW is \in ClientKinds, NEW n \in Nat, toServer' = toServer \o ByClient(is, n)
      PROVE  SshSeals'
  <2>1. PICK more : more = ByClient(is, n) OBVIOUS
  <2>2. more \in Seq(ToServerPackets) BY <2>1, ClientPacket
  <2>3. Len(more) = 1 /\ more[1].sealed BY <1>1, <2>1 DEF ByClient, Packet
  <2>4. AllSealed(more)
    <3>1. \A i \in 1..1 : i = 1 OBVIOUS
    <3> QED BY <2>3, <3>1 DEF AllSealed
  <2>5. toServer' = toServer \o more BY <1>3, <2>1
  <2> QED BY <1>1, <2>2, <2>4, <2>5, KeyedSays
<1> QED BY <1>2, <1>3

\* All that a client says past its change of keys.
LEMMA ClientSeals ==
  ASSUME SshInv, SshSeals,
         \/ AsksLogin \/ AsksFor \/ (\E n \in 1..MaxPayload : Types(n)) \/ TypesEof
         \/ Shows \/ ClientLeaves \/ Rekeys
  PROVE  SshSeals'
<1>1. client \in ClientType BY SealTypes
<1>2. client.typed \in Nat /\ client.credit \in Nat /\ client.asks \in Nat /\ client.heard \in Nat
      /\ client.shown \in Nat
  BY <1>1 DEF ClientType
<1>3. sitting.window \in Nat BY SshBounds DEF SshInv, SshType
<1>4. PICK c : c = client' OBVIOUS
<1>5. CASE AsksLogin
  <2>1. PICK is \in Questions \cup Attempts \cup Proofs :
          ClientSays([client EXCEPT !.asked = <<is>>, !.asks = @ + 1], ByClient(is, 0))
    BY <1>5 DEF AsksLogin
  <2>2. PICK n : n = client.asks + 1 OBVIOUS
  <2>3. PICK asked : asked = <<is>> OBVIOUS
  <2>4. /\ c = [client EXCEPT !.asked = asked, !.asks = n]
        /\ toServer' = toServer \o ByClient(is, 0) /\ UNCHANGED <<sessionVars, toClient>>
    BY <1>4, <2>1, <2>2, <2>3 DEF ClientSays
  <2>5. client.at = "exchanging" /\ client.sealOut BY <1>5 DEF AsksLogin, Here
  <2>6. /\ c.at = "exchanging" /\ c.login = client.login /\ c.sealIn = client.sealIn
        /\ c.sealOut = client.sealOut
    BY <1>1, <2>4, <2>5 DEF ClientType
  <2>7. is \in ClientKinds BY DEF ClientKinds
  <2>8. UNCHANGED <<phase, sealIn, sealOut, toClient>> BY <2>4 DEF sessionVars
  <2> QED BY <1>4, <2>4, <2>5, <2>6, <2>7, <2>8, KeyedSaysOnce
<1>6. CASE AsksFor
  <2>1. PICK is \in {"open", "global", "shell", "pty", "unknown", "change"} :
          ClientSays([client EXCEPT !.asked = IF is = "change" THEN @ ELSE Append(@, is),
                                    !.asks = @ + 1],
                     ByClient(is, IF is = "open" THEN sitting.window ELSE 0))
    BY <1>6 DEF AsksFor
  <2>2. PICK n : n = client.asks + 1 OBVIOUS
  <2>3. PICK asked : asked = IF is = "change" THEN client.asked ELSE Append(client.asked, is) OBVIOUS
  <2>4. PICK k : k = IF is = "open" THEN sitting.window ELSE 0 OBVIOUS
  <2>5. k \in Nat BY <1>3, <2>4
  <2>6. /\ c = [client EXCEPT !.asked = asked, !.asks = n]
        /\ toServer' = toServer \o ByClient(is, k) /\ UNCHANGED <<sessionVars, toClient>>
    BY <1>4, <2>1, <2>2, <2>3, <2>4 DEF ClientSays
  <2>7. client.at = "exchanging" /\ client.login BY <1>6 DEF AsksFor, Here
  <2>8. /\ c.at = "exchanging" /\ c.login = client.login /\ c.sealIn = client.sealIn
        /\ c.sealOut = client.sealOut
    BY <1>1, <2>6, <2>7 DEF ClientType
  <2>9. is \in ClientKinds BY DEF ClientKinds
  <2>10. UNCHANGED <<phase, sealIn, sealOut, toClient>> BY <2>6 DEF sessionVars
  <2> QED BY <1>4, <2>5, <2>6, <2>7, <2>8, <2>9, <2>10, KeyedSaysOnce
<1>7. CASE (\E n \in 1..MaxPayload : Types(n)) \/ TypesEof \/ Rekeys
  <2>1. /\ client.at = "exchanging" /\ client.chan /\ UNCHANGED <<sessionVars, toClient>>
    BY <1>7 DEF Types, TypesEof, Rekeys, Here, ClientSays
  <2>2. /\ c.at = "exchanging" /\ c.login = client.login /\ c.sealIn = client.sealIn
        /\ c.sealOut = client.sealOut
        /\ \E is \in {"data", "eof", "rekey"} : \E n \in Nat : toServer' = toServer \o ByClient(is, n)
    <3>1. ASSUME NEW n \in 1..MaxPayload, Types(n)
          PROVE  /\ c.at = "exchanging" /\ c.login = client.login /\ c.sealIn = client.sealIn
                 /\ c.sealOut = client.sealOut
                 /\ toServer' = toServer \o ByClient("data", n) /\ n \in Nat
      <4>1. PICK typed : typed = client.typed + n OBVIOUS
      <4>2. PICK credit : credit = client.credit - n OBVIOUS
      <4>3. c = [client EXCEPT !.typed = typed, !.credit = credit]
            /\ toServer' = toServer \o ByClient("data", n)
        BY <1>4, <3>1, <4>1, <4>2 DEF Types, ClientSays
      <4>4. /\ c.at = "exchanging" /\ c.login = client.login /\ c.sealIn = client.sealIn
            /\ c.sealOut = client.sealOut
        BY <1>1, <2>1, <4>3 DEF ClientType
      <4> QED BY <4>3, <4>4, SshBounds
    <3>2. CASE TypesEof
      <4>1. c = [client EXCEPT !.eof = TRUE] /\ toServer' = toServer \o ByClient("eof", 0)
        BY <1>4, <3>2 DEF TypesEof, ClientSays
      <4>2. /\ c.at = "exchanging" /\ c.login = client.login /\ c.sealIn = client.sealIn
            /\ c.sealOut = client.sealOut
        BY <1>1, <2>1, <4>1 DEF ClientType
      <4> QED BY <4>1, <4>2
    <3>3. CASE Rekeys
      <4>1. c = [client EXCEPT !.asks = sitting.asks] /\ toServer' = toServer \o ByClient("rekey", 0)
        BY <1>4, <3>3 DEF Rekeys, ClientSays
      <4>2. /\ c.at = "exchanging" /\ c.login = client.login /\ c.sealIn = client.sealIn
            /\ c.sealOut = client.sealOut
        BY <1>1, <2>1, <4>1 DEF ClientType
      <4> QED BY <4>1, <4>2
    <3> QED BY <1>7, <3>1, <3>2, <3>3
  <2>3. {"data", "eof", "rekey"} \subseteq ClientKinds BY DEF ClientKinds
  <2>4. UNCHANGED <<phase, sealIn, sealOut, toClient>> BY <2>1 DEF sessionVars
  <2> QED BY <1>4, <2>1, <2>2, <2>3, <2>4, KeyedSaysOnce
<1>8. CASE Shows
  <2>1. PICK shown : shown = client.shown + client.heard OBVIOUS
  <2>2. /\ c = [client EXCEPT !.heard = 0, !.shown = shown] /\ UNCHANGED <<sessionVars, toClient>>
        /\ \/ toServer' = toServer \o <<>>
           \/ toServer' = toServer \o ByClient("adjust", client.heard)
    BY <1>4, <1>8, <2>1 DEF Shows, ClientSays
  <2>3. client.at = "exchanging" /\ client.sealOut
    <3>1. client.at = "exchanging" /\ client.heard # 0 BY <1>2, <1>8 DEF Shows
    <3> QED BY <3>1 DEF SshSeals, SealsIn
  <2>4. /\ c.at = "exchanging" /\ c.login = client.login /\ c.sealIn = client.sealIn
        /\ c.sealOut = client.sealOut
    BY <1>1, <2>2, <2>3 DEF ClientType
  <2>5. "adjust" \in ClientKinds BY DEF ClientKinds
  <2>6. UNCHANGED <<phase, sealIn, sealOut, toClient>> BY <2>2 DEF sessionVars
  <2> QED BY <1>2, <1>4, <2>2, <2>3, <2>4, <2>5, <2>6, KeyedSaysOnce
<1>9. CASE ClientLeaves
  <2>1. /\ client.at = "exchanging" /\ (client.saw \/ client.login)
        /\ c \in {LeftAs("closed"), LeftAs("left")} /\ UNCHANGED <<sessionVars, toClient>>
        /\ \/ toServer' = toServer \o <<>>
           \/ toServer' = toServer \o ByClient("disconnect", 0)
    BY <1>4, <1>9 DEF ClientLeaves, ClientSays, Here
  <2>2. /\ c.at = "gone" /\ c.login = client.login /\ c.sealIn = client.sealIn
        /\ c.sealOut = client.sealOut
    BY <1>1, <2>1 DEF ClientType, LeftAs
  <2>3. "disconnect" \in ClientKinds BY DEF ClientKinds
  <2>4. UNCHANGED <<phase, sealIn, sealOut, toClient>> BY <2>1 DEF sessionVars
  <2>5. ~Unkeyed
    <3>1. client.saw => ~Unkeyed
      <4>1. ASSUME client.saw, Unkeyed PROVE FALSE
        BY <4>1 DEF SshInv, SshFarewell, Unkeyed
      <4> QED BY <4>1
    <3>2. client.login => ~Unkeyed BY DEF SshSeals, SealsIn
    <3> QED BY <2>1, <3>1, <3>2
  <2> QED BY <1>4, <2>1, <2>2, <2>3, <2>4, <2>5, KeyedSaysOnce
<1> QED BY <1>5, <1>6, <1>7, <1>8, <1>9

LEMMA SealsStart == ASSUME SshInit PROVE SshSeals
<1>1. /\ phase = "kexinit" /\ sealIn = FALSE /\ sealOut = FALSE
      /\ toClient = <<Packet("kexinit", 0, FALSE)>> /\ toServer = <<>> /\ client = NoClient
  BY DEF SshInit
<1>2. PICK p : p = Packet("kexinit", 0, FALSE) OBVIOUS
<1>3. p.is = "kexinit" /\ ~p.sealed BY <1>2 DEF Packet
<1>4. Len(toClient) = 1 /\ toClient[1] = p BY <1>1, <1>2
<1>5. /\ client.at = "hello" /\ ~client.sealIn /\ ~client.sealOut /\ ~client.login /\ ~client.chan
      /\ client.heard = 0 /\ ~client.saw
  BY <1>1 DEF NoClient
<1>6. Unkeyed /\ ~Keyed BY <1>1 DEF Unkeyed, Keyed
<1>7. \A i \in 1..Len(toServer) : FALSE BY <1>1
<1>8. SealsIn BY <1>1, <1>5, <1>6, <1>7 DEF SealsIn
<1>9. HasHeard = 0 /\ HasSaid = 1 BY <1>1, <1>5 DEF HasHeard, HasSaid
<1>10. \A i \in 1..1 : i = 1 /\ i + 0 = 1 /\ i + 0 <= 1 OBVIOUS
<1>11. ScriptedFrom(toClient, 0, 1) BY <1>3, <1>4, <1>10 DEF ScriptedFrom, Script
<1>12. \A i \in 1..1 : toClient[i].is \in ScriptKinds BY <1>3, <1>4, <1>10 DEF ScriptKinds
<1>13. 1 <= 1 + 0 /\ 1 + 0 = 1 OBVIOUS
<1>14. SealsOut BY <1>1, <1>4, <1>5, <1>6, <1>9, <1>11, <1>12, <1>13 DEF SealsOut
<1> QED BY <1>8, <1>14 DEF SshSeals

LEMMA SealsStep == ASSUME SshInv, SshSeals, SshNext PROVE SshSeals'
<1>1. CASE SetsUp BY <1>1, SetsUpSeals
<1>2. CASE HandlesPacket \/ SendData \/ ReadDone \/ CloseSsh \/ DrainClient
  BY <1>2, DriverSeals
<1>3. CASE \/ (\E n \in ReadSizes : ReadSsh(n)) \/ (\E n \in WriteSizes : WriteSsh(n))
           \/ Gather \/ GivesUp \/ ReadFails
  <2>1. UNCHANGED <<phase, sealIn, sealOut, client, toClient, toServer>>
    BY <1>3 DEF ReadSsh, WriteSsh, Gather, GivesUp, ReadFails
  <2> QED BY <2>1, SealsStay
<1>4. CASE Farewell BY <1>4, FarewellSeals
<1>5. CASE PastDeadline BY <1>5, PastDeadlineSeals
<1>6. CASE Cut BY <1>6, CutSeals
<1>7. CASE ClientNext
  <2>1. CASE Hello BY <2>1, HelloSeals
  <2>2. CASE Listens BY <2>2, ListensSeals
  <2>3. CASE \/ AsksLogin \/ AsksFor \/ (\E n \in 1..MaxPayload : Types(n)) \/ TypesEof
             \/ Shows \/ ClientLeaves \/ Rekeys
    BY <2>3, ClientSeals
  <2> QED BY <1>7, <2>1, <2>2, <2>3 DEF ClientNext
<1> QED BY <1>1, <1>2, <1>3, <1>4, <1>5, <1>6, <1>7 DEF SshNext

\* A packet is read as it was sent, though either direction changes its keys at a
\* time of its own (ssh_packet_send and ssh_packet_read, ssh_trans.c).
THEOREM OpenedAsSealedAlways == SshSpec => []OpenedAsSealed
<1>1. SshInit => SshInv /\ SshSeals BY SshStarts, SealsStart
<1>2. SshInv /\ SshSeals /\ [SshNext]_sshVars => (SshInv /\ SshSeals)'
  <2>1. ASSUME SshInv, SshSeals, UNCHANGED sshVars PROVE SshInv' /\ SshSeals'
    <3>1. UNCHANGED <<phase, sealIn, sealOut, client, toClient, toServer>>
      BY <2>1 DEF sshVars, sessionVars
    <3>2. SshSeals' BY <2>1, <3>1, SealsStay
    <3> QED BY <2>1, <3>2, SshStays
  <2> QED BY <2>1, SshStep, SealsStep
<1>3. SshInv /\ SshSeals => OpenedAsSealed BY SealsAgree
<1> QED BY <1>1, <1>2, <1>3, PTL DEF SshSpec

(***************************************************************************)
(* What was asked and is not answered.                                     *)
(***************************************************************************)
\* What may be on its way for a question: the question, or an answer to it.
Meets(is, q) == is \in {q} \cup AnswersTo(q)

\* Each question has its place among the kinds under way that settle one, in order.
Settles(asked, kinds) ==
  \E place \in [DOMAIN asked -> DOMAIN kinds] :
    /\ \A i, j \in DOMAIN asked : i < j => place[i] < place[j]
    /\ \A p \in DOMAIN kinds : \E i \in DOMAIN asked : place[i] = p
    /\ \A i \in DOMAIN asked : Meets(kinds[place[i]], asked[i])

\* The places move up, and may come to hold an answer.
LEMMA SettlesMoved ==
  ASSUME NEW asked, NEW u, NEW v, Settles(asked, u), NEW h \in [DOMAIN u -> DOMAIN v],
         \A p, q \in DOMAIN u : p < q => h[p] < h[q],
         \A q \in DOMAIN v : \E p \in DOMAIN u : h[p] = q,
         \A p \in DOMAIN u : \A i \in DOMAIN asked :
           Meets(u[p], asked[i]) => Meets(v[h[p]], asked[i])
  PROVE  Settles(asked, v)
<1>1. PICK place \in [DOMAIN asked -> DOMAIN u] :
        /\ \A i, j \in DOMAIN asked : i < j => place[i] < place[j]
        /\ \A p \in DOMAIN u : \E i \in DOMAIN asked : place[i] = p
        /\ \A i \in DOMAIN asked : Meets(u[place[i]], asked[i])
  BY DEF Settles
<1>2. PICK moved : moved = [i \in DOMAIN asked |-> h[place[i]]] OBVIOUS
<1>3. moved \in [DOMAIN asked -> DOMAIN v] BY <1>1, <1>2
<1>4. \A i, j \in DOMAIN asked : i < j => moved[i] < moved[j] BY <1>1, <1>2
<1>5. ASSUME NEW q \in DOMAIN v PROVE \E i \in DOMAIN asked : moved[i] = q
  <2>1. PICK p \in DOMAIN u : h[p] = q OBVIOUS
  <2>2. PICK i \in DOMAIN asked : place[i] = p BY <1>1
  <2> QED BY <1>2, <2>1, <2>2
<1>6. \A i \in DOMAIN asked : Meets(v[moved[i]], asked[i]) BY <1>1, <1>2
<1> QED BY <1>3, <1>4, <1>5, <1>6 DEF Settles

LEMMA OneLonger ==
  ASSUME NEW S, NEW s \in Seq(S), s # <<>>
  PROVE  \E n \in Nat : Len(s) = n + 1 /\ DOMAIN s = 1..(n + 1)
<1>1. PICK k \in Nat : k = Len(s) OBVIOUS
<1>2. k # 0 /\ DOMAIN s = 1..k BY <1>1
<1>3. k - 1 \in Nat /\ k = (k - 1) + 1 BY <1>2
<1> QED BY <1>1, <1>2, <1>3

\* v is u without its first, at other places in the same order.
Drops(h, u, first, v) ==
  /\ DOMAIN u \subseteq Nat /\ first \in DOMAIN u /\ \A p \in DOMAIN u : first <= p
  /\ h \in [DOMAIN u \ {first} -> DOMAIN v]
  /\ \A p, q \in DOMAIN u \ {first} : p < q => h[p] < h[q]
  /\ \A q \in DOMAIN v : \E p \in DOMAIN u \ {first} : h[p] = q
  /\ \A p \in DOMAIN u \ {first} : v[h[p]] = u[p]

\* The first is answered.
LEMMA SettlesLess ==
  ASSUME NEW S, NEW asked \in Seq(S), NEW u, NEW v, Settles(asked, u), NEW first, NEW h,
         Drops(h, u, first, v)
  PROVE  asked # <<>> /\ Settles(Tail(asked), v) /\ Meets(u[first], Head(asked))
<1>0. /\ DOMAIN u \subseteq Nat /\ first \in DOMAIN u /\ \A p \in DOMAIN u : first <= p
      /\ h \in [DOMAIN u \ {first} -> DOMAIN v]
      /\ \A p, q \in DOMAIN u \ {first} : p < q => h[p] < h[q]
      /\ \A q \in DOMAIN v : \E p \in DOMAIN u \ {first} : h[p] = q
      /\ \A p \in DOMAIN u \ {first} : v[h[p]] = u[p]
  BY DEF Drops
<1>1. PICK place \in [DOMAIN asked -> DOMAIN u] :
        /\ \A i, j \in DOMAIN asked : i < j => place[i] < place[j]
        /\ \A p \in DOMAIN u : \E i \in DOMAIN asked : place[i] = p
        /\ \A i \in DOMAIN asked : Meets(u[place[i]], asked[i])
  BY DEF Settles
<1>2. PICK k \in DOMAIN asked : place[k] = first BY <1>0, <1>1
<1>3. asked # <<>> BY <1>2
<1>4. PICK n \in Nat : Len(asked) = n + 1 /\ DOMAIN asked = 1..(n + 1) BY <1>3, OneLonger
<1>5. DOMAIN asked = 1..(n + 1) BY <1>4
<1>6. PICK rest : rest = Tail(asked) OBVIOUS
<1>7. DOMAIN rest = 1..n /\ \A i \in 1..n : rest[i] = asked[i + 1] BY <1>3, <1>4, <1>6
<1>8. k = 1
  <2>1. ASSUME k # 1 PROVE FALSE
    <3>1. 1 \in 1..(n + 1) /\ 1 < k BY <1>2, <1>5, <2>1
    <3>2. place[1] < first /\ place[1] \in DOMAIN u BY <1>1, <1>2, <1>5, <3>1
    <3>3. first <= place[1] BY <1>0, <3>2
    <3> QED BY <1>0, <3>2, <3>3
  <2> QED BY <2>1
<1>9. \A i \in 1..n : i + 1 \in 1..(n + 1) /\ i + 1 # 1 /\ 1 < i + 1 OBVIOUS
<1>10. \A i \in 1..n : place[i + 1] \in DOMAIN u \ {first}
  <2>1. ASSUME NEW i \in 1..n PROVE place[i + 1] \in DOMAIN u \ {first}
    <3>1. first < place[i + 1] /\ place[i + 1] \in DOMAIN u BY <1>1, <1>2, <1>5, <1>8, <1>9
    <3> QED BY <3>1
  <2> QED BY <2>1
<1>11. PICK moved : moved = [i \in 1..n |-> h[place[i + 1]]] OBVIOUS
<1>12. moved \in [DOMAIN rest -> DOMAIN v] BY <1>0, <1>7, <1>10, <1>11
<1>13. ASSUME NEW i \in 1..n, NEW j \in 1..n, i < j PROVE moved[i] < moved[j]
  <2>1. i + 1 < j + 1 BY <1>13
  <2>2. place[i + 1] < place[j + 1] BY <1>1, <1>5, <1>9, <2>1
  <2> QED BY <1>0, <1>10, <1>11, <2>2
<1>14. ASSUME NEW q \in DOMAIN v PROVE \E i \in 1..n : moved[i] = q
  <2>1. PICK p \in DOMAIN u \ {first} : h[p] = q BY <1>0
  <2>2. PICK i \in 1..(n + 1) : place[i] = p BY <1>1, <1>5
  <2>3. i # 1 BY <1>2, <1>8, <2>1, <2>2
  <2>4. PICK j : j = i - 1 OBVIOUS
  <2>5. j \in 1..n /\ j + 1 = i BY <2>3, <2>4
  <2> QED BY <1>11, <2>1, <2>2, <2>5
<1>15. ASSUME NEW i \in 1..n PROVE Meets(v[moved[i]], rest[i])
  <2>1. Meets(u[place[i + 1]], asked[i + 1]) BY <1>1, <1>5, <1>9
  <2> QED BY <1>0, <1>7, <1>10, <1>11, <2>1
<1>16. Settles(rest, v) BY <1>7, <1>12, <1>13, <1>14, <1>15 DEF Settles
<1>17. Meets(u[first], Head(asked))
  <2>1. asked[1] = Head(asked) BY <1>3
  <2> QED BY <1>1, <1>2, <1>8, <2>1
<1> QED BY <1>3, <1>6, <1>16, <1>17

\* One more is asked.
LEMMA SettlesMore ==
  ASSUME NEW S, NEW asked \in Seq(S), NEW u, NEW v, Settles(asked, u), DOMAIN u \subseteq Nat,
         NEW q \in S, NEW last \in Nat, DOMAIN v = DOMAIN u \cup {last},
         \A p \in DOMAIN u : p < last /\ v[p] = u[p], Meets(v[last], q)
  PROVE  Settles(Append(asked, q), v)
<1>1. PICK place \in [DOMAIN asked -> DOMAIN u] :
        /\ \A i, j \in DOMAIN asked : i < j => place[i] < place[j]
        /\ \A p \in DOMAIN u : \E i \in DOMAIN asked : place[i] = p
        /\ \A i \in DOMAIN asked : Meets(u[place[i]], asked[i])
  BY DEF Settles
<1>2. PICK n \in Nat : n = Len(asked) OBVIOUS
<1>3. PICK more : more = Append(asked, q) OBVIOUS
<1>4. /\ DOMAIN asked = 1..n /\ DOMAIN more = 1..(n + 1) /\ more[n + 1] = q
      /\ \A i \in 1..n : more[i] = asked[i]
  BY <1>2, <1>3
<1>5. PICK new : new = [i \in 1..(n + 1) |-> IF i = n + 1 THEN last ELSE place[i]] OBVIOUS
<1>6. \A i \in 1..(n + 1) : i = n + 1 \/ i \in 1..n OBVIOUS
<1>7. n + 1 \in 1..(n + 1) /\ \A i \in 1..n : i \in 1..(n + 1) /\ i # n + 1 /\ i < n + 1 OBVIOUS
<1>8. new[n + 1] = last /\ \A i \in 1..n : new[i] = place[i] BY <1>5, <1>7
<1>9. \A i \in 1..n : place[i] \in DOMAIN u BY <1>1, <1>4
<1>10. new \in [1..(n + 1) -> DOMAIN v]
  <2>1. ASSUME NEW i \in 1..(n + 1) PROVE new[i] \in DOMAIN v BY <1>6, <1>8, <1>9
  <2> QED BY <1>5, <2>1
<1>11. ASSUME NEW i \in 1..(n + 1), NEW j \in 1..(n + 1), i < j PROVE new[i] < new[j]
  <2>1. i \in 1..n BY <1>11
  <2>2. CASE j = n + 1 BY <1>8, <1>9, <2>1, <2>2
  <2>3. CASE j \in 1..n BY <1>1, <1>4, <1>8, <1>11, <2>1, <2>3
  <2> QED BY <1>6, <2>2, <2>3
<1>12. ASSUME NEW p \in DOMAIN v PROVE \E i \in 1..(n + 1) : new[i] = p
  <2>1. CASE p = last BY <1>7, <1>8, <2>1
  <2>2. CASE p \in DOMAIN u
    <3>1. PICK i \in 1..n : place[i] = p BY <1>1, <1>4, <2>2
    <3> QED BY <1>7, <1>8, <3>1
  <2> QED BY <2>1, <2>2
<1>13. ASSUME NEW i \in 1..(n + 1) PROVE Meets(v[new[i]], more[i])
  <2>1. CASE i = n + 1 BY <1>4, <1>8, <2>1
  <2>2. CASE i \in 1..n
    <3>1. Meets(u[place[i]], asked[i]) BY <1>1, <1>4, <2>2
    <3> QED BY <1>4, <1>8, <1>9, <2>2, <3>1
  <2> QED BY <1>6, <2>1, <2>2
<1>14. new \in [DOMAIN more -> DOMAIN v] BY <1>4, <1>10
<1>15. \A i, j \in DOMAIN more : i < j => new[i] < new[j] BY <1>4, <1>11
<1>16. \A p \in DOMAIN v : \E i \in DOMAIN more : new[i] = p BY <1>4, <1>12
<1>17. \A i \in DOMAIN more : Meets(v[new[i]], more[i]) BY <1>4, <1>13
<1>18. Settles(more, v) BY <1>14, <1>15, <1>16, <1>17 DEF Settles
<1> QED BY <1>3, <1>18

(***************************************************************************)
(* The kinds under way that settle a question: the answers to the client,  *)
(* and behind them the questions to the driver.                            *)
(***************************************************************************)
KindOf(c, s, i) == IF i <= Len(c) THEN c[i].is ELSE s[i - Len(c)].is
Live(c, s) ==
  {i \in 1..(Len(c) + Len(s)) :
     KindOf(c, s, i) \in (IF i <= Len(c) THEN Answered ELSE Answerable)}
KindsAt(c, s) == [i \in Live(c, s) |-> KindOf(c, s, i)]

\* What is in it, of n packets to the client and m to the driver.
LiveIs(live, c, s, n, m) ==
  /\ \A i \in 1..n : (i \in live <=> c[i].is \in Answered) /\ KindOf(c, s, i) = c[i].is
  /\ \A i \in 1..m : (n + i \in live <=> s[i].is \in Answerable) /\ KindOf(c, s, n + i) = s[i].is
  /\ \A p \in live : p \in 1..n \/ \E i \in 1..m : p = n + i
  /\ live \subseteq Nat

LEMMA LiveAt ==
  ASSUME NEW c, NEW s, NEW n \in Nat, Len(c) = n, NEW m \in Nat, Len(s) = m
  PROVE  LiveIs(Live(c, s), c, s, n, m)
<1>1. Live(c, s) = {i \in 1..(n + m) : KindOf(c, s, i) \in (IF i <= n THEN Answered ELSE Answerable)}
  BY DEF Live
<1>2. \A i \in 1..n : i \in 1..(n + m) /\ i <= n OBVIOUS
<1>3. \A i \in 1..n : KindOf(c, s, i) = c[i].is BY <1>2 DEF KindOf
<1>4. \A i \in 1..m : n + i \in 1..(n + m) /\ ~(n + i <= n) /\ (n + i) - n = i OBVIOUS
<1>5. \A i \in 1..m : KindOf(c, s, n + i) = s[i].is BY <1>4 DEF KindOf
<1>6. ASSUME NEW p \in Live(c, s) PROVE p \in 1..n \/ \E i \in 1..m : p = n + i
  <2>1. p \in 1..(n + m) BY <1>1
  <2>2. CASE p <= n BY <2>1, <2>2
  <2>3. CASE ~(p <= n)
    <3>1. p - n \in 1..m /\ p = n + (p - n) BY <2>1, <2>3
    <3> QED BY <3>1
  <2> QED BY <2>2, <2>3
<1>7. Live(c, s) \subseteq Nat BY <1>1
<1>9. \A i \in 1..n : i \in Live(c, s) <=> c[i].is \in Answered BY <1>1, <1>2, <1>3
<1>10. \A i \in 1..m : n + i \in Live(c, s) <=> s[i].is \in Answerable BY <1>1, <1>4, <1>5
<1> QED BY <1>3, <1>5, <1>6, <1>7, <1>9, <1>10 DEF LiveIs

\* The same ones, at other places in the same order.
LEMMA SettlesStill ==
  ASSUME NEW asked, NEW c, NEW s, NEW d, NEW t, Settles(asked, KindsAt(c, s)), NEW h, h = [p \in Live(c, s) |-> h[p]],
         \A p \in Live(c, s) : h[p] \in Live(d, t) /\ KindOf(d, t, h[p]) = KindOf(c, s, p),
         \A p, q \in Live(c, s) : p < q => h[p] < h[q],
         \A q \in Live(d, t) : \E p \in Live(c, s) : h[p] = q
  PROVE  Settles(asked, KindsAt(d, t))
<1>1. PICK u : u = KindsAt(c, s) OBVIOUS
<1>2. PICK v : v = KindsAt(d, t) OBVIOUS
<1>3. DOMAIN u = Live(c, s) /\ \A p \in Live(c, s) : u[p] = KindOf(c, s, p) BY <1>1 DEF KindsAt
<1>4. DOMAIN v = Live(d, t) /\ \A p \in Live(d, t) : v[p] = KindOf(d, t, p) BY <1>2 DEF KindsAt
<1>5. h \in [DOMAIN u -> DOMAIN v] BY <1>3, <1>4
<1>6. \A p \in DOMAIN u : v[h[p]] = u[p] BY <1>3, <1>4
<1>7. \A p, q \in DOMAIN u : p < q => h[p] < h[q] BY <1>3
<1>8. \A q \in DOMAIN v : \E p \in DOMAIN u : h[p] = q BY <1>3, <1>4
<1>9. Settles(asked, u) BY <1>1
<1>10. \A p \in DOMAIN u : \A i \in DOMAIN asked : Meets(u[p], asked[i]) => Meets(v[h[p]], asked[i])
  BY <1>6
<1> QED BY <1>2, <1>5, <1>7, <1>8, <1>9, <1>10, SettlesMoved

\* A packet that settles nothing is read by the driver.
LEMMA SettlesTakenBy ==
  ASSUME NEW S, NEW T, NEW c \in Seq(S), NEW s \in Seq(T), s # <<>>, Head(s).is \notin Answerable,
         NEW asked, Settles(asked, KindsAt(c, s))
  PROVE  Settles(asked, KindsAt(c, Tail(s)))
<1>1. PICK n \in Nat : n = Len(c) OBVIOUS
<1>2. PICK m \in Nat : Len(s) = m + 1 BY OneLonger
<1>3. PICK t : t = Tail(s) OBVIOUS
<1>4. Len(t) = m /\ s[1] = Head(s) /\ \A i \in 1..m : t[i] = s[i + 1] BY <1>2, <1>3
<1>5. m + 1 \in Nat /\ Len(c) = n BY <1>1
<1>6. PICK U : U = Live(c, s) OBVIOUS
<1>7. PICK V : V = Live(c, t) OBVIOUS
<1>8. /\ \A i \in 1..n : (i \in U <=> c[i].is \in Answered) /\ KindOf(c, s, i) = c[i].is
      /\ \A i \in 1..(m + 1) : (n + i \in U <=> s[i].is \in Answerable) /\ KindOf(c, s, n + i) = s[i].is
      /\ \A p \in U : p \in 1..n \/ \E i \in 1..(m + 1) : p = n + i
  <2>1. LiveIs(U, c, s, n, m + 1) BY <1>2, <1>5, <1>6, LiveAt
  <2> QED BY <2>1 DEF LiveIs
<1>9. /\ \A i \in 1..n : (i \in V <=> c[i].is \in Answered) /\ KindOf(c, t, i) = c[i].is
      /\ \A i \in 1..m : (n + i \in V <=> t[i].is \in Answerable) /\ KindOf(c, t, n + i) = t[i].is
      /\ \A p \in V : p \in 1..n \/ \E i \in 1..m : p = n + i
  <2>1. LiveIs(V, c, t, n, m) BY <1>4, <1>5, <1>7, LiveAt
  <2> QED BY <2>1 DEF LiveIs
<1>10. \A i \in 1..m : i + 1 \in 1..(m + 1) /\ ~(n + (i + 1) <= n) /\ (n + (i + 1)) - 1 = n + i
  OBVIOUS
<1>11. ASSUME NEW p \in U PROVE p \in 1..n \/ \E i \in 1..m : p = n + (i + 1)
  <2>1. ASSUME NEW i \in 1..(m + 1), p = n + i PROVE \E j \in 1..m : p = n + (j + 1)
    <3>1. 1 \in 1..(m + 1) OBVIOUS
    <3>2. i # 1 BY <1>4, <1>8, <2>1, <3>1
    <3>3. PICK j \in 1..m : j + 1 = i
      <4>1. i - 1 \in 1..m /\ (i - 1) + 1 = i BY <3>2
      <4> QED BY <4>1
    <3> QED BY <2>1, <3>3
  <2> QED BY <1>8, <2>1
<1>12. PICK h : h = [p \in U |-> IF p <= n THEN p ELSE p - 1] OBVIOUS
<1>13. \A p \in U : p \in 1..n => h[p] = p BY <1>12
<1>14. \A i \in 1..m : n + (i + 1) \in U => h[n + (i + 1)] = n + i BY <1>10, <1>12
<1>15. ASSUME NEW p \in U PROVE h[p] \in V /\ KindOf(c, t, h[p]) = KindOf(c, s, p)
  <2>1. CASE p \in 1..n BY <1>8, <1>9, <1>13, <2>1
  <2>2. ASSUME NEW i \in 1..m, p = n + (i + 1) PROVE h[p] \in V /\ KindOf(c, t, h[p]) = KindOf(c, s, p)
    <3>1. h[p] = n + i BY <1>14, <2>2
    <3>2. s[i + 1].is \in Answerable /\ KindOf(c, s, p) = s[i + 1].is BY <1>8, <1>10, <2>2
    <3>3. t[i] = s[i + 1] BY <1>4
    <3>4. n + i \in V /\ KindOf(c, t, n + i) = t[i].is BY <1>9, <3>2, <3>3
    <3> QED BY <3>1, <3>2, <3>3, <3>4
  <2> QED BY <1>11, <2>1, <2>2
<1>16. ASSUME NEW p \in U, NEW q \in U, p < q PROVE h[p] < h[q]
  <2>1. CASE p \in 1..n /\ q \in 1..n BY <1>13, <1>16, <2>1
  <2>2. ASSUME NEW i \in 1..m, p \in 1..n, q = n + (i + 1) PROVE h[p] < h[q]
    <3>1. h[p] = p /\ h[q] = n + i BY <1>13, <1>14, <2>2
    <3> QED BY <2>2, <3>1
  <2>3. ASSUME NEW i \in 1..m, NEW j \in 1..m, p = n + (i + 1), q = n + (j + 1) PROVE h[p] < h[q]
    <3>1. h[p] = n + i /\ h[q] = n + j BY <1>14, <2>3
    <3>2. i < j BY <1>16, <2>3
    <3> QED BY <3>1, <3>2
  <2>4. ASSUME NEW i \in 1..m, p = n + (i + 1), q \in 1..n PROVE FALSE BY <1>16, <2>4
  <2> QED BY <1>11, <2>1, <2>2, <2>3, <2>4
<1>17. ASSUME NEW q \in V PROVE \E p \in U : h[p] = q
  <2>1. CASE q \in 1..n
    <3>1. q \in U BY <1>8, <1>9, <2>1
    <3> QED BY <1>13, <2>1, <3>1
  <2>2. ASSUME NEW i \in 1..m, q = n + i PROVE \E p \in U : h[p] = q
    <3>1. s[i + 1].is \in Answerable BY <1>4, <1>9, <2>2
    <3>2. n + (i + 1) \in U BY <1>8, <1>10, <3>1
    <3> QED BY <1>14, <2>2, <3>2
  <2> QED BY <1>9, <2>1, <2>2
<1>18. h = [p \in U |-> h[p]] BY <1>12
<1>19. Settles(asked, KindsAt(c, t))
  BY <1>6, <1>7, <1>15, <1>16, <1>17, <1>18, SettlesStill
<1> QED BY <1>3, <1>19

\* The client hears a packet that settles nothing.
LEMMA SettlesHeard ==
  ASSUME NEW S, NEW T, NEW c \in Seq(S), NEW s \in Seq(T), c # <<>>, Head(c).is \notin Answered,
         NEW asked, Settles(asked, KindsAt(c, s))
  PROVE  Settles(asked, KindsAt(Tail(c), s))
<1>1. PICK n \in Nat : Len(c) = n + 1 BY OneLonger
<1>2. PICK m \in Nat : m = Len(s) OBVIOUS
<1>3. PICK d : d = Tail(c) OBVIOUS
<1>4. Len(d) = n /\ c[1] = Head(c) /\ \A i \in 1..n : d[i] = c[i + 1] BY <1>1, <1>3
<1>5. n + 1 \in Nat /\ Len(s) = m BY <1>2
<1>6. PICK U : U = Live(c, s) OBVIOUS
<1>7. PICK V : V = Live(d, s) OBVIOUS
<1>8. /\ \A i \in 1..(n + 1) : (i \in U <=> c[i].is \in Answered) /\ KindOf(c, s, i) = c[i].is
      /\ \A i \in 1..m : ((n + 1) + i \in U <=> s[i].is \in Answerable) /\ KindOf(c, s, (n + 1) + i) = s[i].is
      /\ \A p \in U : p \in 1..(n + 1) \/ \E i \in 1..m : p = (n + 1) + i
      /\ U \subseteq Nat
  <2>1. LiveIs(U, c, s, n + 1, m) BY <1>1, <1>5, <1>6, LiveAt
  <2> QED BY <2>1 DEF LiveIs
<1>9. /\ \A i \in 1..n : (i \in V <=> d[i].is \in Answered) /\ KindOf(d, s, i) = d[i].is
      /\ \A i \in 1..m : (n + i \in V <=> s[i].is \in Answerable) /\ KindOf(d, s, n + i) = s[i].is
      /\ \A p \in V : p \in 1..n \/ \E i \in 1..m : p = n + i
  <2>1. LiveIs(V, d, s, n, m) BY <1>4, <1>5, <1>7, LiveAt
  <2> QED BY <2>1 DEF LiveIs
<1>10. \A i \in 1..n : i + 1 \in 1..(n + 1) /\ (i + 1) - 1 = i OBVIOUS
<1>11. \A i \in 1..m : ((n + 1) + i) - 1 = n + i OBVIOUS
<1>12. PICK h : h = [p \in U |-> p - 1] OBVIOUS
<1>13. ASSUME NEW p \in U PROVE h[p] \in V /\ KindOf(d, s, h[p]) = KindOf(c, s, p)
  <2>1. ASSUME p \in 1..(n + 1) PROVE h[p] \in V /\ KindOf(d, s, h[p]) = KindOf(c, s, p)
    <3>1. 1 \in 1..(n + 1) OBVIOUS
    <3>2. p # 1 BY <1>4, <1>8, <2>1, <3>1
    <3>3. PICK j \in 1..n : j + 1 = p
      <4>1. p - 1 \in 1..n /\ (p - 1) + 1 = p BY <2>1, <3>2
      <4> QED BY <4>1
    <3>4. h[p] = j BY <1>10, <1>12, <3>3
    <3>5. c[j + 1].is \in Answered /\ KindOf(c, s, p) = c[j + 1].is BY <1>8, <1>10, <3>3
    <3> QED BY <1>4, <1>9, <3>4, <3>5
  <2>2. ASSUME NEW i \in 1..m, p = (n + 1) + i PROVE h[p] \in V /\ KindOf(d, s, h[p]) = KindOf(c, s, p)
    <3>1. h[p] = n + i BY <1>11, <1>12, <2>2
    <3> QED BY <1>8, <1>9, <2>2, <3>1
  <2> QED BY <1>8, <2>1, <2>2
<1>14. ASSUME NEW p \in U, NEW q \in U, p < q PROVE h[p] < h[q]
  <2>1. p \in Nat /\ q \in Nat BY <1>8
  <2>2. p - 1 < q - 1 BY <1>14, <2>1
  <2> QED BY <1>12, <2>2
<1>15. ASSUME NEW q \in V PROVE \E p \in U : h[p] = q
  <2>1. ASSUME q \in 1..n PROVE \E p \in U : h[p] = q
    <3>1. q + 1 \in U BY <1>4, <1>8, <1>9, <1>10, <2>1
    <3> QED BY <1>10, <1>12, <2>1, <3>1
  <2>2. ASSUME NEW i \in 1..m, q = n + i PROVE \E p \in U : h[p] = q
    <3>1. (n + 1) + i \in U BY <1>8, <1>9, <2>2
    <3> QED BY <1>11, <1>12, <2>2, <3>1
  <2> QED BY <1>9, <2>1, <2>2
<1>16. h = [p \in U |-> h[p]] BY <1>12
<1>17. \A p, q \in U : p < q => h[p] < h[q] BY <1>14
<1>18. Settles(asked, KindsAt(d, s))
  BY <1>6, <1>7, <1>13, <1>15, <1>16, <1>17, SettlesStill
<1> QED BY <1>3, <1>18

\* The driver says what settles nothing.
LEMMA SettlesSaid ==
  ASSUME NEW S, NEW T, NEW c \in Seq(S), NEW s \in Seq(T), NEW more \in Seq(S),
         \A i \in 1..Len(more) : more[i].is \notin Answered,
         NEW asked, Settles(asked, KindsAt(c, s))
  PROVE  Settles(asked, KindsAt(c \o more, s))
<1>1. PICK n \in Nat : n = Len(c) OBVIOUS
<1>2. PICK m \in Nat : m = Len(s) OBVIOUS
<1>3. PICK l \in Nat : l = Len(more) OBVIOUS
<1>4. PICK d : d = c \o more OBVIOUS
<1>5. Len(d) = n + l /\ (\A i \in 1..n : d[i] = c[i]) /\ \A i \in 1..l : d[n + i] = more[i]
  BY <1>1, <1>3, <1>4, BothParts
<1>6. n + l \in Nat /\ Len(c) = n /\ Len(s) = m BY <1>1, <1>2
<1>7. PICK U : U = Live(c, s) OBVIOUS
<1>8. PICK V : V = Live(d, s) OBVIOUS
<1>9. /\ \A i \in 1..n : (i \in U <=> c[i].is \in Answered) /\ KindOf(c, s, i) = c[i].is
      /\ \A i \in 1..m : (n + i \in U <=> s[i].is \in Answerable) /\ KindOf(c, s, n + i) = s[i].is
      /\ \A p \in U : p \in 1..n \/ \E i \in 1..m : p = n + i
  <2>1. LiveIs(U, c, s, n, m) BY <1>6, <1>7, LiveAt
  <2> QED BY <2>1 DEF LiveIs
<1>10. /\ \A i \in 1..(n + l) : (i \in V <=> d[i].is \in Answered) /\ KindOf(d, s, i) = d[i].is
       /\ \A i \in 1..m : ((n + l) + i \in V <=> s[i].is \in Answerable) /\ KindOf(d, s, (n + l) + i) = s[i].is
       /\ \A p \in V : p \in 1..(n + l) \/ \E i \in 1..m : p = (n + l) + i
  <2>1. LiveIs(V, d, s, n + l, m) BY <1>5, <1>6, <1>8, LiveAt
  <2> QED BY <2>1 DEF LiveIs
<1>11. \A i \in 1..n : i \in 1..(n + l) OBVIOUS
<1>12. \A i \in 1..m : ~(n + i <= n) /\ (n + i) + l = (n + l) + i OBVIOUS
<1>13. PICK h : h = [p \in U |-> IF p <= n THEN p ELSE p + l] OBVIOUS
<1>14. \A p \in U : p \in 1..n => h[p] = p BY <1>13
<1>15. \A i \in 1..m : n + i \in U => h[n + i] = (n + l) + i BY <1>12, <1>13
<1>16. ASSUME NEW p \in U PROVE h[p] \in V /\ KindOf(d, s, h[p]) = KindOf(c, s, p)
  <2>1. CASE p \in 1..n BY <1>5, <1>9, <1>10, <1>11, <1>14, <2>1
  <2>2. ASSUME NEW i \in 1..m, p = n + i PROVE h[p] \in V /\ KindOf(d, s, h[p]) = KindOf(c, s, p)
    <3>1. h[p] = (n + l) + i BY <1>15, <2>2
    <3> QED BY <1>9, <1>10, <2>2, <3>1
  <2> QED BY <1>9, <2>1, <2>2
<1>17. ASSUME NEW p \in U, NEW q \in U, p < q PROVE h[p] < h[q]
  <2>1. CASE p \in 1..n /\ q \in 1..n BY <1>14, <1>17, <2>1
  <2>2. ASSUME NEW i \in 1..m, p \in 1..n, q = n + i PROVE h[p] < h[q]
    <3>1. h[p] = p /\ h[q] = (n + l) + i BY <1>14, <1>15, <2>2
    <3> QED BY <2>2, <3>1
  <2>3. ASSUME NEW i \in 1..m, NEW j \in 1..m, p = n + i, q = n + j PROVE h[p] < h[q]
    <3>1. h[p] = (n + l) + i /\ h[q] = (n + l) + j BY <1>15, <2>3
    <3>2. i < j BY <1>17, <2>3
    <3> QED BY <3>1, <3>2
  <2>4. ASSUME NEW i \in 1..m, p = n + i, q \in 1..n PROVE FALSE BY <1>17, <2>4
  <2> QED BY <1>9, <2>1, <2>2, <2>3, <2>4
<1>18. ASSUME NEW q \in V PROVE \E p \in U : h[p] = q
  <2>1. ASSUME q \in 1..(n + l) PROVE \E p \in U : h[p] = q
    <3>1. d[q].is \in Answered BY <1>10, <2>1
    <3>2. CASE q \in 1..n
      <4>1. q \in U BY <1>5, <1>9, <3>1, <3>2
      <4> QED BY <1>14, <3>2, <4>1
    <3>3. CASE q \notin 1..n
      <4>1. q - n \in 1..l /\ q = n + (q - n) BY <2>1, <3>3
      <4>2. d[n + (q - n)] = more[q - n] /\ more[q - n].is \notin Answered BY <1>3, <1>5, <4>1
      <4> QED BY <3>1, <4>1, <4>2
    <3> QED BY <3>2, <3>3
  <2>2. ASSUME NEW i \in 1..m, q = (n + l) + i PROVE \E p \in U : h[p] = q
    <3>1. n + i \in U BY <1>9, <1>10, <2>2
    <3> QED BY <1>15, <2>2, <3>1
  <2> QED BY <1>10, <2>1, <2>2
<1>19. h = [p \in U |-> h[p]] BY <1>13
<1>20. Settles(asked, KindsAt(d, s))
  BY <1>7, <1>8, <1>16, <1>17, <1>18, <1>19, SettlesStill
<1> QED BY <1>4, <1>20

\* The client says what settles nothing.
LEMMA SettlesToldTo ==
  ASSUME NEW S, NEW T, NEW c \in Seq(S), NEW s \in Seq(T), NEW more \in Seq(T),
         \A i \in 1..Len(more) : more[i].is \notin Answerable,
         NEW asked, Settles(asked, KindsAt(c, s))
  PROVE  Settles(asked, KindsAt(c, s \o more))
<1>1. PICK n \in Nat : n = Len(c) OBVIOUS
<1>2. PICK m \in Nat : m = Len(s) OBVIOUS
<1>3. PICK l \in Nat : l = Len(more) OBVIOUS
<1>4. PICK t : t = s \o more OBVIOUS
<1>5. Len(t) = m + l /\ (\A i \in 1..m : t[i] = s[i]) /\ \A i \in 1..l : t[m + i] = more[i]
  BY <1>2, <1>3, <1>4, BothParts
<1>6. m + l \in Nat /\ Len(c) = n /\ Len(s) = m BY <1>1, <1>2
<1>7. PICK U : U = Live(c, s) OBVIOUS
<1>8. PICK V : V = Live(c, t) OBVIOUS
<1>9. /\ \A i \in 1..n : (i \in U <=> c[i].is \in Answered) /\ KindOf(c, s, i) = c[i].is
      /\ \A i \in 1..m : (n + i \in U <=> s[i].is \in Answerable) /\ KindOf(c, s, n + i) = s[i].is
      /\ \A p \in U : p \in 1..n \/ \E i \in 1..m : p = n + i
  <2>1. LiveIs(U, c, s, n, m) BY <1>6, <1>7, LiveAt
  <2> QED BY <2>1 DEF LiveIs
<1>10. /\ \A i \in 1..n : (i \in V <=> c[i].is \in Answered) /\ KindOf(c, t, i) = c[i].is
       /\ \A i \in 1..(m + l) : (n + i \in V <=> t[i].is \in Answerable) /\ KindOf(c, t, n + i) = t[i].is
       /\ \A p \in V : p \in 1..n \/ \E i \in 1..(m + l) : p = n + i
  <2>1. LiveIs(V, c, t, n, m + l) BY <1>5, <1>6, <1>8, LiveAt
  <2> QED BY <2>1 DEF LiveIs
<1>11. \A i \in 1..m : i \in 1..(m + l) OBVIOUS
<1>12. PICK h : h = [p \in U |-> p] OBVIOUS
<1>13. ASSUME NEW p \in U PROVE p \in V /\ KindOf(c, t, p) = KindOf(c, s, p)
  <2>1. CASE p \in 1..n BY <1>9, <1>10, <2>1
  <2>2. ASSUME NEW i \in 1..m, p = n + i PROVE p \in V /\ KindOf(c, t, p) = KindOf(c, s, p)
    <3>1. s[i].is \in Answerable /\ KindOf(c, s, p) = s[i].is /\ t[i] = s[i] BY <1>5, <1>9, <2>2
    <3> QED BY <1>10, <1>11, <2>2, <3>1
  <2> QED BY <1>9, <2>1, <2>2
<1>14. ASSUME NEW q \in V PROVE q \in U
  <2>1. CASE q \in 1..n BY <1>9, <1>10, <2>1
  <2>2. ASSUME NEW i \in 1..(m + l), q = n + i PROVE q \in U
    <3>1. t[i].is \in Answerable BY <1>10, <2>2
    <3>2. CASE i \in 1..m BY <1>5, <1>9, <2>2, <3>1, <3>2
    <3>3. CASE i \notin 1..m
      <4>1. i - m \in 1..l /\ i = m + (i - m) BY <3>3
      <4>2. t[m + (i - m)] = more[i - m] /\ more[i - m].is \notin Answerable BY <1>3, <1>5, <4>1
      <4> QED BY <3>1, <4>1, <4>2
    <3> QED BY <3>2, <3>3
  <2> QED BY <1>10, <2>1, <2>2
<1>15. h = [p \in U |-> h[p]] /\ \A p \in U : h[p] = p BY <1>12
<1>16. Settles(asked, KindsAt(c, t))
  BY <1>7, <1>8, <1>13, <1>14, <1>15, SettlesStill
<1> QED BY <1>4, <1>16

LEMMA QuestionsDiffer ==
  /\ \A is \in Answerable : is \notin Answered
  /\ \A q \in Answerable : AnswersTo(q) \subseteq Answered
<1>1. ASSUME NEW is \in Answerable PROVE is \notin Answered
  BY Zenon DEF Answerable, Answered, Questions, Attempts, Proofs
<1>2. ASSUME NEW q \in Answerable PROVE AnswersTo(q) \subseteq Answered
  BY ZenonT(60) DEF Answerable, Answered, AnswersTo, Questions, Attempts, Proofs
<1> QED BY <1>1, <1>2

\* A question is read by the driver, and answered.
LEMMA SettlesAnswer ==
  ASSUME NEW S, NEW T, NEW c \in Seq(S), NEW s \in Seq(T), s # <<>>,
         NEW q \in Answerable, Head(s).is = q, NEW a \in S, a.is \in AnswersTo(q),
         NEW asked \in Seq(Answerable), Settles(asked, KindsAt(c, s))
  PROVE  Settles(asked, KindsAt(Append(c, a), Tail(s)))
<1>1. PICK n \in Nat : n = Len(c) OBVIOUS
<1>2. PICK m \in Nat : Len(s) = m + 1 BY OneLonger
<1>3. PICK t : t = Tail(s) OBVIOUS
<1>4. Len(t) = m /\ s[1] = Head(s) /\ \A i \in 1..m : t[i] = s[i + 1] BY <1>2, <1>3
<1>5. PICK d : d = Append(c, a) OBVIOUS
<1>6. Len(d) = n + 1 /\ d[n + 1] = a /\ \A i \in 1..n : d[i] = c[i] BY <1>1, <1>5
<1>7. m + 1 \in Nat /\ n + 1 \in Nat /\ Len(c) = n BY <1>1
<1>8. PICK U : U = Live(c, s) OBVIOUS
<1>9. PICK V : V = Live(d, t) OBVIOUS
<1>10. /\ \A i \in 1..n : (i \in U <=> c[i].is \in Answered) /\ KindOf(c, s, i) = c[i].is
       /\ \A i \in 1..(m + 1) : (n + i \in U <=> s[i].is \in Answerable) /\ KindOf(c, s, n + i) = s[i].is
       /\ \A p \in U : p \in 1..n \/ \E i \in 1..(m + 1) : p = n + i
  <2>1. LiveIs(U, c, s, n, m + 1) BY <1>2, <1>7, <1>8, LiveAt
  <2> QED BY <2>1 DEF LiveIs
<1>11. /\ \A i \in 1..(n + 1) : (i \in V <=> d[i].is \in Answered) /\ KindOf(d, t, i) = d[i].is
       /\ \A i \in 1..m : ((n + 1) + i \in V <=> t[i].is \in Answerable) /\ KindOf(d, t, (n + 1) + i) = t[i].is
       /\ \A p \in V : p \in 1..(n + 1) \/ \E i \in 1..m : p = (n + 1) + i
  <2>1. LiveIs(V, d, t, n + 1, m) BY <1>4, <1>6, <1>7, <1>9, LiveAt
  <2> QED BY <2>1 DEF LiveIs
<1>12. /\ n + 1 \in 1..(n + 1) /\ 1 \in 1..(m + 1)
       /\ \A i \in 1..n : i \in 1..(n + 1) /\ i # n + 1
       /\ \A i \in 1..m : /\ i + 1 \in 1..(m + 1) /\ n + (i + 1) = (n + 1) + i
                          /\ (n + 1) + i # n + 1
  OBVIOUS
<1>13. n + 1 \in U /\ n + 1 \in V /\ KindOf(c, s, n + 1) = q /\ KindOf(d, t, n + 1) = a.is
  BY <1>4, <1>6, <1>10, <1>11, <1>12, QuestionsDiffer
\* The other places are what they were.
<1>14. ASSUME NEW p \in U PROVE p = n + 1 \/ p \in 1..n \/ \E i \in 1..m : p = (n + 1) + i
  <2>1. ASSUME NEW i \in 1..(m + 1), p = n + i, p # n + 1 PROVE \E j \in 1..m : p = (n + 1) + j
    <3>1. i - 1 \in 1..m /\ p = (n + 1) + (i - 1) BY <2>1
    <3> QED BY <3>1
  <2> QED BY <1>10, <2>1
<1>15. ASSUME NEW p \in U, p # n + 1 PROVE p \in V /\ KindOf(d, t, p) = KindOf(c, s, p)
  <2>1. CASE p \in 1..n
    <3>1. c[p].is \in Answered /\ KindOf(c, s, p) = c[p].is /\ d[p] = c[p] BY <1>6, <1>10, <2>1
    <3> QED BY <1>11, <1>12, <2>1, <3>1
  <2>2. ASSUME NEW i \in 1..m, p = (n + 1) + i PROVE p \in V /\ KindOf(d, t, p) = KindOf(c, s, p)
    <3>1. i + 1 \in 1..(m + 1) /\ p = n + (i + 1) BY <1>12, <2>2
    <3>2. s[i + 1].is \in Answerable /\ KindOf(c, s, p) = s[i + 1].is BY <1>10, <3>1
    <3>3. t[i] = s[i + 1] BY <1>4
    <3> QED BY <1>11, <2>2, <3>2, <3>3
  <2> QED BY <1>14, <1>15, <2>1, <2>2
<1>16. ASSUME NEW p \in V PROVE p \in U
  <2>1. CASE p = n + 1 BY <1>13, <2>1
  <2>2. ASSUME p \in 1..(n + 1), p # n + 1 PROVE p \in U
    <3>1. p \in 1..n BY <2>2
    <3>2. d[p].is \in Answered /\ d[p] = c[p] BY <1>6, <1>11, <2>2, <3>1
    <3> QED BY <1>10, <3>1, <3>2
  <2>3. ASSUME NEW i \in 1..m, p = (n + 1) + i PROVE p \in U
    <3>1. i + 1 \in 1..(m + 1) /\ p = n + (i + 1) BY <1>12, <2>3
    <3>2. t[i].is \in Answerable /\ t[i] = s[i + 1] BY <1>4, <1>11, <2>3
    <3> QED BY <1>10, <3>1, <3>2
  <2> QED BY <1>11, <2>1, <2>2, <2>3
<1>17. PICK h : h = [p \in U |-> p] OBVIOUS
<1>18. PICK u : u = KindsAt(c, s) OBVIOUS
<1>19. PICK v : v = KindsAt(d, t) OBVIOUS
<1>20. DOMAIN u = U /\ \A p \in U : u[p] = KindOf(c, s, p) BY <1>8, <1>18 DEF KindsAt
<1>21. DOMAIN v = V /\ \A p \in V : v[p] = KindOf(d, t, p) BY <1>9, <1>19 DEF KindsAt
<1>22. ASSUME NEW p \in U, NEW i \in DOMAIN asked, Meets(u[p], asked[i])
       PROVE  Meets(v[p], asked[i])
  <2>1. CASE p # n + 1 BY <1>15, <1>20, <1>21, <1>22, <2>1
  <2>2. CASE p = n + 1
    <3>1. u[p] = q /\ v[p] = a.is BY <1>13, <1>20, <1>21, <2>2
    <3>2. asked[i] \in Answerable OBVIOUS
    <3>3. q \notin AnswersTo(asked[i]) BY <3>2, QuestionsDiffer
    <3>4. q = asked[i] BY <1>22, <3>1, <3>3 DEF Meets
    <3> QED BY <3>1, <3>4 DEF Meets
  <2> QED BY <2>1, <2>2
<1>23. h \in [DOMAIN u -> DOMAIN v] /\ \A p \in U : h[p] = p BY <1>13, <1>15, <1>17, <1>20, <1>21
<1>24. Settles(asked, v)
  <2>1. \A p, r \in DOMAIN u : p < r => h[p] < h[r] BY <1>20, <1>23
  <2>2. \A r \in DOMAIN v : \E p \in DOMAIN u : h[p] = r BY <1>16, <1>20, <1>21, <1>23
  <2>3. \A p \in DOMAIN u : \A i \in DOMAIN asked : Meets(u[p], asked[i]) => Meets(v[h[p]], asked[i])
    BY <1>20, <1>22, <1>23
  <2>4. Settles(asked, u) BY <1>18
  <2> QED BY <1>23, <2>1, <2>2, <2>3, <2>4, SettlesMoved
<1> QED BY <1>3, <1>5, <1>19, <1>24

\* The client hears an answer: it was to the first of what it asked.
LEMMA SettlesHeardOf ==
  ASSUME NEW S, NEW T, NEW c \in Seq(S), NEW s \in Seq(T), c # <<>>, Head(c).is \in Answered,
         NEW asked \in Seq(Answerable), Settles(asked, KindsAt(c, s))
  PROVE  asked # <<>> /\ Settles(Tail(asked), KindsAt(Tail(c), s)) /\ Head(c).is \in AnswersTo(Head(asked))
<1>1. PICK n \in Nat : Len(c) = n + 1 BY OneLonger
<1>2. PICK m \in Nat : m = Len(s) OBVIOUS
<1>3. PICK d : d = Tail(c) OBVIOUS
<1>4. Len(d) = n /\ c[1] = Head(c) /\ \A i \in 1..n : d[i] = c[i + 1] BY <1>1, <1>3
<1>5. n + 1 \in Nat /\ Len(s) = m BY <1>2
<1>6. PICK U : U = Live(c, s) OBVIOUS
<1>7. PICK V : V = Live(d, s) OBVIOUS
<1>8. /\ \A i \in 1..(n + 1) : (i \in U <=> c[i].is \in Answered) /\ KindOf(c, s, i) = c[i].is
      /\ \A i \in 1..m : ((n + 1) + i \in U <=> s[i].is \in Answerable) /\ KindOf(c, s, (n + 1) + i) = s[i].is
      /\ \A p \in U : p \in 1..(n + 1) \/ \E i \in 1..m : p = (n + 1) + i
      /\ U \subseteq Nat
  <2>1. LiveIs(U, c, s, n + 1, m) BY <1>1, <1>5, <1>6, LiveAt
  <2> QED BY <2>1 DEF LiveIs
<1>9. /\ \A i \in 1..n : (i \in V <=> d[i].is \in Answered) /\ KindOf(d, s, i) = d[i].is
      /\ \A i \in 1..m : (n + i \in V <=> s[i].is \in Answerable) /\ KindOf(d, s, n + i) = s[i].is
      /\ \A p \in V : p \in 1..n \/ \E i \in 1..m : p = n + i
  <2>1. LiveIs(V, d, s, n, m) BY <1>4, <1>5, <1>7, LiveAt
  <2> QED BY <2>1 DEF LiveIs
<1>10. /\ 1 \in 1..(n + 1)
       /\ \A i \in 1..n : i + 1 \in 1..(n + 1) /\ (i + 1) - 1 = i /\ i + 1 # 1
       /\ \A i \in 1..m : ((n + 1) + i) - 1 = n + i /\ (n + 1) + i # 1
  OBVIOUS
<1>11. 1 \in U /\ KindOf(c, s, 1) = Head(c).is BY <1>4, <1>8, <1>10
<1>12. \A p \in U : 1 <= p BY <1>8
<1>13. PICK h : h = [p \in U \ {1} |-> p - 1] OBVIOUS
<1>14. ASSUME NEW p \in U \ {1} PROVE h[p] \in V /\ KindOf(d, s, h[p]) = KindOf(c, s, p)
  <2>1. ASSUME p \in 1..(n + 1) PROVE h[p] \in V /\ KindOf(d, s, h[p]) = KindOf(c, s, p)
    <3>1. PICK j \in 1..n : j + 1 = p
      <4>1. p - 1 \in 1..n /\ (p - 1) + 1 = p BY <2>1
      <4> QED BY <4>1
    <3>2. h[p] = j BY <1>10, <1>13, <3>1
    <3>3. c[j + 1].is \in Answered /\ KindOf(c, s, p) = c[j + 1].is BY <1>8, <1>10, <3>1
    <3> QED BY <1>4, <1>9, <3>2, <3>3
  <2>2. ASSUME NEW i \in 1..m, p = (n + 1) + i PROVE h[p] \in V /\ KindOf(d, s, h[p]) = KindOf(c, s, p)
    <3>1. h[p] = n + i BY <1>10, <1>13, <2>2
    <3> QED BY <1>8, <1>9, <2>2, <3>1
  <2> QED BY <1>8, <2>1, <2>2
<1>15. ASSUME NEW p \in U \ {1}, NEW q \in U \ {1}, p < q PROVE h[p] < h[q]
  <2>1. p \in Nat /\ q \in Nat BY <1>8
  <2>2. p - 1 < q - 1 BY <1>15, <2>1
  <2> QED BY <1>13, <2>2
<1>16. ASSUME NEW q \in V PROVE \E p \in U \ {1} : h[p] = q
  <2>1. ASSUME q \in 1..n PROVE \E p \in U \ {1} : h[p] = q
    <3>1. q + 1 \in U \ {1} BY <1>4, <1>8, <1>9, <1>10, <2>1
    <3> QED BY <1>10, <1>13, <2>1, <3>1
  <2>2. ASSUME NEW i \in 1..m, q = n + i PROVE \E p \in U \ {1} : h[p] = q
    <3>1. (n + 1) + i \in U \ {1} BY <1>8, <1>9, <1>10, <2>2
    <3> QED BY <1>10, <1>13, <2>2, <3>1
  <2> QED BY <1>9, <2>1, <2>2
<1>17. PICK u : u = KindsAt(c, s) OBVIOUS
<1>18. PICK v : v = KindsAt(d, s) OBVIOUS
<1>19. DOMAIN u = U /\ \A p \in U : u[p] = KindOf(c, s, p) BY <1>6, <1>17 DEF KindsAt
<1>20. DOMAIN v = V /\ \A p \in V : v[p] = KindOf(d, s, p) BY <1>7, <1>18 DEF KindsAt
<1>21. 1 \in DOMAIN u /\ (\A p \in DOMAIN u : 1 <= p) /\ DOMAIN u \subseteq Nat /\ Settles(asked, u)
  BY <1>8, <1>11, <1>12, <1>17, <1>19
<1>22. h \in [DOMAIN u \ {1} -> DOMAIN v] BY <1>13, <1>14, <1>19, <1>20
<1>23. \A p, q \in DOMAIN u \ {1} : p < q => h[p] < h[q] BY <1>15, <1>19
<1>24. \A q \in DOMAIN v : \E p \in DOMAIN u \ {1} : h[p] = q BY <1>16, <1>19, <1>20
<1>25. \A p \in DOMAIN u \ {1} : v[h[p]] = u[p] BY <1>14, <1>19, <1>20
<1>26. asked # <<>> /\ Settles(Tail(asked), v) /\ Meets(u[1], Head(asked))
  <2>1. PICK first : first = 1 OBVIOUS
  <2>2. Drops(h, u, first, v) BY <1>21, <1>22, <1>23, <1>24, <1>25, <2>1 DEF Drops
  <2>3. Settles(asked, u) BY <1>21
  <2>4. asked # <<>> /\ Settles(Tail(asked), v) /\ Meets(u[first], Head(asked))
    BY <2>2, <2>3, SettlesLess
  <2> QED BY <2>1, <2>4
<1>27. Head(c).is \in AnswersTo(Head(asked))
  <2>1. u[1] = Head(c).is BY <1>11, <1>19
  <2>2. Head(asked) \in Answerable BY <1>26
  <2>3. Head(c).is # Head(asked) BY <2>2, QuestionsDiffer
  <2> QED BY <1>26, <2>1, <2>3 DEF Meets
<1> QED BY <1>3, <1>18, <1>26, <1>27

\* The client asks.
LEMMA SettlesAsked ==
  ASSUME NEW S, NEW T, NEW c \in Seq(S), NEW s \in Seq(T), NEW q \in Answerable,
         NEW a \in T, a.is = q, NEW asked \in Seq(Answerable), Settles(asked, KindsAt(c, s))
  PROVE  Settles(Append(asked, q), KindsAt(c, Append(s, a)))
<1>1. PICK n \in Nat : n = Len(c) OBVIOUS
<1>2. PICK m \in Nat : m = Len(s) OBVIOUS
<1>3. PICK t : t = Append(s, a) OBVIOUS
<1>4. Len(t) = m + 1 /\ t[m + 1] = a /\ \A i \in 1..m : t[i] = s[i] BY <1>2, <1>3
<1>5. m + 1 \in Nat /\ Len(c) = n /\ Len(s) = m BY <1>1, <1>2
<1>6. PICK U : U = Live(c, s) OBVIOUS
<1>7. PICK V : V = Live(c, t) OBVIOUS
<1>8. /\ \A i \in 1..n : (i \in U <=> c[i].is \in Answered) /\ KindOf(c, s, i) = c[i].is
      /\ \A i \in 1..m : (n + i \in U <=> s[i].is \in Answerable) /\ KindOf(c, s, n + i) = s[i].is
      /\ \A p \in U : p \in 1..n \/ \E i \in 1..m : p = n + i
      /\ U \subseteq Nat
  <2>1. LiveIs(U, c, s, n, m) BY <1>5, <1>6, LiveAt
  <2> QED BY <2>1 DEF LiveIs
<1>9. /\ \A i \in 1..n : (i \in V <=> c[i].is \in Answered) /\ KindOf(c, t, i) = c[i].is
      /\ \A i \in 1..(m + 1) : (n + i \in V <=> t[i].is \in Answerable) /\ KindOf(c, t, n + i) = t[i].is
      /\ \A p \in V : p \in 1..n \/ \E i \in 1..(m + 1) : p = n + i
  <2>1. LiveIs(V, c, t, n, m + 1) BY <1>4, <1>5, <1>7, LiveAt
  <2> QED BY <2>1 DEF LiveIs
<1>10. PICK last \in Nat : last = n + (m + 1) OBVIOUS
<1>11. /\ m + 1 \in 1..(m + 1) /\ \A i \in 1..m : i \in 1..(m + 1)
       /\ \A i \in 1..n : i < last
       /\ \A i \in 1..m : n + i < last
  BY <1>10
<1>12. last \in V /\ KindOf(c, t, last) = q BY <1>4, <1>9, <1>10, <1>11
<1>13. ASSUME NEW p \in U PROVE p < last /\ p \in V /\ KindOf(c, t, p) = KindOf(c, s, p)
  <2>1. CASE p \in 1..n BY <1>8, <1>9, <1>11, <2>1
  <2>2. ASSUME NEW i \in 1..m, p = n + i PROVE p < last /\ p \in V /\ KindOf(c, t, p) = KindOf(c, s, p)
    <3>1. s[i].is \in Answerable /\ KindOf(c, s, p) = s[i].is /\ t[i] = s[i] BY <1>4, <1>8, <2>2
    <3>2. p < last BY <1>11, <2>2
    <3> QED BY <1>9, <1>11, <2>2, <3>1, <3>2
  <2> QED BY <1>8, <2>1, <2>2
<1>14. ASSUME NEW p \in V PROVE p = last \/ p \in U
  <2>1. CASE p \in 1..n BY <1>8, <1>9, <2>1
  <2>2. ASSUME NEW i \in 1..(m + 1), p = n + i PROVE p = last \/ p \in U
    <3>1. CASE i = m + 1 BY <1>10, <2>2, <3>1
    <3>2. CASE i # m + 1
      <4>1. i \in 1..m BY <3>2
      <4>2. t[i].is \in Answerable /\ t[i] = s[i] BY <1>4, <1>9, <2>2, <4>1
      <4> QED BY <1>8, <2>2, <4>1, <4>2
    <3> QED BY <3>1, <3>2
  <2> QED BY <1>9, <2>1, <2>2
<1>15. PICK u : u = KindsAt(c, s) OBVIOUS
<1>16. PICK v : v = KindsAt(c, t) OBVIOUS
<1>17. DOMAIN u = U /\ \A p \in U : u[p] = KindOf(c, s, p) BY <1>6, <1>15 DEF KindsAt
<1>18. DOMAIN v = V /\ \A p \in V : v[p] = KindOf(c, t, p) BY <1>7, <1>16 DEF KindsAt
<1>19. DOMAIN v = DOMAIN u \cup {last} BY <1>12, <1>13, <1>14, <1>17, <1>18
<1>20. \A p \in DOMAIN u : p < last /\ v[p] = u[p] BY <1>13, <1>17, <1>18
<1>21. Meets(v[last], q) BY <1>12, <1>18 DEF Meets
<1>22. Settles(asked, u) /\ DOMAIN u \subseteq Nat BY <1>8, <1>15, <1>17
<1>23. Settles(Append(asked, q), v) BY <1>19, <1>20, <1>21, <1>22, SettlesMore
<1> QED BY <1>3, <1>16, <1>23

(***************************************************************************)
(* A session that still runs: what was asked is what is under way.         *)
(***************************************************************************)
Running == phase \notin {"draining", "closed"} /\ "all" \notin ended /\ client.at # "gone"
SshAnswers == Running => Settles(client.asked, KindsAt(toClient, toServer))

LEMMA AskTypes ==
  ASSUME SshInv
  PROVE  /\ toServer \in Seq(ToServerPackets) /\ toClient \in Seq(ToClientPackets)
         /\ client.asked \in Seq(Answerable)
<1>1. client \in ClientType BY DEF SshInv, SshType
<1>2. client.asked \in Seq({"open", "global", "shell", "pty", "unknown"} \cup Questions
                           \cup Attempts \cup Proofs)
  BY <1>1 DEF ClientType
<1> QED BY <1>2, SealTypes DEF Answerable

LEMMA AnswersStay ==
  ASSUME SshAnswers, Running' => Running, UNCHANGED <<toClient, toServer>>,
         client'.asked = client.asked
  PROVE  SshAnswers'
BY DEF SshAnswers

\* The driver reads what settles nothing, and may say what settles nothing.
LEMMA DriverReadsOn ==
  ASSUME SshInv, SshAnswers, Running' => Running, toServer # <<>>, toServer' = Tail(toServer),
         UNCHANGED client, Head(toServer).is \notin Answerable, UNCHANGED toClient
  PROVE  SshAnswers'
<1>1. PICK s \in Seq(ToServerPackets) : s = toServer BY AskTypes
<1>2. PICK c \in Seq(ToClientPackets) : c = toClient BY AskTypes
<1>3. ASSUME Running' PROVE Settles(client.asked, KindsAt(c, Tail(s)))
  <2>1. Settles(client.asked, KindsAt(c, s)) BY <1>1, <1>2, <1>3 DEF SshAnswers
  <2>2. PICK asked : asked = client.asked OBVIOUS
  <2>3. s # <<>> /\ Head(s).is \notin Answerable BY <1>1
  <2> QED BY <2>1, <2>2, <2>3, SettlesTakenBy
<1>4. client'.asked = client.asked /\ toClient' = c /\ toServer' = Tail(s) BY <1>1, <1>2
<1> QED BY <1>3, <1>4 DEF SshAnswers

LEMMA DriverSaysOn ==
  ASSUME SshInv, SshAnswers, Running' => Running, UNCHANGED <<client, toServer>>,
         NEW is, NEW n, Packet(is, n, sealOut) \in ToClientPackets, is \notin Answered,
         toClient' = Says(is, n)
  PROVE  SshAnswers'
<1>1. PICK s \in Seq(ToServerPackets) : s = toServer BY AskTypes
<1>2. PICK c \in Seq(ToClientPackets) : c = toClient BY AskTypes
<1>3. PICK p \in ToClientPackets : p = Packet(is, n, sealOut) OBVIOUS
<1>4. p.is = is BY <1>3 DEF Packet
<1>5. PICK more : more = <<p>> OBVIOUS
<1>6. more \in Seq(ToClientPackets) /\ Len(more) = 1 /\ more[1] = p BY <1>5
<1>7. toClient' = c \o more
  <2>1. Append(c, p) = c \o <<p>> BY AppendIsConcat
  <2> QED BY <1>2, <1>3, <1>5, <2>1 DEF Says
<1>8. \A i \in 1..Len(more) : more[i].is \notin Answered BY <1>4, <1>6
<1>9. ASSUME Running' PROVE Settles(client.asked, KindsAt(c \o more, s))
  <2>1. Settles(client.asked, KindsAt(c, s)) BY <1>1, <1>2, <1>9 DEF SshAnswers
  <2>2. PICK asked : asked = client.asked OBVIOUS
  <2> QED BY <1>6, <1>8, <2>1, <2>2, SettlesSaid
<1>10. client'.asked = client.asked /\ toServer' = s BY <1>1
<1> QED BY <1>7, <1>9, <1>10 DEF SshAnswers

\* The driver reads a question, and answers it.
LEMMA DriverAnswers ==
  ASSUME SshInv, SshAnswers, Running' => Running, toServer # <<>>, toServer' = Tail(toServer),
         UNCHANGED client, Head(toServer).is \in Answerable,
         NEW is \in AnswersTo(Head(toServer).is), NEW n \in Nat, toClient' = Says(is, n)
  PROVE  SshAnswers'
<1>1. PICK s \in Seq(ToServerPackets) : s = toServer BY AskTypes
<1>2. PICK c \in Seq(ToClientPackets) : c = toClient BY AskTypes
<1>3. PICK q \in Answerable : q = Head(s).is BY <1>1
<1>4. is \in AnswersTo(q) BY <1>1, <1>3
<1>5. is \in Answered BY <1>4, QuestionsDiffer
<1>6. PICK p : p = Packet(is, n, sealOut) OBVIOUS
<1>7. p \in ToClientPackets /\ p.is = is
  <2>1. sealOut \in BOOLEAN BY DEF SshInv, SshType
  <2> QED BY <1>5, <1>6, <2>1 DEF Packet, ToClientPackets
<1>8. toClient' = Append(c, p) BY <1>2, <1>6 DEF Says
<1>9. ASSUME Running' PROVE Settles(client.asked, KindsAt(Append(c, p), Tail(s)))
  <2>1. Settles(client.asked, KindsAt(c, s)) BY <1>1, <1>2, <1>9 DEF SshAnswers
  <2>2. PICK asked \in Seq(Answerable) : asked = client.asked BY AskTypes
  <2>3. s # <<>> BY <1>1
  <2>4. Settles(asked, KindsAt(c, s)) BY <2>1, <2>2
  <2>5. Head(s).is = q /\ p.is \in AnswersTo(q) BY <1>3, <1>4, <1>7
  <2>6. Settles(asked, KindsAt(Append(c, p), Tail(s)))
    BY <1>7, <2>3, <2>4, <2>5, SettlesAnswer
  <2> QED BY <2>2, <2>6
<1>10. client'.asked = client.asked /\ toServer' = Tail(s) BY <1>1
<1> QED BY <1>8, <1>9, <1>10 DEF SshAnswers

\* The client says what asks nothing.
LEMMA ClientSaysOn ==
  ASSUME SshInv, SshAnswers, Running' => Running, UNCHANGED toClient, client'.asked = client.asked,
         NEW more \in Seq(ToServerPackets), toServer' = toServer \o more,
         \A i \in 1..Len(more) : more[i].is \notin Answerable
  PROVE  SshAnswers'
<1>1. PICK s \in Seq(ToServerPackets) : s = toServer BY AskTypes
<1>2. PICK c \in Seq(ToClientPackets) : c = toClient BY AskTypes
<1>3. ASSUME Running' PROVE Settles(client.asked, KindsAt(c, s \o more))
  <2>1. Settles(client.asked, KindsAt(c, s)) BY <1>1, <1>2, <1>3 DEF SshAnswers
  <2>2. PICK asked : asked = client.asked OBVIOUS
  <2> QED BY <2>1, <2>2, SettlesToldTo
<1>4. toClient' = c /\ toServer' = s \o more BY <1>1, <1>2
<1> QED BY <1>3, <1>4 DEF SshAnswers

LEMMA ByClientOne ==
  ASSUME SshInv, NEW is \in ClientKinds, NEW n \in Nat
  PROVE  /\ ByClient(is, n) \in Seq(ToServerPackets) /\ Len(ByClient(is, n)) = 1
         /\ ByClient(is, n)[1].is = is
<1>1. PICK p : p = Packet(is, n, client.sealOut) OBVIOUS
<1>2. p.is = is BY <1>1 DEF Packet
<1>3. ByClient(is, n) = <<p>> BY <1>1 DEF ByClient
<1>4. ByClient(is, n) \in Seq(ToServerPackets) BY ClientPacket
<1> QED BY <1>2, <1>3, <1>4

\* The client asks.
LEMMA ClientAsks ==
  ASSUME SshInv, SshAnswers, Running' => Running, UNCHANGED toClient,
         NEW is \in Answerable, NEW n \in Nat, client'.asked = Append(client.asked, is),
         toServer' = toServer \o ByClient(is, n)
  PROVE  SshAnswers'
<1>1. PICK s \in Seq(ToServerPackets) : s = toServer BY AskTypes
<1>2. PICK c \in Seq(ToClientPackets) : c = toClient BY AskTypes
<1>3. PICK p : p = Packet(is, n, client.sealOut) OBVIOUS
<1>4. is \in ClientKinds BY DEF Answerable, ClientKinds
<1>5. p \in ToServerPackets /\ p.is = is
  <2>1. ByClient(is, n) = <<p>> BY <1>3 DEF ByClient
  <2>2. <<p>> \in Seq(ToServerPackets) BY <1>4, <2>1, ByClientOne
  <2>3. p \in ToServerPackets BY <2>2, SealTypes
  <2> QED BY <1>3, <2>3 DEF Packet
<1>6. toServer' = Append(s, p)
  <2>1. ByClient(is, n) = <<p>> BY <1>3 DEF ByClient
  <2>2. Append(s, p) = s \o <<p>> BY <1>5, AppendIsConcat
  <2> QED BY <1>1, <2>1, <2>2
<1>7. ASSUME Running' PROVE Settles(client'.asked, KindsAt(c, Append(s, p)))
  <2>1. Settles(client.asked, KindsAt(c, s)) BY <1>1, <1>2, <1>7 DEF SshAnswers
  <2>2. PICK asked \in Seq(Answerable) : asked = client.asked BY AskTypes
  <2>3. Settles(asked, KindsAt(c, s)) BY <2>1, <2>2
  <2>4. Settles(Append(asked, is), KindsAt(c, Append(s, p))) BY <1>5, <2>3, SettlesAsked
  <2> QED BY <2>2, <2>4
<1>8. toClient' = c BY <1>2
<1> QED BY <1>6, <1>7, <1>8 DEF SshAnswers

LEMMA LoginAnswers ==
  /\ \A q \in Questions : ReplyTo(q) \in AnswersTo(q)
  /\ \A q \in Attempts : "failure" \in AnswersTo(q)
<1>1. ReplyTo("service") = "accepted" /\ AnswersTo("service") = {"accepted"}
  BY Zenon DEF ReplyTo, AnswersTo, Attempts, Proofs
<1>2. ReplyTo("known key") = "pk ok" /\ AnswersTo("known key") = {"pk ok"}
  BY Zenon DEF ReplyTo, AnswersTo, Attempts, Proofs
<1>3. ReplyTo("none") = "failure" /\ AnswersTo("none") = {"failure"}
  BY Zenon DEF ReplyTo, AnswersTo, Attempts, Proofs
<1>4. ReplyTo("strange key") = "failure" /\ AnswersTo("strange key") = {"failure"}
  BY Zenon DEF ReplyTo, AnswersTo, Attempts, Proofs
<1>5. AnswersTo("bad password") = {"failure"} /\ AnswersTo("bad signature") = {"failure"}
  BY Zenon DEF AnswersTo, Attempts, Proofs
<1>6. ASSUME NEW q \in Questions PROVE ReplyTo(q) \in AnswersTo(q)
  <2>1. q = "service" \/ q = "known key" \/ q = "none" \/ q = "strange key"
    BY <1>6, Zenon DEF Questions
  <2> QED BY <1>1, <1>2, <1>3, <1>4, <2>1, Zenon
<1>7. ASSUME NEW q \in Attempts PROVE "failure" \in AnswersTo(q)
  <2>1. q = "bad password" \/ q = "bad signature" BY <1>7, Zenon DEF Attempts
  <2> QED BY <1>5, <2>1, Zenon
<1> QED BY <1>6, <1>7

LEMMA SetsUpAnswers == ASSUME SshInv, SshSeals, SshAnswers, SetsUp PROVE SshAnswers'
<1>1. PICK m : m = Head(toServer) OBVIOUS
<1>2. /\ Takes /\ (Kexinit(m) \/ Guess(m) \/ EcdhInit(m) \/ NewKeys(m) \/ Login(m))
      /\ UNCHANGED <<client, ended>> /\ toServer # <<>> /\ toServer' = Tail(toServer)
      /\ phase \in {"kexinit", "guess", "ecdh", "newkeys", "auth"}
  BY <1>1 DEF SetsUp, Takes, Kexinit, Guess, EcdhInit, NewKeys, Login
<1>3. Running' => Running BY <1>2 DEF Running
<1>4. CASE Unkeyed
  <2>1. m.is \notin Answerable BY <1>1, <1>2, <1>4, UnkeyedTakes
  <2>2. CASE UNCHANGED toClient BY <1>1, <1>2, <1>3, <2>1, <2>2, DriverReadsOn
  <2>3. CASE EcdhInit(m)
    <3>1. PICK a : a = Packet("reply", 0, FALSE) OBVIOUS
    <3>2. PICK b : b = Packet("newkeys", 0, FALSE) OBVIOUS
    <3>3. PICK d : d = Packet("extinfo", 0, TRUE) OBVIOUS
    <3>4. PICK more : more = <<a, b, d>> OBVIOUS
    <3>5. a \in ToClientPackets /\ b \in ToClientPackets /\ d \in ToClientPackets
      BY <3>1, <3>2, <3>3 DEF Packet, ToClientPackets
    <3>6. a.is \notin Answered /\ b.is \notin Answered /\ d.is \notin Answered
      BY <3>1, <3>2, <3>3 DEF Packet, Answered
    <3>7. /\ more \in Seq(ToClientPackets) /\ Len(more) = 3
          /\ more[1] = a /\ more[2] = b /\ more[3] = d
      BY <3>4, <3>5
    <3>8. \A i \in 1..Len(more) : more[i].is \notin Answered BY <3>6, <3>7
    <3>9. toClient' = toClient \o more BY <2>3, <3>1, <3>2, <3>3, <3>4 DEF EcdhInit
    <3>10. PICK s \in Seq(ToServerPackets) : s = toServer BY AskTypes
    <3>11. PICK c \in Seq(ToClientPackets) : c = toClient BY AskTypes
    <3>12. ASSUME Running' PROVE Settles(client.asked, KindsAt(c \o more, Tail(s)))
      <4>1. PICK asked : asked = client.asked OBVIOUS
      <4>2. Settles(asked, KindsAt(c, s)) BY <1>3, <3>10, <3>11, <3>12, <4>1 DEF SshAnswers
      <4>3. s # <<>> /\ Head(s).is \notin Answerable BY <1>1, <1>2, <2>1, <3>10
      <4>4. Settles(asked, KindsAt(c, Tail(s))) BY <4>2, <4>3, SettlesTakenBy
      <4>5. PICK t : t = Tail(s) OBVIOUS
      <4>6. Settles(asked, KindsAt(c \o more, t))
        <5>1. t \in Seq(ToServerPackets) /\ Settles(asked, KindsAt(c, t)) BY <4>3, <4>4, <4>5
        <5> QED BY <3>7, <3>8, <5>1, SettlesSaid
      <4> QED BY <4>1, <4>5, <4>6
    <3>13. client'.asked = client.asked /\ toClient' = c \o more /\ toServer' = Tail(s)
      BY <1>2, <3>9, <3>10, <3>11
    <3> QED BY <3>12, <3>13 DEF SshAnswers
  <2>4. CASE phase' = "closed" BY <2>4 DEF SshAnswers, Running
  <2>5. EcdhInit(m) \/ UNCHANGED toClient \/ phase' = "closed"
    BY <1>2, <1>4 DEF Kexinit, Guess, NewKeys, Login, Unkeyed
  <2> QED BY <2>2, <2>3, <2>4, <2>5
<1>5. CASE ~Unkeyed
  <2>1. Login(m) BY <1>2, <1>5 DEF Unkeyed, Kexinit, Guess, EcdhInit, NewKeys
  <2>2. m.is \in Answerable BY <2>1 DEF Login, Answerable
  <2>3. CASE phase' = "closed" BY <2>3 DEF SshAnswers, Running
  <2>4. ASSUME NEW is \in AnswersTo(m.is), Say(is) PROVE SshAnswers'
    <3>1. toClient' = Says(is, 0) /\ 0 \in Nat BY <2>4 DEF Say
    <3>2. Head(toServer).is \in Answerable /\ is \in AnswersTo(Head(toServer).is) BY <1>1, <2>2, <2>4
    <3> QED BY <1>2, <1>3, <3>1, <3>2, DriverAnswers
  <2>5. CASE m.is \in Questions /\ Say(ReplyTo(m.is))
    <3>1. ReplyTo(m.is) \in AnswersTo(m.is) BY <2>5, LoginAnswers
    <3> QED BY <2>4, <2>5, <3>1
  <2>6. CASE m.is \in Proofs /\ Say("success")
    <3>1. "success" \in AnswersTo(m.is) BY <2>6, Zenon DEF Proofs, Attempts, AnswersTo
    <3> QED BY <2>4, <2>6, <3>1
  <2>7. CASE m.is \in Attempts /\ Say("failure")
    <3>1. "failure" \in AnswersTo(m.is) BY <2>7, LoginAnswers
    <3> QED BY <2>4, <2>7, <3>1
  <2> QED BY <2>1, <2>3, <2>5, <2>6, <2>7 DEF Login
<1> QED BY <1>4, <1>5

LEMMA HandlesAnswers == ASSUME SshInv, SshAnswers, HandlesPacket PROVE SshAnswers'
<1>1. PICK m : m = Head(toServer) OBVIOUS
<1>2. /\ toServer # <<>> /\ toServer' = Tail(toServer) /\ phase \in {"setup", "shell", "closing"}
      /\ UNCHANGED client
      /\ OpenChannel(m) \/ Request(m) \/ Adjusted(m) \/ Data(m) \/ Ending(m)
  BY <1>1 DEF HandlesPacket, Takes
<1>3. ended \subseteq ended' BY <1>2 DEF OpenChannel, Request, Adjusted, Data, Ending
<1>4. Running' => Running BY <1>2, <1>3 DEF Running
<1>5. ASSUME m.is \in Answerable, NEW is \in AnswersTo(m.is), NEW n \in Nat, toClient' = Says(is, n)
      PROVE  SshAnswers'
  <2>1. Head(toServer).is \in Answerable /\ is \in AnswersTo(Head(toServer).is) BY <1>1, <1>5
  <2> QED BY <1>2, <1>4, <1>5, <2>1, DriverAnswers
<1>6. CASE m.is \notin Answerable /\ UNCHANGED toClient BY <1>1, <1>2, <1>4, <1>6, DriverReadsOn
<1>7. CASE OpenChannel(m)
  <2>1. m.is \in Answerable /\ m.is = "open" BY <1>7 DEF OpenChannel, Answerable
  <2>2. "confirmation" \in AnswersTo(m.is) /\ "open failure" \in AnswersTo(m.is)
    BY <2>1, Zenon DEF AnswersTo, Attempts, Proofs
  <2>3. toClient' = Says("open failure", 0) \/ toClient' = Says("confirmation", Window)
    BY <1>7 DEF OpenChannel, Say
  <2>4. 0 \in Nat /\ Window \in Nat BY SshBounds
  <2> QED BY <1>5, <2>1, <2>2, <2>3, <2>4
<1>8. CASE Request(m) /\ m.is # "change"
  <2>1. m.is \in Answerable BY <1>8 DEF Request, Answerable
  <2>2. PICK is : is \in AnswersTo(m.is) /\ Say(is)
    <3>1. CASE m.is \in {"shell", "pty"} /\ Say("channel success")
      <4>1. "channel success" \in AnswersTo(m.is) BY <3>1, Zenon DEF AnswersTo, Attempts, Proofs
      <4> QED BY <3>1, <4>1
    <3>2. CASE m.is = "unknown" /\ Say("channel failure")
      <4>1. "channel failure" \in AnswersTo(m.is) BY <3>2, Zenon DEF AnswersTo, Attempts, Proofs
      <4> QED BY <3>2, <4>1
    <3>3. CASE m.is = "global" /\ Say("request failure")
      <4>1. "request failure" \in AnswersTo(m.is) BY <3>3, Zenon DEF AnswersTo, Attempts, Proofs
      <4> QED BY <3>3, <4>1
    <3> QED BY <1>8, <3>1, <3>2, <3>3 DEF Request
  <2>3. toClient' = Says(is, 0) /\ 0 \in Nat BY <2>2 DEF Say
  <2> QED BY <1>5, <2>1, <2>2, <2>3
<1>9. CASE Request(m) /\ m.is = "change"
  <2>1. m.is \notin Answerable BY <1>9, Zenon DEF Answerable, Questions, Attempts, Proofs
  <2>2. UNCHANGED toClient BY <1>9 DEF Request
  <2> QED BY <1>6, <2>1, <2>2
<1>10. CASE Adjusted(m) \/ Data(m)
  <2>1. m.is \in {"adjust", "data"} /\ UNCHANGED toClient BY <1>10 DEF Adjusted, Data
  <2>2. m.is \notin Answerable BY <2>1, Zenon DEF Answerable, Questions, Attempts, Proofs
  <2> QED BY <1>6, <2>1, <2>2
<1>11. CASE Ending(m)
  <2>1. CASE m.is = "eof"
    <3>1. m.is \notin Answerable BY <2>1, Zenon DEF Answerable, Questions, Attempts, Proofs
    <3>2. UNCHANGED toClient BY <1>11, <2>1 DEF Ending
    <3> QED BY <1>6, <3>1, <3>2
  <2>2. CASE m.is # "eof"
    <3>1. "all" \in ended' BY <1>11, <2>2 DEF Ending
    <3> QED BY <3>1 DEF SshAnswers, Running
  <2> QED BY <2>1, <2>2
<1> QED BY <1>2, <1>7, <1>8, <1>9, <1>10, <1>11

\* What the program does, and what ends a session.
LEMMA DriverAnswering ==
  ASSUME SshInv, SshAnswers,
         \/ \E n \in ReadSizes : ReadSsh(n)
         \/ \E n \in WriteSizes : WriteSsh(n)
         \/ Gather \/ SendData \/ GivesUp \/ ReadDone \/ ReadFails
         \/ CloseSsh \/ Farewell \/ DrainClient \/ PastDeadline \/ Cut
  PROVE  SshAnswers'
<1>1. CASE \/ \E n \in ReadSizes : ReadSsh(n)
           \/ \E n \in WriteSizes : WriteSsh(n)
           \/ Gather \/ GivesUp \/ ReadFails \/ CloseSsh
  <2>1. /\ UNCHANGED <<toClient, toServer, client>> /\ ended \subseteq ended'
        /\ phase' = phase \/ (phase = "shell" /\ phase' \in {"closing", "draining"})
    BY <1>1 DEF ReadSsh, WriteSsh, Gather, GivesUp, ReadFails, CloseSsh
  <2>2. Running' => Running BY <2>1 DEF Running
  <2> QED BY <2>1, <2>2, AnswersStay
<1>2. CASE SendData
  <2>1. PICK n : n = Lesser(Lesser(call.left, chan.peers), MaxPayload) OBVIOUS
  <2>2. toClient' = Says("data", n) /\ UNCHANGED <<phase, ended, client, toServer>>
    BY <1>2, <2>1 DEF SendData
  <2>3. n \in Nat BY <2>1, SshNumbers, SshBounds DEF Lesser
  <2>4. Packet("data", n, sealOut) \in ToClientPackets
    BY <2>3, SealTypes DEF Packet, ToClientPackets
  <2>5. "data" \notin Answered BY Zenon DEF Answered
  <2>6. Running' => Running BY <2>2 DEF Running
  <2> QED BY <2>2, <2>4, <2>5, <2>6, DriverSaysOn
<1>3. CASE ReadDone
  <2>1. PICK n : n = Lesser(Unread, call.want) OBVIOUS
  <2>2. TopUp(n) /\ UNCHANGED <<phase, ended, client, toServer>> BY <1>3, <2>1 DEF ReadDone
  <2>3. pend.pos <= pend.len BY DEF SshInv, SshType
  <2>4. n \in Nat BY <2>1, <2>3, SshNumbers DEF Lesser, Unread
  <2>5. PICK mine : mine = IF chan.mine > n THEN chan.mine - n ELSE 0 OBVIOUS
  <2>6. mine \in Nat BY <2>4, <2>5, SshNumbers
  <2>7. UNCHANGED toClient \/ (~(mine > Window \div 2) /\ toClient' = Says("adjust", Window - mine))
    BY <2>2, <2>5 DEF TopUp
  <2>8. Running' => Running BY <2>2 DEF Running
  <2>9. CASE UNCHANGED toClient BY <2>2, <2>8, <2>9, AnswersStay
  <2>10. CASE ~(mine > Window \div 2) /\ toClient' = Says("adjust", Window - mine)
    <3>1. PICK k \in Nat : k = Window - mine BY <2>6, <2>10, SshBounds
    <3>2. Packet("adjust", k, sealOut) \in ToClientPackets
      BY <3>1, SealTypes DEF Packet, ToClientPackets
    <3>3. "adjust" \notin Answered BY Zenon DEF Answered
    <3> QED BY <2>2, <2>8, <2>10, <3>1, <3>2, <3>3, DriverSaysOn
  <2> QED BY <2>7, <2>9, <2>10
<1>4. CASE Farewell \/ DrainClient \/ PastDeadline \/ Cut
  <2>1. phase' \in {"draining", "closed"} \/ "all" \in ended'
    BY <1>4 DEF Farewell, DrainClient, PastDeadline, Cut
  <2> QED BY <2>1 DEF SshAnswers, Running
<1> QED BY <1>1, <1>2, <1>3, <1>4

\* What the client says with one packet, or none, that asks nothing.
LEMMA ClientSaysOnce ==
  ASSUME SshInv, SshAnswers, UNCHANGED <<phase, ended, toClient>>, client.at # "gone",
         client'.asked = client.asked,
         \/ UNCHANGED toServer
         \/ \E is \in ClientKinds \ Answerable : \E n \in Nat : toServer' = toServer \o ByClient(is, n)
  PROVE  SshAnswers'
<1>1. Running' => Running BY DEF Running
<1>2. CASE UNCHANGED toServer BY <1>1, <1>2, AnswersStay
<1>3. ASSUME NEW is \in ClientKinds \ Answerable, NEW n \in Nat,
             toServer' = toServer \o ByClient(is, n)
      PROVE  SshAnswers'
  <2>1. PICK more : more = ByClient(is, n) OBVIOUS
  <2>2. more \in Seq(ToServerPackets) /\ Len(more) = 1 /\ more[1].is = is BY <2>1, ByClientOne
  <2>3. \A i \in 1..Len(more) : more[i].is \notin Answerable BY <2>2
  <2>4. toServer' = toServer \o more BY <1>3, <2>1
  <2> QED BY <1>1, <2>2, <2>3, <2>4, ClientSaysOn
<1> QED BY <1>2, <1>3

LEMMA AskNothing ==
  /\ \A is \in {"kexinit", "kexinit right", "kexinit wrong", "kexinit strange", "ecdh", "other",
                "newkeys", "change", "data", "eof", "adjust", "disconnect", "rekey"} :
       is \in ClientKinds \ Answerable
  /\ \A is \in Answerable : is \in ClientKinds
<1>1. ASSUME NEW is \in {"kexinit", "kexinit right", "kexinit wrong", "kexinit strange", "ecdh",
                         "other", "newkeys", "change", "data", "eof", "adjust", "disconnect", "rekey"}
      PROVE  is \notin Answerable
  BY <1>1, Zenon DEF Answerable, Questions, Attempts, Proofs
<1>2. ASSUME NEW is \in {"kexinit", "kexinit right", "kexinit wrong", "kexinit strange", "ecdh",
                         "other", "newkeys", "change", "data", "eof", "adjust", "disconnect", "rekey"}
      PROVE  is \in ClientKinds
  BY <1>2, Zenon DEF ClientKinds
<1>3. ASSUME NEW is \in Answerable PROVE is \in ClientKinds
  BY <1>3, Zenon DEF Answerable, ClientKinds
<1> QED BY <1>1, <1>2, <1>3

\* Packets of the client that ask nothing.
AsksNothing(s) ==
  s \in Seq(ToServerPackets) /\ \A i \in 1..Len(s) : s[i].is \notin Answerable

LEMMA NothingAsked ==
  /\ AsksNothing(<<>>)
  /\ \A a, b : AsksNothing(a) /\ AsksNothing(b) => AsksNothing(a \o b)
<1>1. <<>> \in Seq(ToServerPackets) BY EmptySeq
<1>2. AsksNothing(<<>>) BY <1>1 DEF AsksNothing
<1>3. ASSUME NEW a, NEW b, AsksNothing(a), AsksNothing(b) PROVE AsksNothing(a \o b)
  <2>1. a \in Seq(ToServerPackets) /\ b \in Seq(ToServerPackets) BY <1>3 DEF AsksNothing
  <2>2. PICK n \in Nat : n = Len(a) BY <2>1
  <2>3. PICK m \in Nat : m = Len(b) BY <2>1
  <2>4. PICK both : both = a \o b OBVIOUS
  <2>5. /\ both \in Seq(ToServerPackets) /\ Len(both) = n + m
        /\ (\A i \in 1..n : both[i] = a[i]) /\ \A i \in 1..m : both[n + i] = b[i]
    BY <2>1, <2>2, <2>3, <2>4, BothParts
  <2>6. ASSUME NEW i \in 1..(n + m) PROVE both[i].is \notin Answerable
    <3>1. CASE i \in 1..n BY <1>3, <2>2, <2>5, <3>1 DEF AsksNothing
    <3>2. CASE i \notin 1..n
      <4>1. i - n \in 1..m /\ i = n + (i - n) BY <3>2
      <4>2. both[n + (i - n)] = b[i - n] /\ b[i - n].is \notin Answerable
        BY <1>3, <2>3, <2>5, <4>1 DEF AsksNothing
      <4> QED BY <4>1, <4>2
    <3> QED BY <3>1, <3>2
  <2> QED BY <2>4, <2>5, <2>6 DEF AsksNothing
<1> QED BY <1>2, <1>3

LEMMA OneAskingNothing ==
  ASSUME SshInv, NEW is \in ClientKinds \ Answerable
  PROVE  AsksNothing(ByClient(is, 0))
<1>1. PICK s : s = ByClient(is, 0) OBVIOUS
<1>2. s \in Seq(ToServerPackets) /\ Len(s) = 1 /\ s[1].is = is BY <1>1, ByClientOne
<1> QED BY <1>1, <1>2 DEF AsksNothing

LEMMA HelloAnswers == ASSUME SshInv, SshAnswers, Hello PROVE SshAnswers'
<1>1. PICK guess \in {"kexinit", "kexinit right", "kexinit wrong", "kexinit strange"} :
        ClientSays([client EXCEPT !.at = "offered", !.guess = guess],
                   ByClient(guess, 0) \o (CASE guess = "kexinit right" -> ByClient("ecdh", 0)
                                            [] guess = "kexinit wrong" -> ByClient("other", 0)
                                            [] OTHER -> <<>>))
  BY DEF Hello
<1>2. PICK rest : rest = CASE guess = "kexinit right" -> ByClient("ecdh", 0)
                           [] guess = "kexinit wrong" -> ByClient("other", 0)
                           [] OTHER -> <<>>
  OBVIOUS
<1>3. PICK first : first = ByClient(guess, 0) OBVIOUS
<1>4. PICK both : both = first \o rest OBVIOUS
<1>5. /\ client' = [client EXCEPT !.at = "offered", !.guess = guess]
      /\ toServer' = toServer \o both /\ UNCHANGED <<sessionVars, toClient>>
  BY <1>1, <1>2, <1>3, <1>4 DEF ClientSays
<1>6. UNCHANGED <<phase, ended, toClient>> /\ client.at = "hello" BY <1>5 DEF sessionVars, Hello
<1>7. client'.asked = client.asked BY <1>5, SealTypes DEF ClientType
<1>8. AsksNothing(first)
  <2>1. guess \in ClientKinds \ Answerable BY <1>1, AskNothing
  <2> QED BY <1>3, <2>1, OneAskingNothing
<1>9. AsksNothing(rest)
  <2>1. rest = ByClient("ecdh", 0) \/ rest = ByClient("other", 0) \/ rest = <<>> BY <1>2
  <2>2. "ecdh" \in ClientKinds \ Answerable /\ "other" \in ClientKinds \ Answerable BY AskNothing
  <2>3. AsksNothing(ByClient("ecdh", 0)) /\ AsksNothing(ByClient("other", 0))
    BY <2>2, OneAskingNothing
  <2> QED BY <2>1, <2>3, NothingAsked
<1>10. AsksNothing(both) BY <1>4, <1>8, <1>9, NothingAsked
<1>11. both \in Seq(ToServerPackets) /\ \A i \in 1..Len(both) : both[i].is \notin Answerable
  BY <1>10, Zenon DEF AsksNothing
<1>12. Running' => Running BY <1>6 DEF Running
<1> QED BY <1>5, <1>6, <1>7, <1>11, <1>12, ClientSaysOn

\* What an answer, and what else it hears, makes of what it has asked.
LEMMA UnderstandsAsked ==
  ASSUME SshInv, NEW m \in ToClientPackets
  PROVE  /\ m.is \in Answered => Understood(m).asked = Tail(client.asked)
         /\ m.is \notin Answered => Understood(m).asked = client.asked
<1>1. client \in ClientType BY SealTypes
<1>2. PICK c : c = Understood(m) OBVIOUS
<1>3. CASE m.is \in Answered
  <2>1. PICK asked : asked = Tail(client.asked) OBVIOUS
  <2>2. PICK login : login = (client.login \/ m.is = "success") OBVIOUS
  <2>3. PICK asks : asks = IF m.is = "success" THEN 0 ELSE client.asks OBVIOUS
  <2>4. PICK open : open = (client.chan \/ m.is = "confirmation") OBVIOUS
  <2>5. PICK credit : credit = IF m.is = "confirmation" THEN m.n ELSE client.credit OBVIOUS
  <2>6. c = [client EXCEPT !.asked = asked, !.login = login, !.asks = asks, !.chan = open,
                           !.credit = credit]
    BY <1>2, <1>3, <2>1, <2>2, <2>3, <2>4, <2>5 DEF Understood, Answered
  <2>7. c.asked = asked BY <1>1, <2>6 DEF ClientType
  <2> QED BY <1>2, <1>3, <2>1, <2>7
<1>4. CASE m.is \notin Answered
  <2>1. CASE m.is = "kexinit"
    <3>1. c = [client EXCEPT !.at = "exchanging", !.guess = "none"]
      BY <1>2, <2>1 DEF Understood, Answered
    <3> QED BY <1>1, <1>2, <1>4, <3>1 DEF ClientType
  <2>2. CASE m.is = "reply"
    <3>1. c = [client EXCEPT !.sealOut = TRUE] BY <1>2, <2>2 DEF Understood, Answered
    <3> QED BY <1>1, <1>2, <1>4, <3>1 DEF ClientType
  <2>3. CASE m.is = "newkeys"
    <3>1. c = [client EXCEPT !.sealIn = TRUE] BY <1>2, <2>3 DEF Understood, Answered
    <3> QED BY <1>1, <1>2, <1>4, <3>1 DEF ClientType
  <2>4. CASE m.is = "adjust"
    <3>1. PICK n : n = client.credit + m.n OBVIOUS
    <3>2. c = [client EXCEPT !.credit = n] BY <1>2, <2>4, <3>1 DEF Understood, Answered
    <3> QED BY <1>1, <1>2, <1>4, <3>2 DEF ClientType
  <2>5. CASE m.is = "data"
    <3>1. PICK n : n = client.heard + m.n OBVIOUS
    <3>2. c = [client EXCEPT !.heard = n] BY <1>2, <2>5, <3>1 DEF Understood, Answered
    <3> QED BY <1>1, <1>2, <1>4, <3>2 DEF ClientType
  <2>6. CASE m.is = "close"
    <3>1. c = [client EXCEPT !.saw = TRUE] BY <1>2, <2>6 DEF Understood, Answered
    <3> QED BY <1>1, <1>2, <1>4, <3>1 DEF ClientType
  <2>7. CASE m.is = "disconnect"
    <3>1. c = [client EXCEPT !.at = "gone", !.end = "told"]
      BY <1>2, <2>7 DEF Understood, Answered, LeftAs
    <3> QED BY <1>1, <1>2, <1>4, <3>1 DEF ClientType
  <2>8. CASE m.is \in {"extinfo", "status", "eof"}
    <3>1. c = client BY <1>2, <2>8 DEF Understood, Answered
    <3> QED BY <1>2, <1>4, <3>1
  <2> QED BY <1>4, <2>1, <2>2, <2>3, <2>4, <2>5, <2>6, <2>7, <2>8 DEF ToClientPackets
<1> QED BY <1>3, <1>4

LEMMA ListensAnswers == ASSUME SshInv, SshAnswers, Listens PROVE SshAnswers'
<1>1. PICK m : m = Head(toClient) OBVIOUS
<1>2. PICK packets : packets = CASE m.is = "kexinit" /\ client.guess # "kexinit right" -> ByClient("ecdh", 0)
                                 [] m.is = "reply" -> ByClient("newkeys", 0)
                                 [] OTHER -> <<>>
  OBVIOUS
<1>3. /\ client.at \in {"offered", "exchanging"} /\ toClient # <<>> /\ client' = Understood(m)
      /\ toClient' = IF m.is = "disconnect" THEN <<>> ELSE Tail(toClient)
      /\ toServer' = toServer \o packets /\ UNCHANGED sessionVars
  BY <1>1, <1>2 DEF Listens
<1>4. UNCHANGED <<phase, ended>> /\ (Running' => Running) BY <1>3 DEF sessionVars, Running
<1>5. PICK s \in Seq(ToServerPackets) : s = toServer BY AskTypes
<1>6. PICK c \in Seq(ToClientPackets) : c = toClient BY AskTypes
<1>7. PICK asked \in Seq(Answerable) : asked = client.asked BY AskTypes
<1>8. c # <<>> /\ m = Head(c) /\ m \in ToClientPackets BY <1>1, <1>3, <1>6
<1>9. CASE m.is = "disconnect"
  <2>1. client'.at = "gone" BY <1>3, <1>8, <1>9, Understands
  <2> QED BY <2>1 DEF SshAnswers, Running
<1>10. CASE m.is # "disconnect"
  <2>1. toClient' = Tail(c) BY <1>3, <1>6, <1>10
  <2>2. ASSUME Running' PROVE Settles(client'.asked, KindsAt(Tail(c), s))
    <3>1. Settles(asked, KindsAt(c, s)) BY <1>4, <1>5, <1>6, <1>7, <2>2 DEF SshAnswers
    <3>2. CASE m.is \in Answered
      <4>1. client'.asked = Tail(asked) BY <1>3, <1>7, <1>8, <3>2, UnderstandsAsked
      <4>2. Head(c).is \in Answered BY <1>8, <3>2
      <4>3. Settles(Tail(asked), KindsAt(Tail(c), s)) BY <1>8, <3>1, <4>2, SettlesHeardOf
      <4> QED BY <4>1, <4>3
    <3>3. CASE m.is \notin Answered
      <4>1. client'.asked = asked BY <1>3, <1>7, <1>8, <3>3, UnderstandsAsked
      <4>2. Head(c).is \notin Answered BY <1>8, <3>3
      <4>3. Settles(asked, KindsAt(Tail(c), s)) BY <1>8, <3>1, <4>2, SettlesHeard
      <4> QED BY <4>1, <4>3
    <3> QED BY <3>2, <3>3
  <2>3. PICK d : d = Tail(c) OBVIOUS
  <2>4. d \in Seq(ToClientPackets) BY <1>8, <2>3
  <2>5. packets \in Seq(ToServerPackets) /\ \A i \in 1..Len(packets) : packets[i].is \notin Answerable
    <3>1. packets = ByClient("ecdh", 0) \/ packets = ByClient("newkeys", 0) \/ packets = <<>> BY <1>2
    <3>2. "ecdh" \in ClientKinds \ Answerable /\ "newkeys" \in ClientKinds \ Answerable BY AskNothing
    <3>3. AsksNothing(packets) BY <3>1, <3>2, OneAskingNothing, NothingAsked
    <3> QED BY <3>3 DEF AsksNothing
  <2>6. ASSUME Running' PROVE Settles(client'.asked, KindsAt(d, s \o packets))
    <3>1. PICK left : left = client'.asked OBVIOUS
    <3>2. Settles(left, KindsAt(d, s)) BY <2>2, <2>3, <2>6, <3>1
    <3>3. Settles(left, KindsAt(d, s \o packets)) BY <2>4, <2>5, <3>2, SettlesToldTo
    <3> QED BY <3>1, <3>3
  <2>7. toClient' = d /\ toServer' = s \o packets BY <1>3, <1>5, <2>1, <2>3
  <2> QED BY <2>6, <2>7 DEF SshAnswers
<1> QED BY <1>9, <1>10

LEMMA ClientAnswering ==
  ASSUME SshInv, SshAnswers,
         \/ \E n \in 1..MaxPayload : Types(n)
         \/ TypesEof \/ Shows \/ ClientLeaves \/ Rekeys
  PROVE  SshAnswers'
<1>1. client \in ClientType BY SealTypes
<1>2. /\ "data" \in ClientKinds \ Answerable /\ "eof" \in ClientKinds \ Answerable
      /\ "adjust" \in ClientKinds \ Answerable /\ "rekey" \in ClientKinds \ Answerable
  BY AskNothing
<1>3. ASSUME NEW n \in 1..MaxPayload, Types(n) PROVE SshAnswers'
  <2>1. PICK t : t = client.typed + n OBVIOUS
  <2>2. PICK c : c = client.credit - n OBVIOUS
  <2>3. /\ client' = [client EXCEPT !.typed = t, !.credit = c] /\ client.at = "exchanging"
        /\ toServer' = toServer \o ByClient("data", n) /\ UNCHANGED <<phase, ended, toClient>>
    BY <1>3, <2>1, <2>2 DEF Types, ClientSays, sessionVars, Here
  <2>4. client'.asked = client.asked BY <1>1, <2>3 DEF ClientType
  <2>5. n \in Nat BY SshBounds
  <2> QED BY <1>2, <2>3, <2>4, <2>5, ClientSaysOnce
<1>4. CASE TypesEof
  <2>1. /\ client' = [client EXCEPT !.eof = TRUE] /\ client.at = "exchanging"
        /\ toServer' = toServer \o ByClient("eof", 0) /\ UNCHANGED <<phase, ended, toClient>>
    BY <1>4 DEF TypesEof, ClientSays, sessionVars, Here
  <2>2. client'.asked = client.asked BY <1>1, <2>1 DEF ClientType
  <2> QED BY <1>2, <2>1, <2>2, ClientSaysOnce
<1>5. CASE Shows
  <2>1. PICK n : n = client.shown + client.heard OBVIOUS
  <2>2. PICK packets :
          packets = IF phase = "closed" \/ client.saw THEN <<>> ELSE ByClient("adjust", client.heard)
    OBVIOUS
  <2>3. /\ client' = [client EXCEPT !.heard = 0, !.shown = n] /\ client.at = "exchanging"
        /\ toServer' = toServer \o packets /\ UNCHANGED <<phase, ended, toClient>>
    BY <1>5, <2>1, <2>2 DEF Shows, ClientSays, sessionVars
  <2>4. client'.asked = client.asked BY <1>1, <2>3 DEF ClientType
  <2>5. PICK k \in Nat : k = client.heard BY SshNumbers
  <2>6. CASE packets = <<>>
    <3>1. PICK s \in Seq(ToServerPackets) : s = toServer BY AskTypes
    <3>2. s \o <<>> = s BY ConcatEmptySeq
    <3>3. toServer' = toServer BY <2>3, <2>6, <3>1, <3>2
    <3> QED BY <2>3, <2>4, <3>3, ClientSaysOnce
  <2>7. CASE packets = ByClient("adjust", k) BY <1>2, <2>3, <2>4, <2>7, ClientSaysOnce
  <2> QED BY <2>2, <2>5, <2>6, <2>7
<1>6. CASE ClientLeaves
  <2>1. PICK how \in {"closed", "left"} : client' = LeftAs(how)
    BY <1>6 DEF ClientLeaves, ClientSays
  <2>2. client'.at = "gone" BY <1>1, <2>1 DEF LeftAs, ClientType
  <2> QED BY <2>2 DEF SshAnswers, Running
<1>7. CASE Rekeys
  <2>1. PICK n : n = sitting.asks OBVIOUS
  <2>2. /\ client' = [client EXCEPT !.asks = n] /\ client.at = "exchanging"
        /\ toServer' = toServer \o ByClient("rekey", 0) /\ UNCHANGED <<phase, ended, toClient>>
    BY <1>7, <2>1 DEF Rekeys, ClientSays, sessionVars, Here
  <2>3. client'.asked = client.asked BY <1>1, <2>2 DEF ClientType
  <2> QED BY <1>2, <2>2, <2>3, ClientSaysOnce
<1> QED BY <1>3, <1>4, <1>5, <1>6, <1>7

LEMMA AsksAnswers == ASSUME SshInv, SshAnswers, AsksLogin \/ AsksFor PROVE SshAnswers'
<1>1. client \in ClientType /\ client.asked \in Seq(Answerable) BY SealTypes, AskTypes
<1>2. CASE AsksLogin
  <2>1. PICK is \in Questions \cup Attempts \cup Proofs :
          ClientSays([client EXCEPT !.asked = <<is>>, !.asks = @ + 1], ByClient(is, 0))
    BY <1>2 DEF AsksLogin
  <2>2. PICK asked : asked = <<is>> OBVIOUS
  <2>3. PICK n : n = client.asks + 1 OBVIOUS
  <2>4. /\ client' = [client EXCEPT !.asked = asked, !.asks = n] /\ client.at = "exchanging"
        /\ toServer' = toServer \o ByClient(is, 0) /\ UNCHANGED <<phase, ended, toClient>>
        /\ client.asked = <<>>
    BY <1>2, <2>1, <2>2, <2>3 DEF AsksLogin, Here, ClientSays, sessionVars
  <2>5. client'.asked = asked BY <1>1, <2>4 DEF ClientType
  <2>6. asked = Append(client.asked, is) BY <2>2, <2>4
  <2>7. is \in Answerable BY <2>1 DEF Answerable
  <2>8. Running' => Running BY <2>4 DEF Running
  <2>9. client'.asked = Append(client.asked, is) BY <2>5, <2>6
  <2> QED BY <2>4, <2>7, <2>8, <2>9, ClientAsks
<1>3. CASE AsksFor
  <2>1. PICK is \in {"open", "global", "shell", "pty", "unknown", "change"} :
          ClientSays([client EXCEPT !.asked = IF is = "change" THEN @ ELSE Append(@, is),
                                    !.asks = @ + 1],
                     ByClient(is, IF is = "open" THEN sitting.window ELSE 0))
    <3>1. PICK is \in {"open", "global"} \cup
                        (IF client.chan THEN {"shell", "pty", "unknown", "change"} ELSE {}) :
            ClientSays([client EXCEPT !.asked = IF is = "change" THEN @ ELSE Append(@, is),
                                      !.asks = @ + 1],
                       ByClient(is, IF is = "open" THEN sitting.window ELSE 0))
      BY <1>3 DEF AsksFor
    <3>2. is \in {"open", "global", "shell", "pty", "unknown", "change"} OBVIOUS
    <3> QED BY <3>1, <3>2
  <2>2. PICK asked : asked = IF is = "change" THEN client.asked ELSE Append(client.asked, is) OBVIOUS
  <2>3. PICK n : n = client.asks + 1 OBVIOUS
  <2>4. PICK w \in Nat : w = IF is = "open" THEN sitting.window ELSE 0
    <3>1. sitting.window \in Nat BY SshBounds DEF SshInv, SshType
    <3> QED BY <3>1
  <2>5. /\ client' = [client EXCEPT !.asked = asked, !.asks = n] /\ client.at = "exchanging"
        /\ toServer' = toServer \o ByClient(is, w) /\ UNCHANGED <<phase, ended, toClient>>
    BY <1>3, <2>1, <2>2, <2>3, <2>4 DEF AsksFor, Here, ClientSays, sessionVars
  <2>6. client'.asked = asked BY <1>1, <2>5 DEF ClientType
  <2>7. CASE is = "change"
    <3>1. is \in ClientKinds \ Answerable BY <2>7, AskNothing
    <3>2. client'.asked = client.asked BY <2>2, <2>6, <2>7
    <3> QED BY <2>5, <3>1, <3>2, ClientSaysOnce
  <2>8. CASE is # "change"
    <3>1. is \in Answerable BY <2>1, <2>8 DEF Answerable
    <3>2. client'.asked = Append(client.asked, is) BY <2>2, <2>6, <2>8
    <3>3. Running' => Running BY <2>5 DEF Running
    <3> QED BY <2>5, <3>1, <3>2, <3>3, ClientAsks
  <2> QED BY <2>7, <2>8
<1> QED BY <1>2, <1>3

LEMMA AnswersStart == ASSUME SshInit PROVE SshAnswers
<1>1. client.asked = <<>> /\ toServer = <<>> BY DEF SshInit, NoClient
<1>2. PICK p : p = Packet("kexinit", 0, FALSE) OBVIOUS
<1>3. p.is = "kexinit" BY <1>2 DEF Packet
<1>4. PICK c : c = toClient OBVIOUS
<1>5. c = <<p>> BY <1>2, <1>4 DEF SshInit
<1>6. Len(c) = 1 /\ c[1] = p BY <1>5
<1>7. "kexinit" \notin Answered BY Zenon DEF Answered
<1>8. Live(c, <<>>) = {}
  <2>1. Len(<<>>) = 0 /\ 0 \in Nat /\ 1 \in Nat OBVIOUS
  <2>2. PICK none : none = <<>> OBVIOUS
  <2>3. PICK live : live = Live(c, none) OBVIOUS
  <2>4. Len(none) = 0 BY <2>1, <2>2
  <2>5. LiveIs(Live(c, none), c, none, 1, 0) BY <1>6, <2>1, <2>4, LiveAt
  <2>6. LiveIs(live, c, none, 1, 0) BY <2>3, <2>5
  <2>7. /\ \A i \in 1..1 : i \in live <=> c[i].is \in Answered
        /\ \A p1 \in live : p1 \in 1..1 \/ \E i \in 1..0 : p1 = 1 + i
    BY <2>6 DEF LiveIs
  <2>8. ASSUME NEW i \in live PROVE FALSE
    <3>1. i \in 1..1 BY <2>7
    <3>2. i = 1 BY <3>1
    <3> QED BY <1>3, <1>6, <1>7, <2>7, <3>1, <3>2
  <2> QED BY <2>2, <2>3, <2>8
<1>9. Settles(<<>>, KindsAt(c, <<>>))
  <2>1. PICK u : u = KindsAt(c, <<>>) OBVIOUS
  <2>2. DOMAIN u = {} BY <1>8, <2>1 DEF KindsAt
  <2>3. PICK asked : asked = <<>> OBVIOUS
  <2>4. DOMAIN asked = {} BY <2>3
  <2>5. PICK place : place = [i \in {} |-> 0] OBVIOUS
  <2>6. place \in [DOMAIN asked -> DOMAIN u] BY <2>2, <2>4, <2>5
  <2>7. Settles(asked, u) BY <2>2, <2>4, <2>6 DEF Settles
  <2> QED BY <2>1, <2>3, <2>7
<1> QED BY <1>1, <1>4, <1>9 DEF SshAnswers

LEMMA AnswersStep ==
  ASSUME SshInv, SshSeals, SshAnswers, SshNext
  PROVE  SshAnswers'
<1>1. CASE SetsUp BY <1>1, SetsUpAnswers
<1>2. CASE HandlesPacket BY <1>2, HandlesAnswers
<1>3. CASE \/ (\E n \in ReadSizes : ReadSsh(n)) \/ (\E n \in WriteSizes : WriteSsh(n))
           \/ Gather \/ SendData \/ GivesUp \/ ReadDone \/ ReadFails
           \/ CloseSsh \/ Farewell \/ DrainClient \/ PastDeadline \/ Cut
  BY <1>3, DriverAnswering
<1>4. CASE ClientNext
  <2>1. CASE Hello BY <2>1, HelloAnswers
  <2>2. CASE Listens BY <2>2, ListensAnswers
  <2>3. CASE AsksLogin \/ AsksFor BY <2>3, AsksAnswers
  <2>4. CASE \/ (\E n \in 1..MaxPayload : Types(n)) \/ TypesEof
             \/ Shows \/ ClientLeaves \/ Rekeys
    BY <2>4, ClientAnswering
  <2> QED BY <1>4, <2>1, <2>2, <2>3, <2>4 DEF ClientNext
<1> QED BY <1>1, <1>2, <1>3, <1>4 DEF SshNext

LEMMA AnswersShow == ASSUME SshInv, SshAnswers PROVE RepliesMatch
<1>1. PICK s \in Seq(ToServerPackets) : s = toServer BY AskTypes
<1>2. PICK c \in Seq(ToClientPackets) : c = toClient BY AskTypes
<1>3. PICK n \in Nat : n = Len(c) OBVIOUS
<1>4. PICK m \in Nat : m = Len(s) OBVIOUS
<1>5. /\ c \o s \in Seq(ToClientPackets \cup ToServerPackets) /\ Len(c \o s) = n + m
      /\ \A i \in 1..(n + m) : (c \o s)[i] = IF i <= n THEN c[i] ELSE s[i - n]
  <2>1. c \in Seq(ToClientPackets \cup ToServerPackets) /\ s \in Seq(ToClientPackets \cup ToServerPackets)
    OBVIOUS
  <2> QED BY <1>3, <1>4, <2>1, ConcatProperties
<1>6. PICK t : t = c \o s OBVIOUS
<1>7. UnderWay = t /\ Len(toClient) = n /\ DOMAIN t = 1..(n + m) BY <1>1, <1>2, <1>3, <1>5, <1>6 DEF UnderWay
<1>8. \A i \in 1..(n + m) : t[i].is = KindOf(c, s, i) BY <1>3, <1>5, <1>6 DEF KindOf
<1>9. Unsettled = {i \in 1..(n + m) : t[i].is \in (IF i <= n THEN Answered ELSE Answerable)}
  BY <1>7 DEF Unsettled
<1>10. Live(c, s) = {i \in 1..(n + m) : KindOf(c, s, i) \in (IF i <= n THEN Answered ELSE Answerable)}
  BY <1>3, <1>4 DEF Live
<1>11. Unsettled = Live(c, s) /\ Unsettled \subseteq 1..(n + m) BY <1>8, <1>9, <1>10
<1>12. PICK u : u = KindsAt(c, s) OBVIOUS
<1>13. DOMAIN u = Unsettled /\ \A i \in Unsettled : u[i] = UnderWay[i].is
  BY <1>7, <1>8, <1>11, <1>12 DEF KindsAt
<1>14. ASSUME client.at = "exchanging", phase \in {"auth", "setup", "shell", "closing"}, "all" \notin ended
       PROVE  \E place \in [DOMAIN client.asked -> Unsettled] :
                /\ \A i, j \in DOMAIN client.asked : i < j => place[i] < place[j]
                /\ \A p \in Unsettled : \E i \in DOMAIN client.asked : place[i] = p
                /\ \A i \in DOMAIN client.asked :
                     UnderWay[place[i]].is \in {client.asked[i]} \cup AnswersTo(client.asked[i])
  <2>1. Running BY <1>14 DEF Running
  <2>2. PICK asked : asked = client.asked OBVIOUS
  <2>3. Settles(asked, u) BY <1>1, <1>2, <1>12, <2>1, <2>2 DEF SshAnswers
  <2>4. PICK place \in [DOMAIN asked -> DOMAIN u] :
          /\ \A i, j \in DOMAIN asked : i < j => place[i] < place[j]
          /\ \A p \in DOMAIN u : \E i \in DOMAIN asked : place[i] = p
          /\ \A i \in DOMAIN asked : Meets(u[place[i]], asked[i])
    BY <2>3 DEF Settles
  <2>5. place \in [DOMAIN asked -> Unsettled] BY <1>13, <2>4
  <2>6. \A p \in Unsettled : \E i \in DOMAIN asked : place[i] = p BY <1>13, <2>4
  <2>7. \A i \in DOMAIN asked : UnderWay[place[i]].is \in {asked[i]} \cup AnswersTo(asked[i])
    <3>1. ASSUME NEW i \in DOMAIN asked
          PROVE  UnderWay[place[i]].is \in {asked[i]} \cup AnswersTo(asked[i])
      <4>1. place[i] \in Unsettled BY <2>5
      <4>2. u[place[i]] = UnderWay[place[i]].is BY <1>13, <4>1
      <4> QED BY <2>4, <4>2 DEF Meets
    <3> QED BY <3>1
  <2> QED BY <2>2, <2>4, <2>5, <2>6, <2>7
<1> QED BY <1>14 DEF RepliesMatch

\* What was asked and is not yet answered is what is on its way, first the answers and
\* then the questions: each has one answer, in the order in which they were asked
\* (authenticate, channel_open and channel_request, drv_ssh.c).
THEOREM RepliesMatchAlways == SshSpec => []RepliesMatch
<1>1. SshInit => SshInv /\ SshSeals /\ SshAnswers BY SshStarts, SealsStart, AnswersStart
<1>2. SshInv /\ SshSeals /\ SshAnswers /\ [SshNext]_sshVars => (SshInv /\ SshSeals /\ SshAnswers)'
  <2>1. ASSUME SshInv, SshSeals, SshAnswers, UNCHANGED sshVars
        PROVE  SshInv' /\ SshSeals' /\ SshAnswers'
    <3>1. UNCHANGED <<phase, sealIn, sealOut, ended, client, toClient, toServer>>
      BY <2>1 DEF sshVars, sessionVars
    <3>2. SshSeals' BY <2>1, <3>1, SealsStay
    <3>3. Running' => Running BY <3>1 DEF Running
    <3>4. SshAnswers' BY <2>1, <3>1, <3>3, AnswersStay
    <3> QED BY <2>1, <3>2, <3>4, SshStays
  <2> QED BY <2>1, SshStep, SealsStep, AnswersStep
<1>3. SshInv /\ SshAnswers => RepliesMatch BY AnswersShow
<1> QED BY <1>1, <1>2, <1>3, PTL DEF SshSpec
=============================================================================
