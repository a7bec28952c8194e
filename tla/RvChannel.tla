----------------------------- MODULE RvChannel -----------------------------
(***************************************************************************)
(* What a named pipe promises those who open it: docs/reference.md section *)
(* 3, "pipe".  A name, what was written under it and not yet read, in the  *)
(* order it was written, and who has it open at which end.  No slots, no   *)
(* rings, no waiting.                                                      *)
(***************************************************************************)
EXTENDS Naturals, Sequences, FiniteSets

CONSTANTS Ends, Names, NoName, Capacity

VARIABLES
  text,         \* what is in the pipe of each name
  at,           \* the name an end is open on
  mode,         \* what it was opened for: a subset of {"r", "w"}
  begun,        \* the names that a writer has opened
  got,          \* what an end read last: <<>> is the end of the file
  sent          \* how many bytes it has written, under any name

chan == <<text, at, mode, begun, got, sent>>

Open(n) == {e \in Ends : at[e] = n}
Writers(n) == {e \in Open(n) : "w" \in mode[e]}

Init ==
  /\ text = [n \in Names |-> <<>>] /\ at = [e \in Ends |-> NoName]
  /\ mode = [e \in Ends |-> {}] /\ begun = {} /\ got = [e \in Ends |-> <<>>]
  /\ sent = [e \in Ends |-> 0]

Join(e, n, m) ==
  /\ at[e] = NoName /\ m # {}
  /\ at' = [at EXCEPT ![e] = n] /\ mode' = [mode EXCEPT ![e] = m]
  /\ begun' = IF "w" \in m THEN begun \cup {n} ELSE begun
  /\ UNCHANGED <<text, got, sent>>

\* Nobody left at either end: what was in it goes with the name.
Leave(e) ==
  LET n == at[e]
      last == Open(n) = {e}
  IN /\ n # NoName
     /\ at' = [at EXCEPT ![e] = NoName] /\ mode' = [mode EXCEPT ![e] = {}]
     /\ text' = IF last THEN [text EXCEPT ![n] = <<>>] ELSE text
     /\ begun' = IF last THEN begun \ {n} ELSE begun
     /\ UNCHANGED <<got, sent>>

\* What goes in is what was written, after what was there, and it fits.
Put(e, k) ==
  /\ at[e] # NoName /\ "w" \in mode[e] /\ Len(text[at[e]]) + k <= Capacity
  /\ text' = [text EXCEPT ![at[e]] = @ \o [i \in 1..k |-> <<e, sent[e] + i>>]]
  /\ sent' = [sent EXCEPT ![e] = @ + k]
  /\ UNCHANGED <<at, mode, begun, got>>

\* What comes out is the oldest of what is there.
Take(e, k) ==
  /\ at[e] # NoName /\ "r" \in mode[e] /\ k \in 1..Len(text[at[e]])
  /\ got' = [got EXCEPT ![e] = SubSeq(text[at[e]], 1, k)]
  /\ text' = [text EXCEPT ![at[e]] = SubSeq(@, k + 1, Len(@))]
  /\ UNCHANGED <<at, mode, begun, sent>>

\* The end of the file: a writer came, all have gone, and all was read.
End(e) ==
  /\ at[e] # NoName /\ "r" \in mode[e]
  /\ text[at[e]] = <<>> /\ at[e] \in begun /\ Writers(at[e]) = {}
  /\ got' = [got EXCEPT ![e] = <<>>]
  /\ UNCHANGED <<text, at, mode, begun, sent>>

Next == \E e \in Ends :
  \/ \E n \in Names, m \in SUBSET {"r", "w"} : Join(e, n, m)
  \/ \E k \in 1..Capacity : Put(e, k) \/ Take(e, k)
  \/ Leave(e) \/ End(e)

Spec == Init /\ [][Next]_chan
=============================================================================
