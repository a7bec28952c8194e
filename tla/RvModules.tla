------------------------------ MODULE RvModules ------------------------------
(***************************************************************************)
(* The module directory (components/rv9_module/src/module.c): the store    *)
(* scanned at boot, modules loaded from a path, and the links that keep an *)
(* image where it runs.  An image is in the mapped store, in a block of    *)
(* RAM, or nowhere.                                                        *)
(*                                                                         *)
(* A link looks the name up before it takes the lock (module.c:566-569),   *)
(* and the directory may have grown in between.                            *)
(***************************************************************************)
EXTENDS Integers, Sequences, FiniteSets

CONSTANTS
  Store,       \* what the partition holds in order: records with "what", which is
               \* a module, one that fails its check, or where the scan ends
  Uploads,     \* modules that may arrive by a path
  Linkers,     \* whoever links: one module each
  RamBlocks,   \* room for images in executable memory
  MaxEntries,  \* bound: entries of the directory
  NoImage, InStore

VARIABLES
  directory,   \* rv9_mod_entry_t in order: name, revision, realtime, resident,
               \* image, in_place, link_count
  mapped,      \* s_xip
  found,       \* the entry a link has found and not yet taken
  linked,      \* the entry each linker has, and where it runs
  code

modVars == <<directory, mapped, found, linked, code>>

ASSUME ModAssumption ==
  /\ Store \in Seq({Store[i] : i \in DOMAIN Store})
  /\ \A i \in DOMAIN Store : Store[i].what \in {"module", "rejected", "end"}
  /\ InStore \notin RamBlocks /\ NoImage \notin RamBlocks /\ NoImage # InStore
  /\ MaxEntries \in Nat /\ IsFiniteSet(Linkers)

(***************************************************************************)
(* rv9_mod_dir_init.                                                       *)
(***************************************************************************)
Stored(r) == [name |-> r.name, revision |-> r.revision, realtime |-> r.realtime,
              resident |-> FALSE, image |-> NoImage, in_place |-> FALSE, link_count |-> 0]

\* The ways through S in order, of which there is one.
Ascending(S) == {w \in [1..Cardinality(S) -> S] : \A i, j \in DOMAIN w : i < j => w[i] < w[j]}

\* Up to where the store ends, or the memory to check the next one.
Scanned(n) == {[k \in DOMAIN w |-> Stored(Store[w[k]])] :
                 w \in Ascending({i \in 1..n : Store[i].what = "module"})}

ModInit ==
  /\ \E n \in 0..Len(Store) :
       /\ \A i \in 1..n : Store[i].what # "end"
       /\ directory \in Scanned(n)
  /\ mapped \in BOOLEAN
  /\ found = [p \in Linkers |-> 0] /\ linked = [p \in Linkers |-> 0]
  /\ code = [p \in Linkers |-> NoImage]

InRam == {directory[i].image : i \in DOMAIN directory} \ {NoImage, InStore}

(***************************************************************************)
(* rv9_mod_register_image, by rv9_mod_load_path: into RAM, for good.       *)
(***************************************************************************)
LoadModule(r) ==
  /\ Len(directory) < MaxEntries
  /\ \E b \in RamBlocks \ InRam :
       directory' = Append(directory, [Stored(r) EXCEPT !.resident = TRUE, !.image = b])
  /\ UNCHANGED <<mapped, found, linked, code>>

(***************************************************************************)
(* rv9_mod_link.                                                           *)
(***************************************************************************)
\* rv9_mod_find: the highest revision; the first of equals.
FindModule(n) ==
  {i \in DOMAIN directory :
     /\ directory[i].name = n
     /\ \A j \in DOMAIN directory : directory[j].name = n =>
          \/ directory[j].revision < directory[i].revision
          \/ directory[j].revision = directory[i].revision /\ i <= j}

LookUp(p, n) ==
  /\ linked[p] = 0 /\ found[p] = 0
  /\ \E i \in FindModule(n) : found' = [found EXCEPT ![p] = i]
  /\ UNCHANGED <<directory, mapped, linked, code>>

\* Bug: whatever the store can run in place is run there.
RunsInPlaceAny(e) == mapped

\* A real-time module is not run from flash: an erase would stop it.
RunsInPlace(e) == mapped /\ ~e.realtime

\* Where the image of an entry with none may be put: what fails its check where
\* it lies is tried in RAM.
Placements(e) == (IF RunsInPlace(e) THEN {InStore} ELSE {}) \cup (RamBlocks \ InRam)

TakeLink(p) ==
  LET i == found[p]
      e == directory[i]
  IN /\ i # 0
     /\ \E x \in (IF e.image # NoImage THEN {e.image} ELSE Placements(e)) :
          /\ directory' = [directory EXCEPT ![i] =
                            [e EXCEPT !.image = x, !.link_count = @ + 1,
                                      !.in_place = IF e.image # NoImage THEN @ ELSE x = InStore]]
          /\ code' = [code EXCEPT ![p] = x]
     /\ found' = [found EXCEPT ![p] = 0] /\ linked' = [linked EXCEPT ![p] = i]
     /\ UNCHANGED mapped

\* No memory for the copy, or what was read does not pass its check.
LinkFails(p) ==
  /\ found[p] # 0 /\ directory[found[p]].image = NoImage
  /\ found' = [found EXCEPT ![p] = 0]
  /\ UNCHANGED <<directory, mapped, linked, code>>

(***************************************************************************)
(* rv9_mod_unlink.                                                         *)
(***************************************************************************)
\* Bug: what came by a path is given back with its last link.
UnlinkedResident(e) ==
  IF e.link_count = 1
  THEN [e EXCEPT !.link_count = 0, !.image = NoImage, !.in_place = FALSE]
  ELSE [e EXCEPT !.link_count = @ - 1]

Unlinked(e) ==
  IF e.link_count = 1 /\ (e.in_place \/ ~e.resident)
  THEN [e EXCEPT !.link_count = 0, !.image = NoImage, !.in_place = FALSE]
  ELSE [e EXCEPT !.link_count = @ - 1]

DropLink(p) ==
  /\ linked[p] # 0
  /\ directory' = [directory EXCEPT ![linked[p]] = Unlinked(@)]
  /\ linked' = [linked EXCEPT ![p] = 0] /\ code' = [code EXCEPT ![p] = NoImage]
  /\ UNCHANGED <<mapped, found>>

ModNext ==
  \/ \E r \in Uploads : LoadModule(r)
  \/ \E p \in Linkers :
       \/ \E n \in {directory[i].name : i \in DOMAIN directory} : LookUp(p, n)
       \/ TakeLink(p) \/ LinkFails(p) \/ DropLink(p)

ModSpec == ModInit /\ [][ModNext]_modVars

(***************************************************************************)
(* Properties.                                                             *)
(***************************************************************************)
\* Whoever linked a module runs in an image that is still where it was, however
\* many links come and go beside it ("The image is freed when the count reaches
\* zero", module.h:1726); one image is one module's; RAM is held only by what is
\* linked or came by a path; and real-time code is never left in flash
\* (rv9_mod_link, rv9_mod_unlink).
ImagesAreHeld ==
  /\ \A p \in Linkers : linked[p] # 0 =>
       code[p] # NoImage /\ directory[linked[p]].image = code[p]
  /\ \A i \in DOMAIN directory : LET e == directory[i] IN
       /\ e.link_count = Cardinality({p \in Linkers : linked[p] = i})
       /\ IF e.resident THEN e.image \in RamBlocks ELSE e.image = NoImage <=> e.link_count = 0
       /\ e.realtime => e.image # InStore
       /\ \A j \in DOMAIN directory \ {i} :
            directory[j].image = e.image => e.image \in {NoImage, InStore}
=============================================================================
