-------------------------------- MODULE RvFile --------------------------------
(***************************************************************************)
(* The block file manager: components/rv9_io/src/rbf.c.                    *)
(*                                                                         *)
(* A volume is a bitmap, a root directory and a descriptor sector to a     *)
(* file.  A path works on its own copy of the descriptor, written back by  *)
(* its close: until then bitmap and descriptor disagree on the medium.     *)
(* Every call holds the mount's lock from its first sector to its last;    *)
(* the power may go between calls, and between the writes of a format, and *)
(* a read or a write may fail; only a read of the directory never does,    *)
(* which the code takes for a name that is not there.                      *)
(***************************************************************************)
EXTENDS Naturals, Sequences, FiniteSets, FiniteSetsExt, Functions

CONSTANTS
  Names, NoName,
  Handles,    \* paths that may be open at once
  Total,      \* sectors of the volume
  Byte,       \* bits of a byte of the bitmap
  MapBytes,   \* bytes of a bitmap sector
  RootSectors,
  RootSlots,  \* directory entries
  MaxSegments,
  MaxLength,  \* bound: sectors of a file
  Worlds      \* what else happens, one choice to a behaviour: "truncate" an
              \* existing file, "seek" past the end of one, the bitmap, data, a
              \* directory entry or a close's descriptor "fail" to be written,
              \* power "cut" between calls, the second write of an entry and
              \* its descriptor fails and leaves them to "tear" apart, and
              \* power or a write lost "half" way through a format

VARIABLES
  bitmap,   \* sectors marked used, on the medium
  entry,    \* per name, the sector of its descriptor, 0 where there is none
  desc,     \* per entry, the descriptor in that sector
  ident,    \* whether the identification sector has its magic
  hint,     \* alloc_hint
  mount,    \* "no", "yes", or the step of a format
  handle,   \* open paths
  happens   \* which of Worlds this is

ASSUME FileAssumption ==
  /\ NoName \notin Names
  /\ Total \in Nat \ {0} /\ Byte \in Nat \ {0} /\ MapBytes \in Nat \ {0}
  /\ RootSectors \in Nat /\ RootSlots \in Nat /\ MaxSegments \in Nat /\ MaxLength \in Nat

medium == <<bitmap, entry, desc, ident>>
fileVars == <<bitmap, entry, desc, ident, hint, mount, handle, happens>>

Sectors == 0..(Total - 1)
Maps == (Total \div Byte + MapBytes - 1) \div MapBytes
Meta == 0..(Maps + RootSectors)      \* identification, bitmap, root
Empty == [secs |-> <<>>, size |-> 0]
Shut == [name |-> NoName, fd |-> Empty, dirty |-> FALSE, writes |-> FALSE]

FileInit ==
  /\ bitmap = {} /\ entry = [n \in Names |-> 0] /\ desc = [n \in Names |-> Empty]
  /\ ident = FALSE /\ hint = 0 /\ mount = "no"
  /\ handle = [h \in Handles |-> Shut] /\ happens \in Worlds

Users(n) == {h \in Handles : handle[h].name = n}
Writing(n) == \E h \in Users(n) : handle[h].writes

(***************************************************************************)
(* The bitmap.                                                             *)
(***************************************************************************)
\* Clear bits of one bitmap sector, those past the end of the volume too.
ClearBits(used, map) ==
  {l \in (map * Byte * MapBytes)..((map + 1) * Byte * MapBytes - 1) : l # 0 /\ l \notin used}

\* alloc_sector, from the hint on and around.  0 is none: also where the
\* first clear bit it comes to is past the end.
Alloc(used, from) ==
  LET start == IF from < Maps THEN from ELSE 0
      some == {n \in 0..(Maps - 1) : ClearBits(used, (start + n) % Maps) # {}}
      lsn == Min(ClearBits(used, (start + Min(some)) % Maps))
  IN IF some = {} THEN 0 ELSE IF lsn >= Total THEN 0 ELSE lsn

MapOf(lsn) == lsn \div (Byte * MapBytes)

Segments(secs) ==
  Cardinality({i \in DOMAIN secs : i = 1 \/ secs[i] # secs[i - 1] + 1})

\* fd_grow: one sector more, or none; a bit that cannot be described is spare.
Grow(v) ==
  LET lsn == Alloc(v.used, v.hint)
      secs == Append(v.fd.secs, lsn)
  IN IF lsn = 0 THEN [v EXCEPT !.ok = FALSE]
     ELSE IF Segments(secs) > MaxSegments
       THEN [v EXCEPT !.ok = FALSE, !.hint = MapOf(lsn), !.spare = {lsn}]
     ELSE [v EXCEPT !.used = @ \cup {lsn}, !.hint = MapOf(lsn), !.fd.secs = secs]

\* fd_release and bitmap_set: nothing waits for a bit to be cleared, and those
\* whose write fails stay marked.
Cleared(used, secs) ==
  {used \ gone : gone \in IF "fail" \in happens THEN SUBSET secs ELSE {secs}}

(***************************************************************************)
(* Mounting and formatting.                                                *)
(***************************************************************************)
\* rbf_mount; a volume with no magic is formatted on sight.
Mount ==
  /\ mount = "no" /\ mount' = IF ident THEN "yes" ELSE "bitmap"
  /\ UNCHANGED <<medium, hint, handle, happens>>

\* rbf_setstat, of a volume nobody has a file of.
Reformat ==
  /\ mount = "yes" /\ \A n \in Names : Users(n) = {}
  /\ mount' = "bitmap" /\ hint' = 0
  /\ UNCHANGED <<medium, handle, happens>>

\* rbf_format, a write or a run of them at a time.
ZeroBitmap ==
  /\ mount = "bitmap" /\ bitmap' = {} /\ mount' = "root"
  /\ UNCHANGED <<entry, desc, ident, hint, handle, happens>>

ZeroRoot ==
  /\ mount = "root" /\ entry' = [n \in Names |-> 0] /\ mount' = "ident"
  /\ desc' = [n \in Names |-> Empty]
  /\ UNCHANGED <<bitmap, ident, hint, handle, happens>>

WriteIdent ==
  /\ mount = "ident" /\ ident' = TRUE /\ mount' = "reserve"
  /\ UNCHANGED <<bitmap, entry, desc, hint, handle, happens>>

ReserveOne ==
  /\ mount = "reserve" /\ ~(Meta \subseteq bitmap)
  /\ bitmap' = bitmap \cup {Min(Meta \ bitmap)}
  /\ UNCHANGED <<entry, desc, ident, hint, mount, handle, happens>>

Formatted ==
  /\ mount = "reserve" /\ Meta \subseteq bitmap /\ mount' = "yes"
  /\ UNCHANGED <<medium, hint, handle, happens>>

\* The power goes, and with it every path and what it had not written.
CutPower ==
  /\ mount # "no" /\ (IF mount = "yes" THEN "cut" ELSE "half") \in happens
  /\ mount' = "no" /\ hint' = 0 /\ handle' = [h \in Handles |-> Shut]
  /\ UNCHANGED <<medium, happens>>

(***************************************************************************)
(* Files.  A path that writes is its file's only one: the code asks for no *)
(* such thing, and what happens otherwise is not described here.           *)
(***************************************************************************)
Opened(h, n, fd, dirty, writes) ==
  handle' = [handle EXCEPT ![h] = [name |-> n, fd |-> fd, dirty |-> dirty, writes |-> writes]]

Opens(h, n, writes) ==
  /\ mount = "yes" /\ handle[h] = Shut /\ ~Writing(n) /\ (writes => Users(n) = {})

\* rbf_open of a file that is there: its descriptor is read once.
Lookup(h, n, writes) ==
  /\ Opens(h, n, writes) /\ entry[n] # 0
  /\ Opened(h, n, desc[n], FALSE, writes)
  /\ UNCHANGED <<medium, hint, mount, happens>>

\* Bug: the bits are cleared and the path goes on with the old segments.
TruncateShallow(h, n) ==
  /\ "truncate" \in happens /\ Opens(h, n, TRUE) /\ entry[n] # 0
  /\ bitmap' \in Cleared(bitmap, Range(desc[n].secs))
  /\ Opened(h, n, [desc[n] EXCEPT !.size = 0], TRUE, TRUE)
  /\ UNCHANGED <<entry, desc, ident, hint, mount, happens>>

\* And where CREATE was asked for: truncated, on the medium the bits only.
Truncate(h, n) ==
  /\ "truncate" \in happens /\ Opens(h, n, TRUE) /\ entry[n] # 0
  /\ bitmap' \in Cleared(bitmap, Range(desc[n].secs))
  /\ Opened(h, n, Empty, TRUE, TRUE)
  /\ UNCHANGED <<entry, desc, ident, hint, mount, happens>>

\* What a sector given to a descriptor may hold from before.
Stale == [secs : {<<>>} \cup {<<l>> : l \in Sectors}, size : {1}]

\* A file that is not: a bit, an entry and a descriptor, in this order; where
\* one fails the open does, and what was written stays.
Create(h, n) ==
  LET lsn == Alloc(bitmap, hint)
  IN /\ Opens(h, n, TRUE) /\ entry[n] = 0
     /\ Cardinality({m \in Names : entry[m] # 0}) < RootSlots /\ lsn # 0
     /\ bitmap' = bitmap \cup {lsn} /\ hint' = MapOf(lsn)
     /\ \/ /\ entry' = [entry EXCEPT ![n] = lsn] /\ desc' = [desc EXCEPT ![n] = Empty]
           /\ Opened(h, n, Empty, TRUE, TRUE)
        \/ "fail" \in happens /\ UNCHANGED <<entry, desc, handle>>   \* dir_write
        \/ /\ "tear" \in happens /\ entry' = [entry EXCEPT ![n] = lsn]   \* fd_write
           /\ \E fd \in Stale : desc' = [desc EXCEPT ![n] = fd]
           /\ UNCHANGED handle
     /\ UNCHANGED <<ident, mount, happens>>

GrownTo(fd, length) ==
  LET Grown[i \in 0..MaxLength] ==
        IF i = 0 THEN [used |-> bitmap, hint |-> hint, fd |-> fd, ok |-> TRUE, spare |-> {}]
        ELSE LET v == Grown[i - 1]
             IN IF v.ok /\ Len(v.fd.secs) < length THEN Grow(v) ELSE v
  IN Grown[MaxLength]

\* What a write at the sector k leaves, its file grown to a length and its data
\* put or not: what was grown stays with the file, and the size is where the
\* path has got to, also where a seek put it past the end and nothing came of it.
Written(h, k, length, put) ==
  LET fd == handle[h].fd
      v == GrownTo(fd, length)
      pos == IF put /\ Len(v.fd.secs) > k THEN k + 1 ELSE k
      size == IF pos > fd.size THEN pos ELSE fd.size
  IN /\ \E kept \in IF "fail" \in happens THEN SUBSET v.spare ELSE {{}} :
          bitmap' = v.used \cup kept
     /\ hint' = v.hint
     /\ handle' = [handle EXCEPT ![h].fd = [v.fd EXCEPT !.size = size],
                                 ![h].dirty = @ \/ v.fd # fd \/ size # fd.size]

\* rbf_write, wherever rbf_seek has put the path; a bit that cannot be written
\* ends the growth at any length, and a spare one may stay marked.
Extend(h, k) ==
  /\ mount = "yes" /\ handle[h].writes
  /\ "seek" \in happens \/ k <= handle[h].fd.size
  /\ \/ Written(h, k, k + 1, TRUE)
     \/ "fail" \in happens /\ \E length \in 0..(k + 1), put \in BOOLEAN : Written(h, k, length, put)
  /\ UNCHANGED <<entry, desc, ident, mount, happens>>

\* rbf_close, which drops the failure of fd_write.
CloseFile(h) ==
  /\ mount = "yes" /\ handle[h] # Shut
  /\ \/ desc' = IF handle[h].dirty THEN [desc EXCEPT ![handle[h].name] = handle[h].fd] ELSE desc
     \/ "fail" \in happens /\ handle[h].dirty /\ UNCHANGED desc
  /\ handle' = [handle EXCEPT ![h] = Shut]
  /\ UNCHANGED <<bitmap, entry, ident, hint, mount, happens>>

\* rbf_remove: the bits, those of a descriptor that cannot be read but for its
\* own, and then the entry.
Unlink(n) ==
  /\ mount = "yes" /\ entry[n] # 0 /\ Users(n) = {}
  /\ bitmap' \in Cleared(bitmap, {entry[n]} \cup Range(desc[n].secs))
  /\ \/ entry' = [entry EXCEPT ![n] = 0] /\ desc' = [desc EXCEPT ![n] = Empty]
     \/ "tear" \in happens /\ UNCHANGED <<entry, desc>>   \* dir_write
  /\ UNCHANGED <<ident, hint, mount, handle, happens>>

FileNext ==
  \/ Mount \/ Reformat \/ ZeroBitmap \/ ZeroRoot \/ WriteIdent \/ ReserveOne \/ Formatted
  \/ CutPower
  \/ \E h \in Handles : CloseFile(h) \/ \E k \in 0..(MaxLength - 1) : Extend(h, k)
  \/ \E h \in Handles, n \in Names :
       \/ \E writes \in BOOLEAN : Lookup(h, n, writes)
       \/ Truncate(h, n) \/ Create(h, n)
  \/ \E n \in Names : Unlink(n)

FileSpec == FileInit /\ [][FileNext]_fileVars

(***************************************************************************)
(* Properties.                                                             *)
(***************************************************************************)
\* Every variable keeps its type.
FileTypeOK ==
  /\ bitmap \subseteq Sectors \cup Meta /\ entry \in [Names -> Sectors] /\ ident \in BOOLEAN
  /\ \A n \in Names : desc[n] \in [secs : Seq(Sectors), size : Nat]
  /\ hint \in Nat /\ happens \in Worlds
  /\ mount \in {"no", "yes", "bitmap", "root", "ident", "reserve"}
  /\ \A h \in Handles :
       /\ handle[h].name \in Names \cup {NoName}
       /\ handle[h].fd \in [secs : Seq(Sectors), size : Nat]
       /\ handle[h].dirty \in BOOLEAN /\ handle[h].writes \in BOOLEAN

\* The descriptor of a file as it is now: its writer's copy, if it has one.
Current(n) ==
  IF Writing(n) THEN handle[CHOOSE h \in Users(n) : handle[h].writes].fd ELSE desc[n]

Occupied(n) == IF entry[n] = 0 THEN {} ELSE {entry[n]} \cup Range(Current(n).secs)

\* No sector is two things: part of two files, of one file twice, a
\* descriptor and data, or any of that and the volume's own; none in use is
\* marked free for the next allocation; a size past the last sector comes of a
\* seek only; and where no write fails and no power is cut none is lost: every
\* sector marked used is the volume's or some file's.  Not so once an entry
\* and its descriptor are torn apart: nothing in the code finds that again.
SectorsHaveOneUse ==
  /\ FileTypeOK
  /\ mount = "yes" /\ "tear" \notin happens =>
       /\ \A n \in Names, m \in Names : n # m => Occupied(n) \cap Occupied(m) = {}
       /\ \A n \in Names : entry[n] # 0 =>
            /\ Cardinality(Occupied(n)) = 1 + Len(Current(n).secs)
            /\ Occupied(n) \cap Meta = {} /\ Occupied(n) \subseteq bitmap
            /\ "seek" \notin happens => Current(n).size <= Len(Current(n).secs)
       /\ happens \cap {"fail", "cut", "half", "tear"} = {} =>
            bitmap = Meta \cup UNION {Occupied(n) : n \in Names}

\* "a half-formatted volume fails its magic check rather than looking
\* plausible": a mounted volume has its own sectors marked used.
MountedIsWhole == mount = "yes" => Meta \subseteq bitmap

=============================================================================
