-------------------------------- MODULE RvHeap --------------------------------
(***************************************************************************)
(* The kernel's allocator (components/rv9_kernel/src/heap.c): blocks in a  *)
(* list in address order, first fit, split on allocation, coalesced both   *)
(* ways when freed.  A block is named by the address of its header, which  *)
(* its payload follows.                                                    *)
(***************************************************************************)
EXTENDS Integers

CONSTANTS
  Base, Region, \* where the memory given to the heap begins, and its bytes
  Header,       \* sizeof(block_t)
  Align,        \* ALIGN
  MinPayload,   \* MIN_PAYLOAD
  Word,         \* a size_t is a number below this
  Requests,     \* what is asked for: [count, each] of an rv9k_calloc, one of an
                \* rv9k_alloc
  NoBlockAt     \* the null pointer

VARIABLES
  heap,   \* per block of the list [size, flags, prev, next]
  asked   \* what was asked for those that are in somebody's hands

heapVars == <<heap, asked>>

IN_USE == 1

AlignUp(n) == LET x == (n + Align - 1) % Word IN x - (x % Align)

HeapStart == AlignUp(Base)
HeapEnd == Base + Region

\* A request is not so near to the end of the numbers that rounding it up comes
\* round to nothing; rv9k_alloc does not look.
ASSUME HeapAssumption ==
  /\ Base \in Nat /\ Region \in Nat /\ Header \in Nat \ {0} /\ Align \in Nat \ {0}
  /\ MinPayload \in Nat /\ Word \in Nat \ {0} /\ NoBlockAt \notin Nat
  /\ Requests \subseteq [count : Nat \ {0}, each : Nat \ {0}]
  /\ Align + Header <= Region /\ Base + Region <= Word
  /\ \A r \in Requests : r.count * r.each < Word => r.count * r.each + Align <= Word

\* rv9k_heap_init, where the region holds a block.
HeapInit ==
  /\ heap = [b \in {HeapStart} |-> [size |-> HeapEnd - HeapStart - Header, flags |-> 0,
                                prev |-> NoBlockAt, next |-> NoBlockAt]]
  /\ asked = [b \in {} |-> 0]

(***************************************************************************)
(* Allocation.                                                             *)
(***************************************************************************)
Want(n) == IF AlignUp(n) < MinPayload THEN MinPayload ELSE AlignUp(n)

Fitting(want) == {b \in DOMAIN heap : heap[b].flags = 0 /\ heap[b].size >= want}

\* Bug: whoever comes after is not told that there is a new block before it.
SplitUnlinked(b, want) ==
  LET rest == b + Header + want
      old == heap[b]
  IN [x \in DOMAIN heap \cup {rest} |->
        IF x = b THEN [size |-> want, flags |-> IN_USE, prev |-> old.prev, next |-> rest]
        ELSE IF x = rest
        THEN [size |-> old.size - want - Header, flags |-> 0, prev |-> b, next |-> old.next]
        ELSE heap[x]]

\* What is left becomes a block of its own, between b and the one after.
Split(b, want) ==
  LET rest == b + Header + want
      old == heap[b]
  IN [x \in DOMAIN heap \cup {rest} |->
        IF x = b THEN [size |-> want, flags |-> IN_USE, prev |-> old.prev, next |-> rest]
        ELSE IF x = rest
        THEN [size |-> old.size - want - Header, flags |-> 0, prev |-> b, next |-> old.next]
        ELSE IF x = old.next THEN [heap[x] EXCEPT !.prev = rest]
        ELSE heap[x]]

Given(b, want) ==
  IF heap[b].size - want >= Header + MinPayload THEN Split(b, want)
  ELSE [heap EXCEPT ![b].flags = IN_USE]

\* The product has come round: the division does not give the other factor back.
Overflows(r) == LET total == (r.count * r.each) % Word IN total \div r.count # r.each

\* rv9k_alloc and rv9k_calloc, where they find room: in the first that fits.
Allocate(r) ==
  LET want == Want((r.count * r.each) % Word)
  IN /\ ~Overflows(r)
     /\ \E b \in Fitting(want) :
          /\ \A c \in Fitting(want) : b <= c
          /\ heap' = Given(b, want)
          /\ asked' = [x \in DOMAIN asked \cup {b} |-> IF x = b THEN r.count * r.each ELSE asked[x]]

(***************************************************************************)
(* Freeing.                                                                *)
(***************************************************************************)
\* merge_with_next.
Merged(h, b) ==
  LET n == h[b].next
  IN IF n = NoBlockAt THEN h
     ELSE IF h[n].flags = IN_USE THEN h
     ELSE [x \in DOMAIN h \ {n} |->
             IF x = b THEN [size |-> h[b].size + Header + h[n].size, flags |-> h[b].flags,
                         prev |-> h[b].prev, next |-> h[n].next]
             ELSE IF x = h[n].next THEN [h[x] EXCEPT !.prev = b]
             ELSE h[x]]

MergedBack(h, b) ==
  LET p == h[b].prev
  IN IF p = NoBlockAt THEN h ELSE IF h[p].flags = IN_USE THEN h ELSE Merged(h, p)

\* rv9k_free, of what the caller was given and still has.
FreeBlock(b) ==
  /\ b \in DOMAIN asked
  /\ heap' = MergedBack(Merged([heap EXCEPT ![b].flags = 0], b), b)
  /\ asked' = [x \in DOMAIN asked \ {b} |-> asked[x]]

HeapNext ==
  \/ \E r \in Requests : Allocate(r)
  \/ \E b \in DOMAIN asked : FreeBlock(b)

HeapSpec == HeapInit /\ [][HeapNext]_heapVars

(***************************************************************************)
(* Properties.                                                             *)
(***************************************************************************)
BlockRecords ==
  [size : Nat, flags : {0, IN_USE}, prev : Nat \cup {NoBlockAt}, next : Nat \cup {NoBlockAt}]

UsedIn(h) == {b \in DOMAIN h : h[b].flags = IN_USE}
After(h, b) == b + Header + h[b].size

\* Each block ends where the next begins, and the next names it back.
Tiled(h) ==
  /\ HeapStart \in DOMAIN h
  /\ \A b \in DOMAIN h :
       /\ b \in Nat /\ HeapStart <= b /\ After(h, b) <= HeapEnd
       /\ h[b] \in BlockRecords
       /\ IF h[b].next = NoBlockAt THEN After(h, b) = HeapEnd
          ELSE h[b].next = After(h, b) /\ h[b].next \in DOMAIN h /\ h[h[b].next].prev = b
       /\ IF h[b].prev = NoBlockAt THEN b = HeapStart
          ELSE h[b].prev \in DOMAIN h /\ h[h[b].prev].next = b

Apart(h) == \A b, c \in DOMAIN h : b < c => After(h, b) <= c

\* No two free blocks side by side, but for those the blocks in S begin.
CoalescedBut(h, S) ==
  \A b \in DOMAIN h \ S : h[b].flags = 0 /\ h[b].next # NoBlockAt => h[h[b].next].flags = IN_USE

\* Whoever asked has as much as was asked for, to itself, through every order of
\* allocations and frees; no byte of the region is lost between blocks, and no
\* two free blocks lie side by side ("what keeps a heap from fragmenting into
\* uselessness", heap.c:134-135).
HeapInv ==
  /\ Tiled(heap) /\ Apart(heap) /\ CoalescedBut(heap, {})
  /\ asked \in [UsedIn(heap) -> Nat]
  /\ \A b \in DOMAIN asked : asked[b] <= heap[b].size
=============================================================================
