-------------------------- MODULE RvServicesProofs --------------------------
(***************************************************************************)
(* Proofs about services that share no state with each other, as their     *)
(* runs do not: the heap (RvHeap), claims (RvClaims), releases (RvRelease) *)
(* network paths with their listeners (RvListen), the module directory     *)
(* (RvModules), block files (RvFile), the flash disk (RvFlash), the log    *)
(* ring (RvLog) and locks (RvLock).                                        *)
(***************************************************************************)
EXTENDS MCRvLock, RvHeap, RvClaims, RvRelease, RvListen, RvModules, RvFile, RvFlash, RvLog,
        RvLemmas, FiniteSetTheorems, SequenceTheorems, WellFoundedInduction, TLAPS

(***************************************************************************)
(* The heap: rounding up.                                                  *)
(***************************************************************************)
LEMMA Remainders ==
  ASSUME NEW n \in Nat, NEW m \in Nat \ {0}
  PROVE  /\ n % m \in Nat /\ n % m < m /\ n % m <= n
         /\ n < m => n % m = n
  OBVIOUS

\* A number that leaves room for the rounding is rounded up, by less than Align.
LEMMA Rounded ==
  ASSUME NEW n \in Nat, n + Align <= Word
  PROVE  AlignUp(n) \in Nat /\ n <= AlignUp(n) /\ AlignUp(n) < n + Align
  <1> USE HeapAssumption
  <1> DEFINE x == n + Align - 1
  <1>1. x \in Nat /\ x % Word = x
    BY Remainders
  <1>2. x % Align \in Nat /\ x % Align < Align /\ x % Align <= x
    BY <1>1, Remainders
  <1> QED
    BY <1>1, <1>2 DEF AlignUp

LEMMA RegionFits ==
  HeapStart \in Nat /\ HeapEnd \in Nat /\ Base <= HeapStart /\ HeapStart + Header < HeapEnd
  <1>1. Base \in Nat /\ Base + Align <= Word
    BY HeapAssumption
  <1>2. HeapStart \in Nat /\ Base <= HeapStart /\ HeapStart < Base + Align
    BY <1>1, Rounded DEF HeapStart
  <1> QED
    BY <1>2, HeapAssumption DEF HeapEnd

\* A product the division confirms is the product.
LEMMA NoOverflow ==
  ASSUME NEW c \in Nat \ {0}, NEW e \in Nat \ {0}, NEW t \in Nat,
         t <= c * e, t \div c = e
  PROVE  t = c * e
  <1>1. c * (t \div c) <= t
    OBVIOUS
  <1> QED
    BY <1>1

(***************************************************************************)
(* The heap: merging.                                                      *)
(***************************************************************************)
\* A block and the free one after it become one, and the list is as it was.
LEMMA MergeKeeps ==
  ASSUME NEW h, Tiled(h), Apart(h), NEW b \in DOMAIN h
  PROVE  LET m == Merged(h, b)
         IN /\ Tiled(m) /\ Apart(m) /\ UsedIn(m) = UsedIn(h)
            /\ b \in DOMAIN m /\ m[b].prev = h[b].prev
            /\ \A x \in DOMAIN m : x \in DOMAIN h /\ m[x].flags = h[x].flags /\ h[x].size <= m[x].size
  <1> DEFINE m == Merged(h, b)
             n == h[b].next
  <1> USE HeapAssumption, RegionFits DEF IN_USE
  <1>0. b \in Nat /\ h[b] \in BlockRecords /\ (n # NoBlockAt => h[n] \in BlockRecords)
    BY DEF Tiled
  <1>1. CASE n = NoBlockAt \/ h[n].flags = IN_USE
    <2>1. m = h
      BY <1>1 DEF Merged
    <2>2. \A x \in DOMAIN h : h[x].size <= h[x].size
      BY DEF Tiled, BlockRecords
    <2> HIDE DEF m
    <2> QED
      BY <2>1, <2>2 DEF m
  <1>2. CASE n # NoBlockAt /\ h[n].flags = 0
    <2>1. /\ b \in Nat /\ n \in Nat /\ n \in DOMAIN h /\ n = b + Header + h[b].size
          /\ h[n].prev = b /\ b < n /\ h[b].size \in Nat /\ h[n].size \in Nat
      BY <1>2 DEF Tiled, BlockRecords, After
    <2>2. m = [x \in DOMAIN h \ {n} |->
                 IF x = b THEN [size |-> h[b].size + Header + h[n].size, flags |-> h[b].flags,
                              prev |-> h[b].prev, next |-> h[n].next]
                 ELSE IF x = h[n].next THEN [h[x] EXCEPT !.prev = b]
                 ELSE h[x]]
      BY <1>2 DEF Merged
    <2> HIDE DEF m
    <2>3. /\ DOMAIN m = DOMAIN h \ {n} /\ b \in DOMAIN m
          /\ m[b] = [size |-> h[b].size + Header + h[n].size, flags |-> h[b].flags,
                   prev |-> h[b].prev, next |-> h[n].next]
      BY <2>1, <2>2
    <2>4. h[b] \in BlockRecords
      BY DEF Tiled, BlockRecords
    <2>5. /\ m[b].size = h[b].size + Header + h[n].size /\ m[b].next = h[n].next
          /\ m[b].flags = h[b].flags /\ m[b].prev = h[b].prev /\ After(m, b) = After(h, n)
          /\ m[b] \in BlockRecords
      BY <2>1, <2>3, <2>4 DEF Tiled, BlockRecords, After
    <2>6. ASSUME NEW x \in DOMAIN m, x # b
          PROVE  /\ x \in DOMAIN h /\ x # n
                 /\ m[x].size = h[x].size /\ m[x].flags = h[x].flags /\ m[x].next = h[x].next
                 /\ m[x].prev = (IF x = h[n].next THEN b ELSE h[x].prev)
                 /\ After(m, x) = After(h, x)
                 /\ m[x] \in BlockRecords
      BY <2>1, <2>2, <2>6 DEF Tiled, BlockRecords, After
    <2>7. Tiled(m)
      <3>1. HeapStart \in DOMAIN m
        BY <2>1, <2>3 DEF Tiled, BlockRecords
      <3>2. ASSUME NEW x \in DOMAIN m
            PROVE  /\ IF m[x].next = NoBlockAt THEN After(m, x) = HeapEnd
                      ELSE m[x].next = After(m, x) /\ m[x].next \in DOMAIN m /\ m[m[x].next].prev = x
                   /\ IF m[x].prev = NoBlockAt THEN x = HeapStart
                      ELSE m[x].prev \in DOMAIN m /\ m[m[x].prev].next = x
        <4>1. CASE x = b
          <5>1. m[b].next # NoBlockAt => /\ m[b].next = After(h, n) /\ m[b].next \in DOMAIN h
                                         /\ m[b].next # n /\ m[b].next # b
            BY <2>1, <2>5 DEF Tiled, BlockRecords, After
          <5>2. m[b].prev # NoBlockAt => /\ m[b].prev \in DOMAIN h /\ h[m[b].prev].next = b
                                         /\ m[b].prev # n /\ m[b].prev # b
            BY <2>1, <2>5 DEF Tiled, BlockRecords, After
          <5>3. m[b].next # NoBlockAt =>
                  m[b].next = After(m, b) /\ m[b].next \in DOMAIN m /\ m[m[b].next].prev = b
            BY <5>1, <2>3, <2>5, <2>6
          <5>4. m[b].next = NoBlockAt => After(m, b) = HeapEnd
            BY <2>1, <2>5 DEF Tiled
          <5>5. m[b].prev # NoBlockAt => m[b].prev \in DOMAIN m /\ m[m[b].prev].next = b
            BY <5>2, <2>3, <2>6
          <5>6. m[b].prev = NoBlockAt => b = HeapStart
            BY <2>5 DEF Tiled
          <5> QED
            BY <4>1, <5>3, <5>4, <5>5, <5>6
        <4>2. CASE x # b
          <5>1. /\ x \in DOMAIN h /\ x # n /\ x \in Nat
                /\ h[x].next # NoBlockAt => h[x].next \in DOMAIN h /\ h[h[x].next].prev = x
                /\ h[x].prev # NoBlockAt => h[x].prev \in DOMAIN h /\ h[h[x].prev].next = x
            BY <2>6, <4>2 DEF Tiled, BlockRecords
          <5>2. h[x].next # n
            BY <2>1, <4>2, <5>1, HeapAssumption
          <5>3. h[x].next # NoBlockAt => h[x].next # h[n].next
            BY <2>1, <5>1 DEF Tiled, BlockRecords
          <5>4. h[x].prev = n => x = h[n].next
            BY <2>1, <5>1
          <5>5. x = h[n].next => x \in Nat /\ b \in DOMAIN m
            BY <2>3, <5>1
          <5> QED
            BY <2>3, <2>5, <2>6, <4>2, <5>1, <5>2, <5>3, <5>4, <5>5 DEF Tiled, BlockRecords
        <4> QED
          BY <4>1, <4>2
      <3>3. ASSUME NEW x \in DOMAIN m
            PROVE  /\ x \in Nat /\ HeapStart <= x /\ After(m, x) <= HeapEnd
                   /\ m[x] \in BlockRecords
        BY <2>1, <2>5, <2>6, <2>3 DEF Tiled, BlockRecords
      <3> QED
        BY <3>1, <3>2, <3>3 DEF Tiled, BlockRecords
    <2>8. Apart(m)
      <3> SUFFICES ASSUME NEW x \in DOMAIN m, NEW y \in DOMAIN m, x < y
                   PROVE  After(m, x) <= y
        BY DEF Apart
      <3>1. x \in DOMAIN h /\ y \in DOMAIN h /\ x \in Nat /\ y \in Nat /\ y # n
        BY <2>3 DEF Tiled, BlockRecords
      <3>2. CASE x # b
        BY <2>6, <3>1, <3>2 DEF Apart
      <3>3. CASE x = b
        <4>1. n < y
          BY <2>1, <3>1, <3>3 DEF Apart, After
        <4> QED
          BY <2>1, <2>5, <3>1, <3>3, <4>1 DEF Apart
      <3> QED
        BY <3>2, <3>3
    <2>9. UsedIn(m) = UsedIn(h)
      BY <1>2, <2>3, <2>5, <2>6 DEF UsedIn
    <2>10. \A x \in DOMAIN m : x \in DOMAIN h /\ m[x].flags = h[x].flags /\ h[x].size <= m[x].size
      <3> SUFFICES ASSUME NEW x \in DOMAIN m
                   PROVE  x \in DOMAIN h /\ m[x].flags = h[x].flags /\ h[x].size <= m[x].size
        OBVIOUS
      <3>1. x \in DOMAIN h /\ h[x].size \in Nat
        BY <2>3 DEF Tiled, BlockRecords
      <3> QED
        BY <2>1, <2>5, <2>6, <3>1
    <2> QED
      BY <2>3, <2>5, <2>7, <2>8, <2>9, <2>10 DEF m
  <1> QED
    BY <1>0, <1>1, <1>2 DEF BlockRecords

\* It leaves no two free blocks side by side that were not there but for it.
LEMMA MergeCoalesces ==
  ASSUME NEW h, Tiled(h), Apart(h), NEW b \in DOMAIN h, NEW S,
         CoalescedBut(h, {b} \cup S), h[b].next = NoBlockAt \/ h[b].next \notin S
  PROVE  CoalescedBut(Merged(h, b), S)
  <1> DEFINE m == Merged(h, b)
             n == h[b].next
  <1> USE HeapAssumption, RegionFits DEF IN_USE
  <1>1. CASE n = NoBlockAt \/ h[n].flags = IN_USE
    <2>1. m = h
      BY <1>1 DEF Merged
    <2> HIDE DEF m
    <2> QED
      BY <1>1, <2>1 DEF CoalescedBut, m
  <1>2. CASE n # NoBlockAt /\ h[n].flags # IN_USE
    <2>1. /\ b \in Nat /\ n \in Nat /\ n \in DOMAIN h /\ h[n].prev = b /\ b < n
          /\ h[n].flags = 0
      BY <1>2 DEF Tiled, After, BlockRecords
    <2>2. /\ DOMAIN m = DOMAIN h \ {n} /\ m[b].next = h[n].next
          /\ \A x \in DOMAIN m : /\ m[x].flags = h[x].flags
                                 /\ x # b => m[x].next = h[x].next
      BY <1>2, <2>1 DEF Merged, Tiled, BlockRecords
    <2> HIDE DEF m
    <2>3. ASSUME NEW x \in DOMAIN m \ S, m[x].flags = 0, m[x].next # NoBlockAt
          PROVE  m[m[x].next].flags = IN_USE
      <3>1. CASE x = b
        <4>1. h[n].next \in DOMAIN h /\ h[n].next # n /\ h[h[n].next].flags = IN_USE
          BY <2>1, <2>2, <2>3, <3>1 DEF CoalescedBut, Tiled, After, BlockRecords
        <4> QED
          BY <2>2, <3>1, <4>1
      <3>2. CASE x # b
        <4>1. /\ h[x].next \in DOMAIN h /\ h[h[x].next].prev = x
              /\ h[h[x].next].flags = IN_USE
          BY <2>2, <2>3, <3>2 DEF CoalescedBut, Tiled
        <4>2. h[x].next # n
          BY <2>1, <3>2, <4>1
        <4> QED
          BY <2>2, <3>2, <4>1, <4>2
      <3> QED
        BY <3>1, <3>2
    <2> QED
      BY <2>3 DEF CoalescedBut, m
  <1> QED
    BY <1>1, <1>2

(***************************************************************************)
(* The heap: the steps.                                                    *)
(***************************************************************************)
LEMMA HeapStarts == HeapInit => HeapInv
  <1> SUFFICES ASSUME HeapInit PROVE HeapInv
    OBVIOUS
  <1> USE HeapAssumption, RegionFits DEF HeapInit, IN_USE
  <1>1. /\ DOMAIN heap = {HeapStart} /\ heap[HeapStart].flags = 0
        /\ heap[HeapStart] = [size |-> HeapEnd - HeapStart - Header, flags |-> 0,
                              prev |-> NoBlockAt, next |-> NoBlockAt]
    OBVIOUS
  <1>2. Tiled(heap) /\ Apart(heap) /\ CoalescedBut(heap, {})
    BY <1>1 DEF Tiled, Apart, CoalescedBut, After, BlockRecords
  <1>3. UsedIn(heap) = {} /\ DOMAIN asked = {} /\ asked \in [{} -> Nat]
    BY <1>1 DEF UsedIn
  <1> QED
    BY <1>2, <1>3 DEF HeapInv

\* Freeing: the block and what comes after it, then what comes before it and the
\* whole of that.
LEMMA FreeingKeeps ==
  ASSUME HeapInv, NEW b \in DOMAIN asked, FreeBlock(b)
  PROVE  HeapInv'
  <1> DEFINE h0 == [heap EXCEPT ![b].flags = 0]
             h1 == Merged(h0, b)
             h2 == MergedBack(h1, b)
             p == heap[b].prev
  <1> USE HeapAssumption, RegionFits DEF IN_USE
  <1>1. b \in DOMAIN heap /\ heap[b].flags = IN_USE /\ heap[b] \in BlockRecords /\ b \in Nat
    BY DEF HeapInv, UsedIn, Tiled
  <1>2. /\ DOMAIN h0 = DOMAIN heap
        /\ h0[b].flags = 0 /\ h0[b].size = heap[b].size /\ h0[b].prev = p
        /\ h0[b].next = heap[b].next /\ h0[b] \in BlockRecords
        /\ \A x \in DOMAIN heap : x # b => h0[x] = heap[x]
    BY <1>1 DEF BlockRecords
  <1> HIDE DEF h0
  <1>3. \A x \in DOMAIN h0 : /\ h0[x].size = heap[x].size /\ h0[x].prev = heap[x].prev
                             /\ h0[x].next = heap[x].next /\ h0[x] \in BlockRecords
                             /\ After(h0, x) = After(heap, x)
    BY <1>2 DEF HeapInv, Tiled, After
  <1>4. Tiled(h0) /\ Apart(h0)
    <2>1. Apart(h0)
      BY <1>2, <1>3 DEF HeapInv, Apart
    <2>2. Tiled(h0)
      BY <1>2, <1>3 DEF HeapInv, Tiled
    <2> QED
      BY <2>1, <2>2
  <1>5. UsedIn(h0) = UsedIn(heap) \ {b}
    BY <1>1, <1>2 DEF UsedIn
  <1>6. CoalescedBut(h0, {b} \cup {p})
    <2> SUFFICES ASSUME NEW x \in DOMAIN heap, x # b, x # p, h0[x].flags = 0,
                        h0[x].next # NoBlockAt
                 PROVE  h0[h0[x].next].flags = IN_USE
      BY <1>2 DEF CoalescedBut
    <2>1. /\ heap[x].next \in DOMAIN heap /\ heap[heap[x].next].prev = x
          /\ heap[heap[x].next].flags = IN_USE
      BY <1>2 DEF HeapInv, Tiled, CoalescedBut
    <2>2. heap[x].next # b
      BY <2>1
    <2> QED
      BY <1>2, <2>1, <2>2
  <1>7. h0[b].next = NoBlockAt \/ h0[b].next \notin {p}
    <2> SUFFICES ASSUME p # NoBlockAt, heap[b].next # NoBlockAt PROVE heap[b].next # p
      BY <1>2
    <2>1. /\ p \in DOMAIN heap /\ p \in Nat /\ heap[p].next = b /\ heap[p].size \in Nat
          /\ heap[b].next = b + Header + heap[b].size /\ heap[b].size \in Nat
      BY <1>1 DEF HeapInv, Tiled, After, BlockRecords
    <2>2. b = p + Header + heap[p].size
      BY <1>1, <2>1 DEF HeapInv, Tiled, After
    <2> QED
      BY <1>1, <2>1, <2>2
  <1>8. /\ Tiled(h1) /\ Apart(h1) /\ UsedIn(h1) = UsedIn(h0) /\ b \in DOMAIN h1 /\ h1[b].prev = p
        /\ \A x \in DOMAIN h1 : x \in DOMAIN h0 /\ h0[x].size <= h1[x].size
        /\ CoalescedBut(h1, {p})
    <2>1. b \in DOMAIN h0
      BY <1>1, <1>2
    <2>2. CoalescedBut(h1, {p})
      BY <1>4, <1>6, <1>7, <2>1, MergeCoalesces
    <2> QED
      BY <1>2, <1>4, <2>1, <2>2, MergeKeeps
  <1> HIDE DEF h1
  <1>9. /\ Tiled(h2) /\ Apart(h2) /\ UsedIn(h2) = UsedIn(h1) /\ CoalescedBut(h2, {})
        /\ \A x \in DOMAIN h2 : x \in DOMAIN h1 /\ h1[x].size <= h2[x].size
    <2>0. \A x \in DOMAIN h1 : x \in Nat /\ h1[x].size <= h1[x].size
      BY <1>8 DEF Tiled, BlockRecords
    <2>1. CASE p = NoBlockAt
      BY <1>8, <2>0, <2>1 DEF MergedBack, CoalescedBut
    <2>2. CASE p # NoBlockAt /\ h1[p].flags = IN_USE
      BY <1>8, <2>0, <2>2 DEF MergedBack, CoalescedBut
    <2>3. CASE p # NoBlockAt /\ h1[p].flags # IN_USE
      <3>1. h2 = Merged(h1, p) /\ p \in DOMAIN h1
        BY <1>8, <2>3 DEF MergedBack, Tiled
      <3>2. {p} \cup {} = {p}
        OBVIOUS
      <3>3. CoalescedBut(Merged(h1, p), {})
        BY <1>8, <3>1, <3>2, MergeCoalesces
      <3> QED
        BY <1>8, <3>1, <3>3, MergeKeeps
    <2> QED
      BY <2>1, <2>2, <2>3
  <1>10. heap' = h2 /\ asked' = [x \in DOMAIN asked \ {b} |-> asked[x]]
    BY DEF FreeBlock, h1, h0
  <1> HIDE DEF h2
  <1>11. DOMAIN asked \ {b} = UsedIn(h2) /\ asked' \in [UsedIn(h2) -> Nat]
    BY <1>5, <1>8, <1>9, <1>10 DEF HeapInv
  <1>12. \A x \in DOMAIN asked' : asked'[x] <= h2[x].size
    <2> SUFFICES ASSUME NEW x \in UsedIn(h2) PROVE asked[x] <= h2[x].size
      BY <1>10, <1>11
    <2>1. x \in DOMAIN h2 /\ x \in DOMAIN h1 /\ x \in DOMAIN heap /\ x \in DOMAIN asked
      BY <1>2, <1>8, <1>9, <1>11 DEF UsedIn
    <2>2. asked[x] \in Nat /\ asked[x] <= heap[x].size /\ heap[x].size \in Nat
          /\ h1[x].size \in Nat /\ h2[x].size \in Nat
      BY <1>8, <1>9, <2>1 DEF HeapInv, Tiled, BlockRecords
    <2> QED
      BY <1>2, <1>3, <1>8, <1>9, <2>1, <2>2
  <1> QED
    BY <1>9, <1>10, <1>11, <1>12 DEF HeapInv, Tiled, Apart, CoalescedBut, UsedIn, After

\* What is taken for a request is at least what was asked.
LEMMA WantEnough ==
  ASSUME NEW r \in Requests, ~Overflows(r)
  PROVE  LET n == r.count * r.each
         IN n \in Nat /\ n % Word = n /\ Want(n) \in Nat /\ n <= Want(n)
  <1> DEFINE n == r.count * r.each
             t == n % Word
  <1> USE HeapAssumption
  <1>1. r.count \in Nat \ {0} /\ r.each \in Nat \ {0} /\ n \in Nat
    OBVIOUS
  <1>2. t \in Nat /\ t <= n /\ t < Word
    BY <1>1, Remainders
  <1>3. t = n
    <2>1. t \div r.count = r.each
      BY DEF Overflows
    <2> HIDE DEF t
    <2> QED
      BY <1>1, <1>2, <2>1, NoOverflow
  <1>4. n + Align <= Word
    BY <1>2, <1>3
  <1>5. AlignUp(n) \in Nat /\ n <= AlignUp(n)
    BY <1>1, <1>4, Rounded
  <1> QED
    BY <1>1, <1>3, <1>5 DEF Want

\* Taking the whole of a block.
LEMMA TakingKeeps ==
  ASSUME HeapInv, NEW b \in DOMAIN heap, heap[b].flags = 0
  PROVE  LET h == [heap EXCEPT ![b].flags = IN_USE]
         IN /\ Tiled(h) /\ Apart(h) /\ CoalescedBut(h, {}) /\ UsedIn(h) = UsedIn(heap) \cup {b}
            /\ h[b].size = heap[b].size
            /\ \A x \in DOMAIN heap : x # b => h[x] = heap[x]
  <1> DEFINE h == [heap EXCEPT ![b].flags = IN_USE]
  <1> USE HeapAssumption, RegionFits DEF IN_USE
  <1>1. heap[b] \in BlockRecords
    BY DEF HeapInv, Tiled
  <1>2. /\ DOMAIN h = DOMAIN heap /\ h[b].flags = IN_USE /\ h[b] \in BlockRecords
        /\ h[b].size = heap[b].size /\ h[b].next = heap[b].next /\ h[b].prev = heap[b].prev
        /\ \A x \in DOMAIN heap : x # b => h[x] = heap[x]
    BY <1>1 DEF BlockRecords
  <1> HIDE DEF h
  <1>3. \A x \in DOMAIN heap : /\ h[x].size = heap[x].size /\ h[x].prev = heap[x].prev
                               /\ h[x].next = heap[x].next /\ h[x] \in BlockRecords
                               /\ After(h, x) = After(heap, x)
    BY <1>2 DEF HeapInv, Tiled, After
  <1>4. Tiled(h) /\ Apart(h)
    <2>1. Apart(h)
      BY <1>2, <1>3 DEF HeapInv, Apart
    <2>2. Tiled(h)
      BY <1>2, <1>3 DEF HeapInv, Tiled
    <2> QED
      BY <2>1, <2>2
  <1>5. CoalescedBut(h, {}) /\ UsedIn(h) = UsedIn(heap) \cup {b}
    BY <1>2, <1>3 DEF HeapInv, Tiled, CoalescedBut, UsedIn
  <1> QED
    BY <1>2, <1>4, <1>5 DEF h

\* Taking the first part of one, what is left becoming a block.
LEMMA SplittingKeeps ==
  ASSUME HeapInv, NEW b \in DOMAIN heap, heap[b].flags = 0, NEW want \in Nat,
         heap[b].size >= want + Header
  PROVE  LET h == Split(b, want)
         IN /\ Tiled(h) /\ Apart(h) /\ CoalescedBut(h, {}) /\ UsedIn(h) = UsedIn(heap) \cup {b}
            /\ h[b].size = want
            /\ \A x \in DOMAIN heap : x # b => h[x].size = heap[x].size
  <1> DEFINE h == Split(b, want)
             rest == b + Header + want
             n == heap[b].next
  <1> USE HeapAssumption, RegionFits DEF IN_USE
  <1>1. /\ b \in Nat /\ heap[b] \in BlockRecords /\ heap[b].size \in Nat /\ rest \in Nat
        /\ b < rest /\ rest + Header <= After(heap, b) /\ After(heap, b) <= HeapEnd
        /\ HeapStart <= b /\ After(heap, b) \in Nat
    BY DEF HeapInv, Tiled, BlockRecords, After
  <1>2. rest \notin DOMAIN heap
    BY <1>1 DEF HeapInv, Apart
  <1>3. n # NoBlockAt => /\ n \in DOMAIN heap /\ n = After(heap, b) /\ n \in Nat
                         /\ heap[n].prev = b /\ n # rest /\ n # b /\ heap[n].flags = IN_USE
    BY <1>1 DEF HeapInv, Tiled, CoalescedBut
  <1>4. /\ DOMAIN h = DOMAIN heap \cup {rest}
        /\ h[b] = [size |-> want, flags |-> IN_USE, prev |-> heap[b].prev, next |-> rest]
        /\ h[rest] = [size |-> heap[b].size - want - Header, flags |-> 0, prev |-> b, next |-> n]
        /\ n # NoBlockAt => h[n] = [heap[n] EXCEPT !.prev = rest]
        /\ \A x \in DOMAIN heap : x # b /\ x # n => h[x] = heap[x]
    BY <1>1, <1>2, <1>3 DEF Split
  <1> HIDE DEF h
  <1>5. /\ h[b].size = want /\ h[b].flags = IN_USE /\ h[b].prev = heap[b].prev /\ h[b].next = rest
        /\ h[b] \in BlockRecords /\ After(h, b) = rest
    BY <1>1, <1>4 DEF BlockRecords, After
  <1>6. /\ h[rest].flags = 0 /\ h[rest].prev = b /\ h[rest].next = n /\ h[rest] \in BlockRecords
        /\ After(h, rest) = After(heap, b)
    BY <1>1, <1>4 DEF BlockRecords, After
  <1>7. ASSUME NEW x \in DOMAIN heap, x # b
        PROVE  /\ h[x].size = heap[x].size /\ h[x].flags = heap[x].flags
               /\ h[x].next = heap[x].next /\ h[x] \in BlockRecords
               /\ h[x].prev = (IF x = n THEN rest ELSE heap[x].prev)
               /\ After(h, x) = After(heap, x) /\ x \in Nat
    <2>1. heap[x] \in BlockRecords /\ x \in Nat
      BY DEF HeapInv, Tiled
    <2>2. CASE x = n
      BY <1>1, <1>3, <1>4, <1>7, <2>1, <2>2 DEF BlockRecords, After
    <2>3. CASE x # n
      BY <1>4, <1>7, <2>1, <2>3 DEF After
    <2> QED
      BY <2>2, <2>3
  <1>8. Tiled(h)
    <2>1. HeapStart \in DOMAIN h
      BY <1>4 DEF HeapInv, Tiled
    <2>2. ASSUME NEW x \in DOMAIN h
          PROVE  /\ x \in Nat /\ HeapStart <= x /\ After(h, x) <= HeapEnd /\ h[x] \in BlockRecords
                 /\ IF h[x].next = NoBlockAt THEN After(h, x) = HeapEnd
                    ELSE h[x].next = After(h, x) /\ h[x].next \in DOMAIN h /\ h[h[x].next].prev = x
                 /\ IF h[x].prev = NoBlockAt THEN x = HeapStart
                    ELSE h[x].prev \in DOMAIN h /\ h[h[x].prev].next = x
      <3>1. CASE x = b
        <4>1. heap[b].prev # NoBlockAt =>
                /\ heap[b].prev \in DOMAIN heap /\ heap[b].prev # b /\ heap[heap[b].prev].next = b
          BY <1>1 DEF HeapInv, Tiled, After
        <4>2. heap[b].prev = NoBlockAt => b = HeapStart
          BY DEF HeapInv, Tiled
        <4> QED
          <5>1. /\ rest # NoBlockAt /\ rest \in DOMAIN h /\ After(h, b) <= HeapEnd
                /\ h[b].next = After(h, b) /\ h[h[b].next].prev = b
            BY <1>1, <1>4, <1>5, <1>6
          <5>2. h[b].prev # NoBlockAt => h[b].prev \in DOMAIN h /\ h[h[b].prev].next = b
            BY <1>4, <1>5, <1>7, <4>1
          <5> QED
            BY <1>1, <1>5, <3>1, <4>2, <5>1, <5>2
      <3>2. CASE x = rest
        <4>1. n = NoBlockAt => After(heap, b) = HeapEnd
          BY DEF HeapInv, Tiled
        <4> QED
          BY <1>1, <1>3, <1>4, <1>5, <1>6, <1>7, <3>2, <4>1
      <3>3. CASE x # b /\ x # rest
        <4>1. /\ x \in DOMAIN heap
              /\ HeapStart <= x /\ After(heap, x) <= HeapEnd
              /\ IF heap[x].next = NoBlockAt THEN After(heap, x) = HeapEnd
                 ELSE /\ heap[x].next = After(heap, x) /\ heap[x].next \in DOMAIN heap
                      /\ heap[heap[x].next].prev = x
              /\ IF heap[x].prev = NoBlockAt THEN x = HeapStart
                 ELSE heap[x].prev \in DOMAIN heap /\ heap[heap[x].prev].next = x
          BY <1>4, <3>3 DEF HeapInv, Tiled
        <4>2. heap[x].next # NoBlockAt => /\ heap[x].next # n \/ n = NoBlockAt
                                          /\ h[heap[x].next].prev = x
          <5> SUFFICES ASSUME heap[x].next # NoBlockAt
                       PROVE  heap[x].next # n /\ h[heap[x].next].prev = x
            OBVIOUS
          <5>1. heap[x].next # n
            BY <1>3, <3>3, <4>1
          <5>2. CASE heap[x].next = b
            <6>1. heap[b].prev = x
              BY <4>1, <5>2
            <6> QED
              BY <1>5, <5>1, <5>2, <6>1
          <5>3. CASE heap[x].next # b
            BY <1>7, <4>1, <5>1, <5>3
          <5> QED
            BY <5>1, <5>2, <5>3
        <4>3. CASE x = n
          BY <1>4, <1>6, <1>7, <3>3, <4>1, <4>2, <4>3, <1>1
        <4>4. CASE x # n
          <5>1. heap[x].prev # b
            BY <1>1, <3>3, <4>1, <4>4
          <5> QED
            BY <1>4, <1>7, <3>3, <4>1, <4>2, <4>4, <5>1
        <4> QED
          BY <4>3, <4>4
      <3> QED
        BY <3>1, <3>2, <3>3
    <2> QED
      BY <2>1, <2>2 DEF Tiled
  <1>9. Apart(h)
    <2> SUFFICES ASSUME NEW x \in DOMAIN h, NEW y \in DOMAIN h, x < y
                 PROVE  After(h, x) <= y
      BY DEF Apart
    <2>1. x \in Nat /\ y \in Nat
      BY <1>8 DEF Tiled
    <2>2. \A u, v \in DOMAIN heap : u < v => After(heap, u) <= v
      BY DEF HeapInv, Apart
    <2>3. CASE x = rest
      BY <1>1, <1>4, <1>6, <2>1, <2>2, <2>3
    <2>4. CASE x = b
      <3>1. CASE y = rest
        BY <1>1, <1>5, <2>4, <3>1
      <3>2. CASE y # rest
        BY <1>1, <1>4, <1>5, <2>1, <2>2, <2>4, <3>2
      <3> QED
        BY <3>1, <3>2
    <2>5. CASE x # rest /\ x # b
      <3>1. CASE y = rest
        <4>1. x < b
          BY <1>1, <1>4, <1>7, <2>1, <2>2, <2>5, <3>1
        <4>2. x \in DOMAIN heap /\ After(heap, x) \in Nat /\ After(heap, x) <= b
          BY <1>4, <2>2, <2>5, <4>1 DEF HeapInv, Tiled, BlockRecords, After
        <4> QED
          BY <1>1, <1>7, <2>5, <3>1, <4>2
      <3>2. CASE y # rest
        BY <1>4, <1>7, <2>2, <2>5, <3>2
      <3> QED
        BY <3>1, <3>2
    <2> QED
      BY <2>3, <2>4, <2>5
  <1>10. CoalescedBut(h, {})
    <2> SUFFICES ASSUME NEW x \in DOMAIN h, h[x].flags = 0, h[x].next # NoBlockAt
                 PROVE  h[h[x].next].flags = IN_USE
      BY DEF CoalescedBut
    <2>1. CASE x = rest
      BY <1>3, <1>6, <1>7, <2>1
    <2>2. CASE x # rest
      <3>1. x # b /\ x \in DOMAIN heap
        BY <1>4, <1>5, <2>2
      <3>2. heap[x].next \in DOMAIN heap /\ heap[heap[x].next].flags = IN_USE
        BY <1>7, <3>1 DEF HeapInv, Tiled, CoalescedBut
      <3> QED
        BY <1>5, <1>7, <3>1, <3>2
    <2> QED
      BY <2>1, <2>2
  <1>11. UsedIn(h) = UsedIn(heap) \cup {b}
    BY <1>2, <1>4, <1>5, <1>6, <1>7 DEF UsedIn
  <1> QED
    BY <1>5, <1>7, <1>8, <1>9, <1>10, <1>11 DEF h

LEMMA AllocatingKeeps ==
  ASSUME HeapInv, NEW r \in Requests, Allocate(r)
  PROVE  HeapInv'
  <1> DEFINE n == r.count * r.each
             want == Want(n)
  <1> USE HeapAssumption DEF IN_USE
  <1>1. n \in Nat /\ n % Word = n /\ want \in Nat /\ n <= want
    BY WantEnough DEF Allocate
  <1>2. PICK b \in Fitting(want) :
          /\ heap' = Given(b, want)
          /\ asked' = [x \in DOMAIN asked \cup {b} |-> IF x = b THEN n ELSE asked[x]]
    BY <1>1 DEF Allocate
  <1>3. b \in DOMAIN heap /\ heap[b].flags = 0 /\ heap[b].size >= want /\ heap[b].size \in Nat
    BY DEF Fitting, HeapInv, Tiled, BlockRecords
  <1> HIDE DEF want
  <1>4. /\ Tiled(heap') /\ Apart(heap') /\ CoalescedBut(heap', {})
        /\ UsedIn(heap') = UsedIn(heap) \cup {b} /\ want <= heap'[b].size
        /\ \A x \in DOMAIN heap : x # b => heap'[x].size = heap[x].size
    <2>1. CASE heap[b].size - want >= Header + MinPayload
      <3>1. heap' = Split(b, want) /\ heap[b].size >= want + Header
        BY <1>1, <1>2, <1>3, <2>1 DEF Given
      <3>2. want <= want
        BY <1>1
      <3> QED
        BY <1>1, <1>3, <3>1, <3>2, SplittingKeeps
    <2>2. CASE ~(heap[b].size - want >= Header + MinPayload)
      <3>1. heap' = [heap EXCEPT ![b].flags = IN_USE]
        BY <1>2, <2>2 DEF Given
      <3>2. want <= heap[b].size
        BY <1>1, <1>3
      <3> QED
        BY <1>3, <3>1, <3>2, TakingKeeps
    <2> QED
      BY <2>1, <2>2
  <1>5. b \notin DOMAIN asked /\ asked \in [UsedIn(heap) -> Nat]
    BY <1>3 DEF HeapInv, UsedIn
  <1>6. asked' \in [UsedIn(heap') -> Nat] /\ DOMAIN asked' = UsedIn(heap')
    BY <1>1, <1>2, <1>4, <1>5
  <1>7. ASSUME NEW x \in DOMAIN asked' PROVE asked'[x] <= heap'[x].size
    <2>1. CASE x = b
      <3>1. heap'[b].size \in Nat
        BY <1>4, <1>6, <1>7, <2>1 DEF UsedIn, Tiled, BlockRecords
      <3> QED
        BY <1>1, <1>2, <1>4, <1>7, <2>1, <3>1
    <2>2. CASE x # b
      <3>1. x \in DOMAIN asked /\ x \in DOMAIN heap /\ asked'[x] = asked[x]
        BY <1>2, <1>5, <1>7, <2>2 DEF UsedIn
      <3> QED
        BY <1>4, <2>2, <3>1 DEF HeapInv
    <2> QED
      BY <2>1, <2>2
  <1> QED
    BY <1>4, <1>6, <1>7 DEF HeapInv, Tiled, Apart, CoalescedBut, UsedIn, After

(***************************************************************************)
(* The heap's inductive invariant, for every region, header, alignment and *)
(* set of requests: the blocks tile the region, no two of them overlap, no *)
(* two free ones are neighbours, and every caller has what it asked for    *)
(* (heap.c, rv9k_alloc, rv9k_calloc and rv9k_free).                        *)
(***************************************************************************)
THEOREM HeapInvHolds == HeapSpec => []HeapInv
  <1>1. HeapInit => HeapInv
    BY HeapStarts
  <1>2. HeapInv /\ [HeapNext]_heapVars => HeapInv'
    <2> SUFFICES ASSUME HeapInv, [HeapNext]_heapVars PROVE HeapInv'
      OBVIOUS
    <2>1. ASSUME NEW r \in Requests, Allocate(r) PROVE HeapInv'
      BY <2>1, AllocatingKeeps
    <2>2. ASSUME NEW b \in DOMAIN asked, FreeBlock(b) PROVE HeapInv'
      BY <2>2, FreeingKeeps
    <2>3. CASE UNCHANGED heapVars
      BY <2>3 DEF heapVars, HeapInv, Tiled, Apart, CoalescedBut, UsedIn, After
    <2> QED
      BY <2>1, <2>2, <2>3 DEF HeapNext
  <1> QED
    BY <1>1, <1>2, PTL DEF HeapSpec

(***************************************************************************)
(* Claims.                                                                 *)
(***************************************************************************)
\* References are open paths and a reservation, and nothing is recorded of a
\* claim that has none.
Counts(d, o) ==
  /\ claim[d][o].refs = Cardinality(Paths(d, o)) + (IF claim[d][o].reserved THEN 1 ELSE 0)
  /\ claim[d][o].exclusive \/ claim[d][o].failsafe => claim[d][o].refs > 0
RefsCounted == \A d \in Devs, o \in Owners : Counts(d, o)

\* Who has a path, a reservation or a device to park, and when.
Runners == \A p \in Pids, x \in DOMAIN path : p \in path[x] => life[p] \in {"live", "snap", "close"}
Possesses(p, d) ==
  /\ claim[d][p].reserved => life[p] \notin {"none", "park", "ended"}
  /\ claim[d][p].failsafe => d \in plan[p].parks
  /\ life[p] \in {"admission", "admitted"} => Paths(d, p) = {}
Possessed ==
  /\ Runners /\ \A d \in Devs : ~claim[d][Nobody].reserved
  /\ \A p \in Pids, d \in Devs : Possesses(p, d)
  /\ plan \in [Pids -> Manifests \cup {NoPlan}]

ClaimsInv == ClaimsTypeOK /\ RefsCounted /\ Possessed /\ ExclusiveIsAlone

\* The claims a step leaves.
ClaimRecord == [refs : Nat, exclusive : BOOLEAN, reserved : BOOLEAN, failsafe : BOOLEAN]
ClaimTable == [Devs -> [Owners -> ClaimRecord]]

\* D is C but for o's claim to d.
Touches(C, D, d, o) ==
  /\ C \in ClaimTable /\ D \in ClaimTable
  /\ \A e \in Devs, q \in Owners : e # d \/ q # o => D[e][q] = C[e][q]

LEMMA PutIs ==
  ASSUME NEW C \in ClaimTable, NEW d \in Devs, NEW o \in Owners, NEW r \in ClaimRecord
  PROVE  /\ [C EXCEPT ![d][o] = r] \in ClaimTable
         /\ \A e \in Devs, q \in Owners :
              [C EXCEPT ![d][o] = r][e][q] = IF e = d /\ q = o THEN r ELSE C[e][q]
BY DEF ClaimTable

LEMMA TakenIs ==
  ASSUME NEW C \in ClaimTable, NEW d \in Devs, NEW o \in Owners, NEW exclusive \in BOOLEAN
  PROVE  LET D == Taken(C, d, o, exclusive)
         IN  /\ Touches(C, D, d, o)
             /\ D[d][o].refs = C[d][o].refs + 1
             /\ D[d][o].exclusive <=> (C[d][o].exclusive \/ exclusive)
             /\ D[d][o].reserved <=> C[d][o].reserved
             /\ D[d][o].failsafe <=> C[d][o].failsafe
<1> DEFINE s == [C[d][o] EXCEPT !.refs = @ + 1, !.exclusive = @ \/ exclusive]
<1>1. C[d][o] \in ClaimRecord /\ C[d] \in [Owners -> ClaimRecord] BY DEF ClaimTable
<1>2. s \in ClaimRecord
  <2>1. PICK c \in ClaimRecord : c = C[d][o] BY <1>1
  <2>2. (c.exclusive \/ exclusive) \in BOOLEAN OBVIOUS
  <2>3. PICK n \in Nat : n = c.refs + 1 BY DEF ClaimRecord
  <2>4. [c EXCEPT !.refs = n, !.exclusive = @ \/ exclusive] \in ClaimRecord
    BY ZenonT(20), <2>2 DEF ClaimRecord
  <2> QED BY <2>1, <2>3, <2>4
<1>3. Taken(C, d, o, exclusive) = [C EXCEPT ![d][o] = s] BY <1>1 DEF Taken, ClaimTable
<1>5. /\ s.refs = C[d][o].refs + 1
      /\ s.exclusive <=> (C[d][o].exclusive \/ exclusive)
      /\ s.reserved <=> C[d][o].reserved
      /\ s.failsafe <=> C[d][o].failsafe
  BY <1>1 DEF ClaimRecord
<1> HIDE DEF s
<1>4. /\ [C EXCEPT ![d][o] = s] \in ClaimTable
      /\ \A e \in Devs, q \in Owners :
           [C EXCEPT ![d][o] = s][e][q] = IF e = d /\ q = o THEN s ELSE C[e][q]
  BY <1>2, PutIs
<1> QED BY <1>3, <1>4, <1>5 DEF Touches

LEMMA DroppedIs ==
  ASSUME NEW C \in ClaimTable, NEW d \in Devs, NEW o \in Owners
  PROVE  LET D == Dropped(C, d, o)
         IN  /\ Touches(C, D, d, o)
             /\ IF C[d][o].refs > 1
                THEN /\ D[d][o].refs = C[d][o].refs - 1
                     /\ D[d][o].exclusive <=> C[d][o].exclusive
                     /\ D[d][o].reserved <=> C[d][o].reserved
                     /\ D[d][o].failsafe <=> C[d][o].failsafe
                ELSE D[d][o] = NoClaim
<1> DEFINE s == IF C[d][o].refs > 1 THEN [C[d][o] EXCEPT !.refs = @ - 1] ELSE NoClaim
<1>1. C[d][o] \in ClaimRecord /\ C[d] \in [Owners -> ClaimRecord] BY DEF ClaimTable
<1>2. s \in ClaimRecord
  <2>1. PICK c \in ClaimRecord : c = C[d][o] BY <1>1
  <2>2. NoClaim \in ClaimRecord BY DEF NoClaim, ClaimRecord
  <2>3. ASSUME NEW n \in Nat PROVE [c EXCEPT !.refs = n] \in ClaimRecord
    BY ZenonT(20) DEF ClaimRecord
  <2>4. c.refs > 1 => c.refs - 1 \in Nat BY DEF ClaimRecord
  <2> QED BY <2>1, <2>2, <2>3, <2>4
<1>3. Dropped(C, d, o) = [C EXCEPT ![d][o] = s]
  BY Zenon DEF Dropped
<1>5. IF C[d][o].refs > 1
      THEN /\ s.refs = C[d][o].refs - 1
           /\ s.exclusive <=> C[d][o].exclusive
           /\ s.reserved <=> C[d][o].reserved
           /\ s.failsafe <=> C[d][o].failsafe
      ELSE s = NoClaim
  BY <1>1 DEF ClaimRecord
<1> HIDE DEF s
<1>4. /\ [C EXCEPT ![d][o] = s] \in ClaimTable
      /\ \A e \in Devs, q \in Owners :
           [C EXCEPT ![d][o] = s][e][q] = IF e = d /\ q = o THEN s ELSE C[e][q]
  BY <1>2, PutIs
<1> QED BY <1>3, <1>4, <1>5 DEF Touches

LEMMA ReservedIs ==
  ASSUME NEW C \in ClaimTable, NEW d \in Devs, NEW o \in Owners
  PROVE  LET D == Reserved(C, d, o)
         IN  /\ Touches(C, D, d, o)
             /\ D[d][o].refs = C[d][o].refs + (IF C[d][o].reserved THEN 0 ELSE 1)
             /\ D[d][o].exclusive /\ D[d][o].reserved
             /\ D[d][o].failsafe <=> C[d][o].failsafe
<1> DEFINE s == IF C[d][o].reserved THEN [C[d][o] EXCEPT !.exclusive = TRUE]
                ELSE [C[d][o] EXCEPT !.refs = @ + 1, !.exclusive = TRUE, !.reserved = TRUE]
<1>1. C[d][o] \in ClaimRecord /\ C[d] \in [Owners -> ClaimRecord] BY DEF ClaimTable
<1>2. s \in ClaimRecord
  <2>1. PICK c \in ClaimRecord : c = C[d][o] BY <1>1
  <2>2. [c EXCEPT !.exclusive = TRUE] \in ClaimRecord BY ZenonT(20) DEF ClaimRecord
  <2>3. PICK n \in Nat : n = c.refs + 1 BY DEF ClaimRecord
  <2>4. [c EXCEPT !.refs = n, !.exclusive = TRUE, !.reserved = TRUE] \in ClaimRecord
    BY ZenonT(20) DEF ClaimRecord
  <2> QED BY <2>1, <2>2, <2>3, <2>4
<1>3. Reserved(C, d, o) = [C EXCEPT ![d][o] = s]
  <2>1. CASE C[d][o].reserved BY <1>1, <2>1 DEF Reserved, ClaimTable
  <2>2. CASE ~C[d][o].reserved
    <3> DEFINE e == [C[d][o] EXCEPT !.refs = @ + 1, !.exclusive = @ \/ TRUE]
    <3>1. Taken(C, d, o, TRUE) = [C EXCEPT ![d][o] = e] BY <1>1 DEF Taken, ClaimTable
    <3>2. [[C EXCEPT ![d][o] = e] EXCEPT ![d][o].reserved = TRUE] =
            [C EXCEPT ![d][o] = [e EXCEPT !.reserved = TRUE]]
      <4> HIDE DEF e
      <4> QED BY <1>1 DEF ClaimTable
    <3>3. [e EXCEPT !.reserved = TRUE] = s BY <1>1, <2>2 DEF ClaimRecord
    <3> QED BY <2>2, <3>1, <3>2, <3>3 DEF Reserved
  <2> QED BY <2>1, <2>2
<1>5. /\ s.refs = C[d][o].refs + (IF C[d][o].reserved THEN 0 ELSE 1)
      /\ s.exclusive /\ s.reserved
      /\ s.failsafe <=> C[d][o].failsafe
  BY <1>1 DEF ClaimRecord
<1> HIDE DEF s
<1>4. /\ [C EXCEPT ![d][o] = s] \in ClaimTable
      /\ \A e \in Devs, q \in Owners :
           [C EXCEPT ![d][o] = s][e][q] = IF e = d /\ q = o THEN s ELSE C[e][q]
  BY <1>2, PutIs
<1> QED BY <1>3, <1>4, <1>5 DEF Touches

LEMMA ReleasedIs ==
  ASSUME NEW C \in ClaimTable, NEW o \in Owners
  PROVE  LET D == Released(C, o)
         IN  /\ D \in ClaimTable
             /\ \A e \in Devs, q \in Owners :
                  \/ D[e][q] = C[e][q] /\ (q = o => ~C[e][q].reserved)
                  \/ /\ q = o /\ C[e][q].reserved /\ C[e][q].refs > 1
                     /\ D[e][q].refs = C[e][q].refs - 1 /\ ~D[e][q].reserved
                     /\ D[e][q].exclusive <=> C[e][q].exclusive
                     /\ D[e][q].failsafe <=> C[e][q].failsafe
                  \/ q = o /\ C[e][q].reserved /\ ~(C[e][q].refs > 1) /\ D[e][q] = NoClaim
<1>1. ASSUME NEW e \in Devs
      PROVE  LET D == Released(C, o)[e]
             IN  /\ D \in [Owners -> ClaimRecord]
                 /\ \A q \in Owners :
                      \/ D[q] = C[e][q] /\ (q = o => ~C[e][q].reserved)
                      \/ /\ q = o /\ C[e][q].reserved /\ C[e][q].refs > 1
                         /\ D[q].refs = C[e][q].refs - 1 /\ ~D[q].reserved
                         /\ D[q].exclusive <=> C[e][q].exclusive
                         /\ D[q].failsafe <=> C[e][q].failsafe
                      \/ q = o /\ C[e][q].reserved /\ ~(C[e][q].refs > 1) /\ D[q] = NoClaim
  <2>1. CASE ~C[e][o].reserved BY <2>1 DEF Released, ClaimTable
  <2>2. CASE C[e][o].reserved
    <3> DEFINE s == [C[e][o] EXCEPT !.reserved = FALSE]
    <3>1. C[e][o] \in ClaimRecord BY DEF ClaimTable
    <3>2. s \in ClaimRecord
      <4>1. PICK c \in ClaimRecord : c = C[e][o] BY <3>1
      <4> QED BY ZenonT(20), <4>1 DEF ClaimRecord
    <3>3. PICK D : D = [C EXCEPT ![e][o] = s] OBVIOUS
    <3>4. Released(C, o)[e] = Dropped(D, e, o)[e]
      <4>1. D = [C EXCEPT ![e][o].reserved = FALSE] BY <3>3 DEF ClaimTable
      <4> QED BY <2>2, <4>1 DEF Released
    <3>5. /\ s.refs = C[e][o].refs /\ ~s.reserved
          /\ s.exclusive <=> C[e][o].exclusive
          /\ s.failsafe <=> C[e][o].failsafe
      BY <3>1 DEF ClaimRecord
    <3> HIDE DEF s
    <3>6. D \in ClaimTable /\ \A q \in Owners : D[e][q] = IF q = o THEN s ELSE C[e][q]
      <4>1. /\ [C EXCEPT ![e][o] = s] \in ClaimTable
            /\ \A i \in Devs, q \in Owners :
                 [C EXCEPT ![e][o] = s][i][q] = IF i = e /\ q = o THEN s ELSE C[i][q]
        BY <3>2, PutIs
      <4> QED BY <3>3, <4>1
    <3>7. D[e][o] = s BY <3>6
    <3>8. Touches(D, Dropped(D, e, o), e, o)
          /\ IF D[e][o].refs > 1
             THEN /\ Dropped(D, e, o)[e][o].refs = D[e][o].refs - 1
                  /\ Dropped(D, e, o)[e][o].exclusive <=> D[e][o].exclusive
                  /\ Dropped(D, e, o)[e][o].reserved <=> D[e][o].reserved
                  /\ Dropped(D, e, o)[e][o].failsafe <=> D[e][o].failsafe
             ELSE Dropped(D, e, o)[e][o] = NoClaim
      BY <3>6, DroppedIs
    <3>9. Dropped(D, e, o)[e] \in [Owners -> ClaimRecord] BY <3>8 DEF Touches, ClaimTable
    <3>10. \A q \in Owners : q # o => Dropped(D, e, o)[e][q] = C[e][q]
      BY <3>6, <3>8 DEF Touches
    <3> QED BY <2>2, <3>4, <3>5, <3>7, <3>8, <3>9, <3>10
  <2> QED BY <2>1, <2>2
<1>2. Released(C, o) = [e \in Devs |-> Released(C, o)[e]] BY DEF Released
<1>3. PICK R : R = Released(C, o) OBVIOUS
<1>4. R \in [Devs -> [Owners -> ClaimRecord]] BY <1>1, <1>2, <1>3
<1> QED BY <1>1, <1>3, <1>4 DEF ClaimTable

LEMMA PromisedIs ==
  ASSUME NEW C \in ClaimTable, NEW p \in Owners, NEW devs \in SUBSET Devs
  PROVE  LET D == Promised(C, p, devs)
         IN  /\ D \in ClaimTable
             /\ \A e \in Devs, q \in Owners :
                  IF e \in devs /\ q = p
                  THEN /\ D[e][q].refs = C[e][q].refs /\ D[e][q].failsafe
                       /\ D[e][q].exclusive <=> C[e][q].exclusive
                       /\ D[e][q].reserved <=> C[e][q].reserved
                  ELSE D[e][q] = C[e][q]
<1>1. ASSUME NEW e \in Devs
      PROVE  LET D == Promised(C, p, devs)[e]
             IN  /\ D \in [Owners -> ClaimRecord]
                 /\ \A q \in Owners :
                      IF e \in devs /\ q = p
                      THEN /\ D[q].refs = C[e][q].refs /\ D[q].failsafe
                           /\ D[q].exclusive <=> C[e][q].exclusive
                           /\ D[q].reserved <=> C[e][q].reserved
                      ELSE D[q] = C[e][q]
  <2> DEFINE s == [C[e][p] EXCEPT !.failsafe = TRUE]
  <2>1. C[e][p] \in ClaimRecord /\ C[e] \in [Owners -> ClaimRecord] BY DEF ClaimTable
  <2>2. s \in ClaimRecord
    <3>1. PICK c \in ClaimRecord : c = C[e][p] BY <2>1
    <3> QED BY ZenonT(20), <3>1 DEF ClaimRecord
  <2>3. Promised(C, p, devs)[e] = IF e \in devs THEN [C[e] EXCEPT ![p] = s] ELSE C[e]
    BY DEF Promised
  <2>4. /\ s.refs = C[e][p].refs /\ s.failsafe
        /\ s.exclusive <=> C[e][p].exclusive
        /\ s.reserved <=> C[e][p].reserved
    BY <2>1 DEF ClaimRecord
  <2> HIDE DEF s
  <2>5. /\ [C[e] EXCEPT ![p] = s] \in [Owners -> ClaimRecord]
        /\ \A q \in Owners : [C[e] EXCEPT ![p] = s][q] = IF q = p THEN s ELSE C[e][q]
    BY <2>1, <2>2
  <2> QED BY <2>1, <2>3, <2>4, <2>5
<1>2. Promised(C, p, devs) = [e \in Devs |-> Promised(C, p, devs)[e]] BY DEF Promised
<1>3. PICK R : R = Promised(C, p, devs) OBVIOUS
<1>4. R \in [Devs -> [Owners -> ClaimRecord]] BY <1>1, <1>2, <1>3
<1> QED BY <1>1, <1>3, <1>4 DEF ClaimTable

\* The copies of o's path to d that only p still has.
LastOf(p, xs, d, o) == {k \in Copies : <<d, o, k>> \in xs /\ path[<<d, o, k>>] = {p}}

LEMMA LastOfFinite ==
  ASSUME NEW p, NEW xs, NEW d, NEW o
  PROVE  IsFiniteSet(LastOf(p, xs, d, o)) /\ Cardinality(LastOf(p, xs, d, o)) \in Nat
<1>1. LastOf(p, xs, d, o) \in SUBSET Copies BY DEF LastOf
<1> QED BY <1>1, ClaimsAssumption, FS_Subset, FS_CardinalityType

LEMMA LastAreCopies ==
  ASSUME ClaimsTypeOK, NEW p \in Pids, NEW xs \in SUBSET DOMAIN path, NEW d \in Devs, NEW o \in Owners
  PROVE  Cardinality({x \in {y \in xs : path[y] = {p}} : x[1] = d /\ x[2] = o}) =
           Cardinality(LastOf(p, xs, d, o))
<1> DEFINE S == LastOf(p, xs, d, o)
           T == {x \in {y \in xs : path[y] = {p}} : x[1] = d /\ x[2] = o}
<1>1. PICK f : f = [k \in S |-> <<d, o, k>>] OBVIOUS
<1>2. \A x \in T : x[3] \in S /\ x = <<d, o, x[3]>>
  <2> TAKE x \in T
  <2>1. x \in Devs \X Pids \X Copies /\ x[1] = d /\ x[2] = o /\ path[x] = {p} /\ x \in xs
    BY DEF ClaimsTypeOK
  <2> QED BY <2>1 DEF LastOf
<1>3. \A k \in S : <<d, o, k>> \in T BY DEF LastOf
<1> HIDE DEF S, T
<1>4. f \in [S -> T] BY <1>1, <1>3
<1>5. \A i, j \in S : f[i] = f[j] => i = j BY <1>1
<1>6. \A x \in T : \E k \in S : f[k] = x BY <1>1, <1>2
<1>7. f \in Bijection(S, T) BY <1>4, <1>5, <1>6 DEF Bijection, Injection, Surjection, IsInjective
<1>8. ExistsBijection(S, T) BY <1>7 DEF ExistsBijection
<1>9. IsFiniteSet(S) BY LastOfFinite DEF S
<1>10. Cardinality(T) = Cardinality(S) BY <1>8, <1>9, FS_Bijection
<1> QED BY <1>10 DEF S, T

LEMMA ClosedIs ==
  ASSUME ClaimsTypeOK, NEW p \in Pids, NEW xs \in SUBSET DOMAIN path
  PROVE  LET D == Closed(p, xs)
             n(d, o) == Cardinality(LastOf(p, xs, d, o))
         IN  /\ D \in ClaimTable
             /\ \A d \in Devs, o \in Owners :
                  \/ D[d][o] = claim[d][o] /\ n(d, o) = 0
                  \/ /\ claim[d][o].refs > n(d, o) /\ D[d][o].refs = claim[d][o].refs - n(d, o)
                     /\ D[d][o].exclusive <=> claim[d][o].exclusive
                     /\ D[d][o].reserved <=> claim[d][o].reserved
                     /\ D[d][o].failsafe <=> claim[d][o].failsafe
                  \/ claim[d][o].refs <= n(d, o) /\ n(d, o) # 0 /\ D[d][o] = NoClaim
<1>1. ASSUME NEW d \in Devs, NEW o \in Owners
      PROVE  LET D == Closed(p, xs)[d][o]
                 n == Cardinality(LastOf(p, xs, d, o))
             IN  /\ D \in ClaimRecord
                 /\ \/ D = claim[d][o] /\ n = 0
                    \/ /\ claim[d][o].refs > n /\ D.refs = claim[d][o].refs - n
                       /\ D.exclusive <=> claim[d][o].exclusive
                       /\ D.reserved <=> claim[d][o].reserved
                       /\ D.failsafe <=> claim[d][o].failsafe
                    \/ claim[d][o].refs <= n /\ n # 0 /\ D = NoClaim
  <2>1. Cardinality({x \in {y \in xs : path[y] = {p}} : x[1] = d /\ x[2] = o}) =
          Cardinality(LastOf(p, xs, d, o))
    BY LastAreCopies
  <2>2. PICK n \in Nat : n = Cardinality(LastOf(p, xs, d, o)) BY LastOfFinite
  <2>4. PICK c \in ClaimRecord : c = claim[d][o] BY DEF ClaimsTypeOK, ClaimRecord
  <2> DEFINE s == [c EXCEPT !.refs = @ - n]
  <2>3. Closed(p, xs)[d][o] = IF n = 0 THEN c ELSE IF c.refs > n THEN s ELSE NoClaim
    BY <2>1, <2>2, <2>4 DEF Closed
  <2>5. NoClaim \in ClaimRecord BY DEF NoClaim, ClaimRecord
  <2>6. ASSUME NEW i \in Nat PROVE [c EXCEPT !.refs = i] \in ClaimRecord
    BY ZenonT(20) DEF ClaimRecord
  <2>7. c.refs > n => s \in ClaimRecord
    <3>1. c.refs > n => c.refs - n \in Nat BY DEF ClaimRecord
    <3> QED BY <2>6, <3>1
  <2>8. /\ s.refs = c.refs - n
        /\ s.exclusive <=> c.exclusive
        /\ s.reserved <=> c.reserved
        /\ s.failsafe <=> c.failsafe
    BY DEF ClaimRecord
  <2>9. c.refs \in Nat BY DEF ClaimRecord
  <2> HIDE DEF s
  <2> QED BY <2>2, <2>3, <2>4, <2>5, <2>7, <2>8, <2>9
<1>2. Closed(p, xs) = [d \in Devs |-> [o \in Owners |-> Closed(p, xs)[d][o]]] BY DEF Closed
<1>3. PICK R : R = Closed(p, xs) OBVIOUS
<1>4. R = [d \in Devs |-> [o \in Owners |-> R[d][o]]] BY <1>2, <1>3
<1>5. R \in ClaimTable BY <1>1, <1>3, <1>4 DEF ClaimTable
<1> QED BY <1>1, <1>3, <1>5

-----------------------------------------------------------------------------
LEMMA PathsCount ==
  ASSUME NEW d, NEW o
  PROVE  /\ IsFiniteSet(Paths(d, o)) /\ Cardinality(Paths(d, o)) \in Nat
         /\ Cardinality(Paths(d, o)) = 0 <=> Paths(d, o) = {}
<1>1. Paths(d, o) \in SUBSET Pids \/ Paths(d, o) \in SUBSET Copies BY DEF Paths
<1>2. IsFiniteSet(Paths(d, o)) BY <1>1, ClaimsAssumption, FS_Subset
<1> QED BY <1>2, CountOne

LEMMA ClaimTyped ==
  ASSUME ClaimsTypeOK
  PROVE  /\ claim \in ClaimTable
         /\ \A d \in Devs, o \in Owners :
              /\ claim[d][o] \in ClaimRecord /\ claim[d][o].refs \in Nat
              /\ claim[d][o].reserved \in BOOLEAN /\ claim[d][o].exclusive \in BOOLEAN
              /\ claim[d][o].failsafe \in BOOLEAN
<1>1. claim \in ClaimTable BY DEF ClaimsTypeOK, ClaimTable, ClaimRecord
<1>2. ASSUME NEW d \in Devs, NEW o \in Owners
      PROVE  /\ claim[d][o] \in ClaimRecord /\ claim[d][o].refs \in Nat
             /\ claim[d][o].reserved \in BOOLEAN /\ claim[d][o].exclusive \in BOOLEAN
             /\ claim[d][o].failsafe \in BOOLEAN
  <2>1. claim[d][o] \in ClaimRecord BY <1>1 DEF ClaimTable
  <2>2. \A c \in ClaimRecord : c.refs \in Nat /\ c.reserved \in BOOLEAN /\ c.exclusive \in BOOLEAN
                               /\ c.failsafe \in BOOLEAN
    BY DEF ClaimRecord
  <2> QED BY <2>1, <2>2
<1> QED BY <1>1, <1>2

\* What no reference is held of is nobody's.
LEMMA Unreferenced ==
  ASSUME ClaimsTypeOK, NEW d \in Devs, NEW o \in Owners, Counts(d, o), claim[d][o].refs = 0
  PROVE  /\ ~claim[d][o].reserved /\ ~claim[d][o].exclusive /\ ~claim[d][o].failsafe
         /\ Paths(d, o) = {}
BY PathsCount, ClaimTyped DEF Counts

LEMMA NoClaimIs ==
  /\ NoClaim.refs = 0 /\ ~NoClaim.exclusive /\ ~NoClaim.reserved /\ ~NoClaim.failsafe
BY DEF NoClaim

LEMMA SameClaims ==
  ASSUME RefsCounted, ExclusiveIsAlone, UNCHANGED <<claim, path, hand>>
  PROVE  RefsCounted' /\ ExclusiveIsAlone' /\ \A d, o : Paths(d, o)' = Paths(d, o)
<1>1. \A d, o : Paths(d, o)' = Paths(d, o) BY DEF Paths
<1>2. RefsCounted' BY <1>1 DEF RefsCounted, Counts
<1>3. ExclusiveIsAlone' BY DEF ExclusiveIsAlone
<1> QED BY <1>1, <1>2, <1>3

\* Whoever gives back disturbs nobody who is alone.
LEMMA AloneKept ==
  ASSUME ClaimsTypeOK, ClaimsTypeOK', ExclusiveIsAlone,
         \A d \in Devs, o \in Owners :
           /\ claim'[d][o].refs <= claim[d][o].refs
           /\ claim'[d][o].exclusive => claim[d][o].exclusive
  PROVE  ExclusiveIsAlone'
<1> SUFFICES ASSUME NEW d \in Devs, NEW o \in Owners, claim'[d][o].exclusive,
                    NEW other \in Owners \ {o}
             PROVE  claim'[d][other].refs = 0
  BY DEF ExclusiveIsAlone
<1>1. claim[d][other].refs = 0 BY DEF ExclusiveIsAlone
<1>2. claim'[d][other].refs \in Nat BY DEF ClaimsTypeOK
<1> QED BY <1>1, <1>2

\* Whoever takes what nobody is in the way of is alone if asked to be.
LEMMA AloneTaken ==
  ASSUME ClaimsTypeOK, RefsCounted, ExclusiveIsAlone, NEW d \in Devs, NEW o \in Owners,
         NEW exclusive \in BOOLEAN, ~Blocked(claim, d, o, exclusive),
         Touches(claim, claim', d, o),
         claim'[d][o].exclusive => claim[d][o].exclusive \/ exclusive
  PROVE  ExclusiveIsAlone'
<1> SUFFICES ASSUME NEW e \in Devs, NEW q \in Owners, claim'[e][q].exclusive,
                    NEW other \in Owners \ {q}
             PROVE  claim'[e][other].refs = 0
  BY DEF ExclusiveIsAlone
<1>1. CASE e # d BY <1>1 DEF Touches, ExclusiveIsAlone
<1>2. CASE e = d /\ q = o
  <2>1. claim'[d][other].refs = claim[d][other].refs BY <1>2 DEF Touches
  <2>2. CASE claim[d][o].exclusive BY <1>2, <2>1, <2>2 DEF ExclusiveIsAlone
  <2>3. CASE exclusive
    <3>1. ~(claim[d][other].refs > 0) BY <1>2, <2>3 DEF Blocked
    <3>2. claim[d][other].refs \in Nat BY ClaimTyped
    <3> QED BY <1>2, <2>1, <3>1, <3>2
  <2> QED BY <1>2, <2>2, <2>3
<1>3. CASE e = d /\ q # o
  <2>1. claim[d][q].exclusive BY <1>3 DEF Touches
  <2>2. claim[d][q].refs > 0 BY <2>1 DEF RefsCounted, Counts
  <2> QED BY <1>3, <2>1, <2>2 DEF Blocked
<1> QED BY <1>1, <1>2, <1>3

(***************************************************************************)
(* Each action.                                                            *)
(***************************************************************************)
LEMMA ForkKeeps ==
  ASSUME ClaimsInv, NEW p \in Pids, NEW m \in Manifests, Fork(p, m) PROVE ClaimsInv'
<1> USE DEF ClaimsInv
<1>1. /\ life[p] \in {"none", "ended"} /\ \A d \in Devs : ~(claim[d][p].refs > 0)
      /\ life' = [life EXCEPT ![p] = "admission"]
      /\ plan' = [plan EXCEPT ![p] = m] /\ todo' = [todo EXCEPT ![p] = m.needs]
      /\ turned' = {x \in turned : x[1] # p}
      /\ drove' = [d \in Devs |-> IF drove[d] = p THEN Nobody ELSE drove[d]]
      /\ UNCHANGED <<claim, path, hand>>
  BY DEF Fork, Owned
<1>2. m.needs \in SUBSET Devs BY ClaimsAssumption
<1>3. ClaimsTypeOK' BY <1>1, <1>2 DEF ClaimsTypeOK
<1>4. RefsCounted' /\ ExclusiveIsAlone' /\ \A d, o : Paths(d, o)' = Paths(d, o) BY <1>1, SameClaims
<1>5. \A d \in Devs : /\ ~claim[d][p].reserved /\ ~claim[d][p].failsafe /\ Paths(d, p) = {}
  <2> TAKE d \in Devs
  <2>1. p \in Owners BY DEF Owners
  <2>2. claim[d][p].refs = 0 BY <1>1, <2>1, ClaimTyped
  <2> QED BY <2>1, <2>2, Unreferenced DEF RefsCounted
<1>6. \A q \in Pids : q # p => life'[q] = life[q] /\ plan'[q] = plan[q]
  BY <1>1 DEF ClaimsTypeOK, Possessed
<1>7. life'[p] = "admission" /\ life[p] \notin {"live", "snap", "close"} BY <1>1 DEF ClaimsTypeOK
<1>8. Runners' BY <1>1, <1>6, <1>7 DEF Possessed, Runners
<1>9. \A q \in Pids, d \in Devs : Possesses(q, d)'
  <2> TAKE q \in Pids, d \in Devs
  <2>1. CASE q = p BY <1>1, <1>4, <1>5, <2>1 DEF Possesses
  <2>2. CASE q # p BY <1>1, <1>4, <1>6, <2>2 DEF Possessed, Possesses
  <2> QED BY <2>1, <2>2
<1>10. plan' \in [Pids -> Manifests \cup {NoPlan}] BY <1>1 DEF Possessed
<1> QED BY <1>1, <1>3, <1>4, <1>8, <1>9, <1>10 DEF Possessed

\* Where only the place of one process changes, and to one where it may be.
LEMMA OnlyTurns ==
  ASSUME ClaimsInv, ClaimsTypeOK', NEW p \in Pids, UNCHANGED <<claim, path, hand, plan>>,
         \A q \in Pids : q # p => life'[q] = life[q],
         \/ life'[p] \in {life[p], "snap"}
         \/ life'[p] = "close" /\ life[p] = "snap"
         \/ life'[p] = "ended" /\ life[p] = "park"
  PROVE  ClaimsInv'
<1> USE DEF ClaimsInv
<1>1. RefsCounted' /\ ExclusiveIsAlone' /\ \A d, o : Paths(d, o)' = Paths(d, o) BY SameClaims
<1>2. Runners' BY DEF Possessed, Runners
<1>3. \A q \in Pids, d \in Devs : Possesses(q, d)'
  <2> TAKE q \in Pids, d \in Devs
  <2>1. Possesses(q, d) BY DEF Possessed
  <2> QED BY <1>1, <2>1 DEF Possesses
<1> QED BY <1>1, <1>2, <1>3 DEF Possessed

LEMMA Turning ==
  ASSUME ClaimsTypeOK, NEW p \in Pids, NEW y, NEW x, Turns(p, x, y)
  PROVE  life'[p] = y /\ life[p] = x /\ \A q \in Pids : q # p => life'[q] = life[q]
BY DEF Turns, ClaimsTypeOK

LEMMA QuietKeeps ==
  ASSUME ClaimsInv, NEW p \in Pids,
         \/ Refused(p) \/ Leaves(p) \/ Snapshot(p) \/ Departed(p) \/ StoppedInHook(p)
         \/ \E x \in DOMAIN path : Write(p, x)
  PROVE  ClaimsInv'
<1> USE DEF ClaimsInv
<1>1. CASE Refused(p) \/ Leaves(p) \/ Departed(p)
  <2>1. ClaimsTypeOK' BY <1>1 DEF Refused, Leaves, Departed, Turns, ClaimsTypeOK, Hook
  <2> QED BY <1>1, <2>1, Turning, OnlyTurns DEF Refused, Leaves, Departed
<1>2. CASE Snapshot(p)
  <2>1. PICK fs \in SUBSET Promises(p) :
          todo' = [todo EXCEPT ![p] = fs] /\ turned' = turned \ ({p} \X fs)
    BY <1>2 DEF Snapshot
  <2>2. fs \in SUBSET Devs BY DEF Promises
  <2>3. /\ Turns(p, "snap", "close") /\ UNCHANGED <<claim, path, plan, hand, drove>>
    BY <1>2 DEF Snapshot
  <2>4. ClaimsTypeOK' BY <2>1, <2>2, <2>3 DEF Turns, ClaimsTypeOK, Hook
  <2> QED BY <2>3, <2>4, Turning, OnlyTurns
<1>3. CASE StoppedInHook(p)
  <2>1. \A d \in todo[p] : <<p, d>> \in Pids \X Devs BY DEF ClaimsTypeOK
  <2>2. ClaimsTypeOK' BY <1>3, <2>1 DEF StoppedInHook, ClaimsTypeOK, Hook
  <2> QED BY <1>3, <2>2, OnlyTurns DEF StoppedInHook, ClaimsTypeOK
<1>4. ASSUME NEW x \in DOMAIN path, Write(p, x) PROVE ClaimsInv'
  <2>1. x[1] \in Devs BY DEF ClaimsTypeOK
  <2>2. ClaimsTypeOK' BY <1>4, <2>1 DEF Write, ClaimsTypeOK
  <2> QED BY <1>4, <2>2, OnlyTurns DEF Write
<1> QED BY <1>1, <1>2, <1>3, <1>4

LEMMA StartKeeps ==
  ASSUME ClaimsInv, NEW p \in Pids, NEW std \in SUBSET DOMAIN path, Start(p, std)
  PROVE  ClaimsInv'
<1> USE DEF ClaimsInv
<1>1. /\ path' = [x \in DOMAIN path |-> IF x \in std THEN path[x] \cup {p} ELSE path[x]]
      /\ std = {} \/ \E q \in Pids \ {p} : life[q] = "live" /\ \A x \in std : q \in path[x]
      /\ Turns(p, "admitted", "live")
      /\ UNCHANGED <<claim, todo, plan, hand, drove, turned>>
  BY DEF Start
<1>2. life'[p] = "live" /\ life[p] = "admitted" /\ \A q \in Pids : q # p => life'[q] = life[q]
  BY <1>1, Turning
<1>3. ClaimsTypeOK' BY <1>1 DEF ClaimsTypeOK, Turns
<1>4. \A x \in DOMAIN path : path'[x] # {} <=> path[x] # {} BY <1>1
<1>5. \A d \in Devs, o \in Owners : Paths(d, o)' = Paths(d, o)
  <2> TAKE d \in Devs, o \in Owners
  <2>1. CASE o = Nobody BY <1>1, <2>1 DEF Paths
  <2>2. CASE o # Nobody
    <3>1. \A k \in Copies : <<d, o, k>> \in DOMAIN path BY <2>2 DEF Owners, ClaimsTypeOK
    <3> QED BY <1>4, <2>2, <3>1 DEF Paths
  <2> QED BY <2>1, <2>2
<1>6. RefsCounted' BY <1>1, <1>5 DEF RefsCounted, Counts
<1>7. ExclusiveIsAlone' BY <1>1 DEF ExclusiveIsAlone
<1>8. Runners'
  <2> SUFFICES ASSUME NEW q \in Pids, NEW x \in DOMAIN path, q \in path'[x]
               PROVE  life'[q] \in {"live", "snap", "close"}
    BY <1>1 DEF Runners
  <2> QED BY <1>1, <1>2 DEF Possessed, Runners
<1>9. \A q \in Pids, d \in Devs : Possesses(q, d)'
  <2> TAKE q \in Pids, d \in Devs
  <2>1. Possesses(q, d) /\ Paths(d, q)' = Paths(d, q) BY <1>5 DEF Possessed, Owners
  <2> QED BY <1>1, <1>2, <2>1 DEF Possesses
<1> QED BY <1>1, <1>3, <1>6, <1>7, <1>8, <1>9 DEF Possessed

\* One claim changes: the others, and what they count, stand.
LEMMA OneClaim ==
  ASSUME ClaimsInv, NEW d \in Devs, NEW o \in Owners, Touches(claim, claim', d, o),
         \A e \in Devs, q \in Owners : e # d \/ q # o => Paths(e, q)' = Paths(e, q),
         Counts(d, o)'
  PROVE  RefsCounted'
<1> SUFFICES ASSUME NEW e \in Devs, NEW q \in Owners, e # d \/ q # o PROVE Counts(e, q)'
  BY DEF RefsCounted
<1>1. Counts(e, q) BY DEF ClaimsInv, RefsCounted
<1>2. claim'[e][q] = claim[e][q] /\ Paths(e, q)' = Paths(e, q) BY DEF Touches
<1> QED BY <1>1, <1>2 DEF Counts

LEMMA ReserveKeeps ==
  ASSUME ClaimsInv, NEW p \in Pids, NEW d \in Devs, Reserve(p, d) PROVE ClaimsInv'
<1> USE DEF ClaimsInv
<1>1. CASE Blocked(claim, d, p, TRUE)
  <2>1. /\ life[p] = "admission" /\ life' = [life EXCEPT ![p] = "snap"]
        /\ todo' = [todo EXCEPT ![p] = {}] /\ UNCHANGED <<claim, path, plan, hand, drove, turned>>
    BY <1>1 DEF Reserve
  <2>2. ClaimsTypeOK' BY <2>1 DEF ClaimsTypeOK, Hook
  <2> QED BY <2>1, <2>2, OnlyTurns DEF ClaimsTypeOK
<1>2. CASE ~Blocked(claim, d, p, TRUE)
  <2>1. /\ life[p] = "admission" /\ claim' = Reserved(claim, d, p)
        /\ todo' \in {[todo EXCEPT ![p] = @ \ {d}], todo}
        /\ UNCHANGED <<life, path, plan, hand, drove, turned>>
    BY <1>2 DEF Reserve
  <2>2. p \in Owners BY DEF Owners
  <2>3. /\ Touches(claim, claim', d, p)
        /\ claim'[d][p].refs = claim[d][p].refs + (IF claim[d][p].reserved THEN 0 ELSE 1)
        /\ claim'[d][p].exclusive /\ claim'[d][p].reserved
        /\ claim'[d][p].failsafe <=> claim[d][p].failsafe
    BY <2>1, <2>2, ClaimTyped, ReservedIs
  <2>4. ClaimsTypeOK'
    <3>1. claim' \in ClaimTable BY <2>3 DEF Touches
    <3>2. todo' \in [Pids -> SUBSET Devs] BY <2>1 DEF ClaimsTypeOK
    <3> QED BY <2>1, <3>1, <3>2 DEF ClaimsTypeOK, ClaimTable, ClaimRecord
  <2>5. \A e, q : Paths(e, q)' = Paths(e, q) BY <2>1 DEF Paths
  <2>6. Counts(d, p)'
    <3>1. Counts(d, p) BY <2>2 DEF RefsCounted
    <3>2. Paths(d, p)' = Paths(d, p) BY <2>5
    <3> QED BY <2>3, <3>1, <3>2, PathsCount DEF Counts
  <2>7. RefsCounted' BY <2>2, <2>3, <2>5, <2>6, OneClaim
  <2>8. ExclusiveIsAlone' BY <1>2, <2>2, <2>3, AloneTaken
  <2>9. \A q \in Pids, e \in Devs : Possesses(q, e)'
    <3> TAKE q \in Pids, e \in Devs
    <3>1. Possesses(q, e) /\ q \in Owners BY DEF Possessed, Owners
    <3>2. CASE q = p /\ e = d BY <2>1, <2>3, <2>5, <3>1, <3>2 DEF Possesses
    <3>3. CASE q # p \/ e # d
      <4>1. claim'[e][q] = claim[e][q] BY <2>3, <3>1, <3>3 DEF Touches
      <4> QED BY <2>1, <2>5, <3>1, <4>1 DEF Possesses
    <3> QED BY <3>2, <3>3
  <2>10. \A e \in Devs : ~claim'[e][Nobody].reserved
    BY <2>3, ClaimsAssumption DEF Possessed, Touches, Owners
  <2>11. Runners' BY <2>1 DEF Possessed, Runners
  <2> QED BY <2>1, <2>4, <2>7, <2>8, <2>9, <2>10, <2>11 DEF Possessed
<1> QED BY <1>1, <1>2

LEMMA PromiseKeeps ==
  ASSUME ClaimsInv, NEW p \in Pids, Promise(p) PROVE ClaimsInv'
<1> USE DEF ClaimsInv
<1> DEFINE devs == plan[p].parks \cap Owned(p)
<1>1. /\ life[p] = "admission" /\ claim' = Promised(claim, p, devs)
      /\ life' = [life EXCEPT ![p] = IF plan[p].parks \subseteq Owned(p) THEN "admitted" ELSE "snap"]
      /\ UNCHANGED <<path, todo, plan, hand, drove, turned>>
  BY DEF Promise
<1>2. devs \in SUBSET Devs /\ p \in Owners BY DEF Owned, Owners
<1>3. \A d \in devs : d \in plan[p].parks /\ claim[d][p].refs > 0 BY DEF Owned
<1> HIDE DEF devs
<1>4. /\ claim' \in ClaimTable
      /\ \A e \in Devs, q \in Owners :
           IF e \in devs /\ q = p
           THEN /\ claim'[e][q].refs = claim[e][q].refs /\ claim'[e][q].failsafe
                /\ claim'[e][q].exclusive <=> claim[e][q].exclusive
                /\ claim'[e][q].reserved <=> claim[e][q].reserved
           ELSE claim'[e][q] = claim[e][q]
  BY <1>1, <1>2, ClaimTyped, PromisedIs
<1>5. ClaimsTypeOK' BY <1>1, <1>4 DEF ClaimsTypeOK, ClaimTable, ClaimRecord, Hook
<1>6. \A e, q : Paths(e, q)' = Paths(e, q) BY <1>1 DEF Paths
<1>7. RefsCounted'
  <2> SUFFICES ASSUME NEW e \in Devs, NEW q \in Owners PROVE Counts(e, q)' BY DEF RefsCounted
  <2>1. Counts(e, q) /\ Paths(e, q)' = Paths(e, q) BY <1>6 DEF RefsCounted
  <2>2. CASE e \in devs /\ q = p BY <1>3, <1>4, <2>1, <2>2 DEF Counts
  <2>3. CASE ~(e \in devs /\ q = p) BY <1>4, <2>1, <2>3 DEF Counts
  <2> QED BY <2>2, <2>3
<1>8. \A e \in Devs, q \in Owners : /\ claim'[e][q].refs = claim[e][q].refs
                                    /\ claim'[e][q].exclusive <=> claim[e][q].exclusive
                                    /\ claim'[e][q].reserved <=> claim[e][q].reserved
  BY <1>4
<1>9. ExclusiveIsAlone' BY <1>8 DEF ExclusiveIsAlone
<1>10. /\ life'[p] \in {"admitted", "snap"} /\ \A q \in Pids : q # p => life'[q] = life[q]
  BY <1>1 DEF ClaimsTypeOK
<1>11. Runners' BY <1>1, <1>10 DEF Possessed, Runners
<1>12. \A q \in Pids, e \in Devs : Possesses(q, e)'
  <2> TAKE q \in Pids, e \in Devs
  <2>1. Possesses(q, e) /\ q \in Owners BY DEF Possessed, Owners
  <2>2. claim'[e][q].failsafe => e \in plan[q].parks BY <1>3, <1>4, <2>1 DEF Possesses
  <2>3. claim'[e][q].reserved => life'[q] \notin {"none", "park", "ended"}
    BY <1>8, <1>10, <2>1 DEF Possesses
  <2>4. life'[q] \in {"admission", "admitted"} => Paths(e, q) = {}
    BY <1>1, <1>10, <2>1 DEF Possesses
  <2> QED BY <1>1, <1>6, <2>2, <2>3, <2>4 DEF Possesses
<1>13. \A e \in Devs : ~claim'[e][Nobody].reserved BY <1>8 DEF Possessed, Owners
<1> QED BY <1>1, <1>5, <1>7, <1>9, <1>11, <1>12, <1>13 DEF Possessed

LEMMA OpenKeeps ==
  ASSUME ClaimsInv, NEW p \in Pids, NEW d \in Devs, NEW exclusive \in BOOLEAN,
         Open(p, d, exclusive)
  PROVE  ClaimsInv'
<1> USE DEF ClaimsInv
<1>1. /\ life[p] = "live" /\ Free(p, d) # {} /\ ~Blocked(claim, d, p, exclusive)
      /\ claim' = Taken(claim, d, p, exclusive)
      /\ path' = [path EXCEPT ![<<d, p, Min(Free(p, d))>>] = {p}]
      /\ UNCHANGED <<life, todo, plan, hand, drove, turned>>
  BY DEF Open
<1>2. PICK k : k = Min(Free(p, d)) OBVIOUS
<1>3. k \in Copies /\ path[<<d, p, k>>] = {}
  <2>1. Free(p, d) \in SUBSET Copies BY DEF Free
  <2>2. k \in Free(p, d) BY <1>1, <1>2, <2>1, ClaimsAssumption, FS_Subset, LeastExists
  <2> QED BY <2>2 DEF Free
<1>4. p \in Owners /\ p # Nobody BY ClaimsAssumption DEF Owners
<1>5. /\ path \in [Devs \X Pids \X Copies -> SUBSET Pids] /\ <<d, p, k>> \in DOMAIN path
      /\ path' = [path EXCEPT ![<<d, p, k>>] = {p}]
  BY <1>1, <1>2, <1>3 DEF ClaimsTypeOK
<1>6. /\ Touches(claim, claim', d, p)
      /\ claim'[d][p].refs = claim[d][p].refs + 1
      /\ claim'[d][p].exclusive <=> (claim[d][p].exclusive \/ exclusive)
      /\ claim'[d][p].reserved <=> claim[d][p].reserved
      /\ claim'[d][p].failsafe <=> claim[d][p].failsafe
  BY <1>1, <1>4, ClaimTyped, TakenIs
<1>7. ClaimsTypeOK'
  <2>1. path' \in [Devs \X Pids \X Copies -> SUBSET Pids] BY <1>5
  <2> QED BY <1>1, <1>6, <2>1 DEF ClaimsTypeOK, Touches, ClaimTable, ClaimRecord
<1>8. \A e \in Devs, q \in Owners : e # d \/ q # p => Paths(e, q)' = Paths(e, q)
  <2> TAKE e \in Devs, q \in Owners
  <2> HAVE e # d \/ q # p
  <2>1. \A j \in Copies : path'[<<e, q, j>>] = path[<<e, q, j>>] BY <1>5
  <2> QED BY <1>1, <2>1 DEF Paths
<1>9. Paths(d, p)' = Paths(d, p) \cup {k} /\ k \notin Paths(d, p)
  <2>1. \A j \in Copies : path'[<<d, p, j>>] = IF j = k THEN {p} ELSE path[<<d, p, j>>]
    BY <1>5
  <2> QED BY <1>3, <1>4, <2>1 DEF Paths
<1>10. Counts(d, p)'
  <2>1. Counts(d, p) BY <1>4 DEF RefsCounted
  <2>2. Cardinality(Paths(d, p))' = Cardinality(Paths(d, p)) + 1 BY <1>9, PathsCount, CountOne
  <2>3. claim[d][p].refs \in Nat BY <1>4, ClaimTyped
  <2> QED BY <1>6, <2>1, <2>2, <2>3, PathsCount DEF Counts
<1>11. RefsCounted' BY <1>4, <1>6, <1>8, <1>10, OneClaim
<1>12. ExclusiveIsAlone' BY <1>1, <1>4, <1>6, AloneTaken
<1>13. Runners' BY <1>1, <1>5 DEF Possessed, Runners
<1>14. \A q \in Pids, e \in Devs : Possesses(q, e)'
  <2> TAKE q \in Pids, e \in Devs
  <2>1. Possesses(q, e) /\ q \in Owners BY DEF Possessed, Owners
  <2>2. CASE q = p /\ e = d BY <1>1, <1>6, <2>1, <2>2 DEF Possesses
  <2>3. CASE q # p \/ e # d
    <3>1. claim'[e][q] = claim[e][q] /\ Paths(e, q)' = Paths(e, q)
      BY <1>6, <1>8, <2>1, <2>3 DEF Touches
    <3> QED BY <1>1, <2>1, <3>1 DEF Possesses
  <2> QED BY <2>2, <2>3
<1>15. \A e \in Devs : ~claim'[e][Nobody].reserved BY <1>4, <1>6 DEF Possessed, Touches, Owners
<1> QED BY <1>1, <1>7, <1>11, <1>12, <1>13, <1>14, <1>15 DEF Possessed

\* One path, or all of them at exit: the last to let go drops the claim.
LEMMA ClosedCounts ==
  ASSUME ClaimsInv, NEW p \in Pids, NEW xs \in SUBSET DOMAIN path,
         path' = Without(p, xs), claim' = Closed(p, xs), UNCHANGED hand,
         NEW d \in Devs, NEW o \in Owners
  PROVE  /\ Counts(d, o)' /\ claim'[d][o].refs <= claim[d][o].refs
         /\ Paths(d, o)' \subseteq Paths(d, o)
         /\ claim'[d][o].exclusive => claim[d][o].exclusive
         /\ claim'[d][o].reserved <=> claim[d][o].reserved
         /\ claim'[d][o].failsafe => claim[d][o].failsafe
         /\ claim[d][o].reserved /\ claim[d][o].failsafe => claim'[d][o].failsafe
<1> USE DEF ClaimsInv
<1>1. \A x \in DOMAIN path : path'[x] = IF x \in xs THEN path[x] \ {p} ELSE path[x]
  BY DEF Without
<1>2. LET n == Cardinality(LastOf(p, xs, d, o))
      IN  \/ claim'[d][o] = claim[d][o] /\ n = 0
          \/ /\ claim[d][o].refs > n /\ claim'[d][o].refs = claim[d][o].refs - n
             /\ claim'[d][o].exclusive <=> claim[d][o].exclusive
             /\ claim'[d][o].reserved <=> claim[d][o].reserved
             /\ claim'[d][o].failsafe <=> claim[d][o].failsafe
          \/ claim[d][o].refs <= n /\ n # 0 /\ claim'[d][o] = NoClaim
  BY ClosedIs
<1>3. /\ Paths(d, o)' = Paths(d, o) \ LastOf(p, xs, d, o)
      /\ LastOf(p, xs, d, o) \subseteq Paths(d, o)
  <2>1. CASE o = Nobody
    <3>1. \A k \in Copies : <<d, o, k>> \notin DOMAIN path
      BY <2>1, ClaimsAssumption DEF ClaimsTypeOK
    <3>2. LastOf(p, xs, d, o) = {} BY <3>1 DEF LastOf
    <3> QED BY <2>1, <3>2 DEF Paths
  <2>2. CASE o # Nobody
    <3>1. \A k \in Copies : <<d, o, k>> \in DOMAIN path BY <2>2 DEF Owners, ClaimsTypeOK
    <3>2. \A k \in Copies : path'[<<d, o, k>>] # {} <=>
                            path[<<d, o, k>>] # {} /\ k \notin LastOf(p, xs, d, o)
      BY <1>1, <3>1 DEF LastOf
    <3> QED BY <2>2, <3>2 DEF Paths, LastOf
  <2> QED BY <2>1, <2>2
<1>4. Counts(d, o) BY DEF RefsCounted
<1>5. PICK n \in Nat : n = Cardinality(LastOf(p, xs, d, o)) BY LastOfFinite
<1>6. Cardinality(Paths(d, o))' = Cardinality(Paths(d, o)) - n /\ n <= Cardinality(Paths(d, o))
  <2>1. Paths(d, o) \cap LastOf(p, xs, d, o) = LastOf(p, xs, d, o) BY <1>3
  <2>2. Cardinality(Paths(d, o) \ LastOf(p, xs, d, o)) =
          Cardinality(Paths(d, o)) - Cardinality(Paths(d, o) \cap LastOf(p, xs, d, o))
    BY PathsCount, FS_Difference
  <2>3. LastOf(p, xs, d, o) \in SUBSET Paths(d, o) BY <1>3
  <2>4. Cardinality(LastOf(p, xs, d, o)) <= Cardinality(Paths(d, o))
    BY <2>3, PathsCount, FS_Subset
  <2> QED BY <1>3, <1>5, <2>1, <2>2, <2>4
<1>7. claim[d][o].refs \in Nat /\ Cardinality(Paths(d, o)) \in Nat BY ClaimTyped, PathsCount
<1>8. Paths(d, o)' \subseteq Paths(d, o) BY <1>3
<1>9. CASE claim'[d][o] = claim[d][o] /\ n = 0 BY <1>4, <1>6, <1>7, <1>8, <1>9 DEF Counts
<1>10. CASE /\ claim[d][o].refs > n /\ claim'[d][o].refs = claim[d][o].refs - n
            /\ claim'[d][o].exclusive <=> claim[d][o].exclusive
            /\ claim'[d][o].reserved <=> claim[d][o].reserved
            /\ claim'[d][o].failsafe <=> claim[d][o].failsafe
  BY <1>4, <1>6, <1>7, <1>8, <1>10 DEF Counts
<1>11. CASE claim[d][o].refs <= n /\ n # 0 /\ claim'[d][o] = NoClaim
  <2>1. Cardinality(Paths(d, o)) = n /\ ~claim[d][o].reserved BY <1>4, <1>6, <1>7, <1>11 DEF Counts
  <2> QED BY <1>6, <1>7, <1>8, <1>11, <2>1, NoClaimIs DEF Counts
<1> QED BY <1>2, <1>5, <1>9, <1>10, <1>11

LEMMA Closing ==
  ASSUME ClaimsInv, NEW p \in Pids, NEW xs \in SUBSET DOMAIN path,
         \A x \in xs : p \in path[x], path' = Without(p, xs), claim' = Closed(p, xs),
         UNCHANGED <<plan, hand>>, ClaimsTypeOK',
         \A q \in Pids : q # p => life'[q] = life[q],
         \/ life'[p] = life[p] /\ life[p] = "live"
         \/ life'[p] = "release" /\ life[p] = "close" /\ \A x \in DOMAIN path : p \in path[x] => x \in xs
  PROVE  ClaimsInv'
<1> USE DEF ClaimsInv
<1>1. \A x \in DOMAIN path : path'[x] = IF x \in xs THEN path[x] \ {p} ELSE path[x]
  BY DEF Without
<1>4. ASSUME NEW d \in Devs, NEW o \in Owners
      PROVE  /\ Counts(d, o)' /\ claim'[d][o].refs <= claim[d][o].refs
             /\ Paths(d, o)' \subseteq Paths(d, o)
             /\ claim'[d][o].exclusive => claim[d][o].exclusive
             /\ claim'[d][o].reserved <=> claim[d][o].reserved
             /\ claim'[d][o].failsafe => claim[d][o].failsafe
  BY ClosedCounts
<1>5. RefsCounted' BY <1>4 DEF RefsCounted
<1>6. ExclusiveIsAlone' BY <1>4, AloneKept
<1>7. Runners'
  <2> SUFFICES ASSUME NEW q \in Pids, NEW x \in DOMAIN path, q \in path'[x]
               PROVE  life'[q] \in {"live", "snap", "close"}
    BY DEF Runners, Without
  <2>1. q \in path[x] /\ (q = p => x \notin xs) BY <1>1
  <2> QED BY <2>1 DEF Possessed, Runners
<1>8. \A q \in Pids, e \in Devs : Possesses(q, e)'
  <2> TAKE q \in Pids, e \in Devs
  <2>1. Possesses(q, e) /\ q \in Owners BY DEF Possessed, Owners
  <2> QED BY <1>4, <2>1 DEF Possesses
<1>9. \A e \in Devs : ~claim'[e][Nobody].reserved BY <1>4 DEF Possessed, Owners
<1> QED BY <1>5, <1>6, <1>7, <1>8, <1>9 DEF Possessed

LEMMA CloseKeeps ==
  ASSUME ClaimsInv, NEW p \in Pids, (\E x \in DOMAIN path : Close(p, x)) \/ ClosePaths(p)
  PROVE  ClaimsInv'
<1> USE DEF ClaimsInv
<1>1. ASSUME NEW xs \in SUBSET DOMAIN path, path' = Without(p, xs), claim' = Closed(p, xs),
             UNCHANGED <<todo, plan, hand, drove, turned>>
      PROVE  life' \in [Pids -> Hook \cup {"none", "admission", "admitted", "live", "ended"}]
               => ClaimsTypeOK'
  <2>1. claim' \in ClaimTable BY <1>1, ClosedIs
  <2>2. path' \in [Devs \X Pids \X Copies -> SUBSET Pids] BY <1>1 DEF Without, ClaimsTypeOK
  <2> QED BY <1>1, <2>1, <2>2 DEF ClaimsTypeOK, ClaimTable, ClaimRecord
<1>2. ASSUME NEW x \in DOMAIN path, Close(p, x) PROVE ClaimsInv'
  <2>1. /\ life[p] = "live" /\ p \in path[x] /\ path' = Without(p, {x}) /\ claim' = Closed(p, {x})
        /\ UNCHANGED <<life, todo, plan, hand, drove, turned>>
    BY <1>2 DEF Close
  <2>2. ClaimsTypeOK'
    <3>1. {x} \in SUBSET DOMAIN path OBVIOUS
    <3> QED BY <1>1, <2>1, <3>1 DEF ClaimsTypeOK
  <2>3. PICK xs \in SUBSET DOMAIN path : xs = {x} OBVIOUS
  <2> QED BY <2>1, <2>2, <2>3, Closing
<1>3. CASE ClosePaths(p)
  <2>1. PICK xs \in SUBSET DOMAIN path : xs = Mine(p) BY DEF Mine
  <2>2. /\ Turns(p, "close", "release") /\ path' = Without(p, xs) /\ claim' = Closed(p, xs)
        /\ UNCHANGED <<todo, plan, hand, drove, turned>>
    BY <1>3, <2>1 DEF ClosePaths
  <2>3. ClaimsTypeOK' BY <1>1, <2>2 DEF ClaimsTypeOK, Turns, Hook
  <2>4. \A x \in DOMAIN path : p \in path[x] <=> x \in xs BY <2>1 DEF Mine
  <2>5. life'[p] = "release" /\ life[p] = "close" /\ \A q \in Pids : q # p => life'[q] = life[q]
    BY <2>2, Turning
  <2> QED BY <2>2, <2>3, <2>4, <2>5, Closing
<1> QED BY <1>2, <1>3

LEMMA GiveBackKeeps ==
  ASSUME ClaimsInv, NEW p \in Pids, GiveBack(p) PROVE ClaimsInv'
<1> USE DEF ClaimsInv
<1>1. /\ Turns(p, "release", "park") /\ claim' = Released(claim, p)
      /\ UNCHANGED <<path, todo, plan, hand, drove, turned>>
  BY DEF GiveBack
<1>2. p \in Owners /\ p # Nobody BY ClaimsAssumption DEF Owners
<1>3. life'[p] = "park" /\ life[p] = "release" /\ \A q \in Pids : q # p => life'[q] = life[q]
  BY <1>1, Turning
<1>4. /\ claim' \in ClaimTable
      /\ \A e \in Devs, q \in Owners :
           \/ claim'[e][q] = claim[e][q] /\ (q = p => ~claim[e][q].reserved)
           \/ /\ q = p /\ claim[e][q].reserved /\ claim[e][q].refs > 1
              /\ claim'[e][q].refs = claim[e][q].refs - 1 /\ ~claim'[e][q].reserved
              /\ claim'[e][q].exclusive <=> claim[e][q].exclusive
              /\ claim'[e][q].failsafe <=> claim[e][q].failsafe
           \/ q = p /\ claim[e][q].reserved /\ ~(claim[e][q].refs > 1) /\ claim'[e][q] = NoClaim
  BY <1>1, <1>2, ClaimTyped, ReleasedIs
<1>5. ClaimsTypeOK' BY <1>1, <1>4 DEF ClaimsTypeOK, Turns, Hook, ClaimTable, ClaimRecord
<1>6. \A d, o : Paths(d, o)' = Paths(d, o) BY <1>1 DEF Paths
<1>7. ASSUME NEW e \in Devs, NEW q \in Owners
      PROVE  /\ Counts(e, q)' /\ claim'[e][q].refs <= claim[e][q].refs
             /\ claim'[e][q].exclusive => claim[e][q].exclusive
             /\ claim'[e][q].failsafe => claim[e][q].failsafe
             /\ claim'[e][q].reserved => claim[e][q].reserved /\ q # p
  <2>1. Counts(e, q) /\ claim[e][q].refs \in Nat /\ Paths(e, q)' = Paths(e, q)
        /\ Cardinality(Paths(e, q)) \in Nat
    BY <1>6, ClaimTyped, PathsCount DEF RefsCounted
  <2>2. CASE claim'[e][q] = claim[e][q] /\ (q = p => ~claim[e][q].reserved)
    BY <2>1, <2>2 DEF Counts
  <2>3. CASE /\ q = p /\ claim[e][q].reserved /\ claim[e][q].refs > 1
             /\ claim'[e][q].refs = claim[e][q].refs - 1 /\ ~claim'[e][q].reserved
             /\ claim'[e][q].exclusive <=> claim[e][q].exclusive
             /\ claim'[e][q].failsafe <=> claim[e][q].failsafe
    BY <2>1, <2>3 DEF Counts
  <2>4. CASE q = p /\ claim[e][q].reserved /\ ~(claim[e][q].refs > 1) /\ claim'[e][q] = NoClaim
    <3>1. Cardinality(Paths(e, q)) = 0 BY <2>1, <2>4 DEF Counts
    <3> QED BY <2>1, <2>4, <3>1, NoClaimIs DEF Counts
  <2> QED BY <1>4, <2>2, <2>3, <2>4
<1>8. RefsCounted' BY <1>7 DEF RefsCounted
<1>9. ExclusiveIsAlone' BY <1>5, <1>7, AloneKept
<1>10. Runners' BY <1>1, <1>3 DEF Possessed, Runners
<1>11. \A q \in Pids, e \in Devs : Possesses(q, e)'
  <2> TAKE q \in Pids, e \in Devs
  <2>1. Possesses(q, e) /\ q \in Owners BY DEF Possessed, Owners
  <2> QED BY <1>1, <1>3, <1>6, <1>7, <2>1 DEF Possesses
<1>12. \A e \in Devs : ~claim'[e][Nobody].reserved BY <1>7 DEF Possessed, Owners
<1> QED BY <1>1, <1>5, <1>8, <1>9, <1>10, <1>11, <1>12 DEF Possessed

LEMMA ParkOpenKeeps ==
  ASSUME ClaimsInv, NEW p \in Pids, NEW d \in Devs, ParkOpen(p, d) PROVE ClaimsInv'
<1> USE DEF ClaimsInv
<1>1. CASE Blocked(claim, d, Nobody, FALSE)
  <2>1. /\ todo' = [todo EXCEPT ![p] = @ \ {d}] /\ turned' = turned \cup {<<p, d>>}
        /\ UNCHANGED <<claim, hand, path, life, plan, drove>>
    BY <1>1 DEF ParkOpen
  <2>2. ClaimsTypeOK' BY <2>1 DEF ClaimsTypeOK
  <2> QED BY <2>1, <2>2, OnlyTurns
<1>2. CASE ~Blocked(claim, d, Nobody, FALSE)
  <2>1. /\ life[p] = "park" /\ hand[p] = Nobody /\ todo' = [todo EXCEPT ![p] = @ \ {d}]
        /\ claim' = Taken(claim, d, Nobody, FALSE) /\ hand' = [hand EXCEPT ![p] = d]
        /\ UNCHANGED <<turned, path, life, plan, drove>>
    BY <1>2 DEF ParkOpen
  <2>2. Nobody \in Owners /\ Nobody # d /\ Nobody \notin Pids BY ClaimsAssumption DEF Owners
  <2>3. /\ Touches(claim, claim', d, Nobody)
        /\ claim'[d][Nobody].refs = claim[d][Nobody].refs + 1
        /\ claim'[d][Nobody].exclusive <=> claim[d][Nobody].exclusive
        /\ claim'[d][Nobody].reserved <=> claim[d][Nobody].reserved
        /\ claim'[d][Nobody].failsafe <=> claim[d][Nobody].failsafe
    BY <2>1, <2>2, ClaimTyped, TakenIs
  <2>4. ClaimsTypeOK'
    <3>1. claim' \in ClaimTable BY <2>3 DEF Touches
    <3>2. todo' \in [Pids -> SUBSET Devs] BY <2>1 DEF ClaimsTypeOK
    <3> QED BY <2>1, <3>1, <3>2 DEF ClaimsTypeOK, ClaimTable, ClaimRecord
  <2>5. \A q \in Pids : hand'[q] = IF q = p THEN d ELSE hand[q] BY <2>1 DEF ClaimsTypeOK
  <2>6. \A e \in Devs, q \in Owners : e # d \/ q # Nobody => Paths(e, q)' = Paths(e, q)
    <3> TAKE e \in Devs, q \in Owners
    <3> HAVE e # d \/ q # Nobody
    <3>1. CASE q = Nobody
      <4>1. \A r \in Pids : hand'[r] = e <=> hand[r] = e
        BY <2>1, <2>5, <3>1, ClaimsAssumption
      <4> QED BY <3>1, <4>1 DEF Paths
    <3>2. CASE q # Nobody BY <2>1, <3>2 DEF Paths
    <3> QED BY <3>1, <3>2
  <2>7. Paths(d, Nobody)' = Paths(d, Nobody) \cup {p} /\ p \notin Paths(d, Nobody)
    BY <2>1, <2>2, <2>5 DEF Paths
  <2>8. Counts(d, Nobody)'
    <3>1. Counts(d, Nobody) BY <2>2 DEF RefsCounted
    <3>2. Cardinality(Paths(d, Nobody))' = Cardinality(Paths(d, Nobody)) + 1
      BY <2>7, PathsCount, CountOne
    <3>3. claim[d][Nobody].refs \in Nat BY <2>2, ClaimTyped
    <3> QED BY <2>3, <3>1, <3>2, <3>3, PathsCount DEF Counts
  <2>9. RefsCounted' BY <2>2, <2>3, <2>6, <2>8, OneClaim
  <2>10. ExclusiveIsAlone' BY <1>2, <2>2, <2>3, AloneTaken
  <2>11. Runners' BY <2>1 DEF Possessed, Runners
  <2>12. \A q \in Pids, e \in Devs : Possesses(q, e)'
    <3> TAKE q \in Pids, e \in Devs
    <3>1. Possesses(q, e) /\ q \in Owners /\ q # Nobody BY <2>2 DEF Possessed, Owners
    <3>2. claim'[e][q] = claim[e][q] /\ Paths(e, q)' = Paths(e, q) BY <2>3, <2>6, <3>1 DEF Touches
    <3> QED BY <2>1, <3>1, <3>2 DEF Possesses
  <2>13. \A e \in Devs : ~claim'[e][Nobody].reserved BY <2>2, <2>3 DEF Possessed, Touches
  <2> QED BY <2>1, <2>4, <2>9, <2>10, <2>11, <2>12, <2>13 DEF Possessed
<1> QED BY <1>1, <1>2

LEMMA ParkWriteKeeps ==
  ASSUME ClaimsInv, NEW p \in Pids, ParkWrite(p) PROVE ClaimsInv'
<1> USE DEF ClaimsInv
<1>1. PICK d \in Devs : d = hand[p] BY DEF ParkWrite, ClaimsTypeOK
<1>2. /\ life[p] = "park" /\ hand[p] = d /\ drove' = [drove EXCEPT ![d] = Nobody]
      /\ claim' = Dropped(claim, d, Nobody) /\ hand' = [hand EXCEPT ![p] = Nobody]
      /\ UNCHANGED <<path, life, todo, plan, turned>>
  BY <1>1 DEF ParkWrite
<1>3. Nobody \in Owners /\ Nobody \notin Devs /\ Nobody \notin Pids BY ClaimsAssumption DEF Owners
<1>4. /\ Touches(claim, claim', d, Nobody)
      /\ IF claim[d][Nobody].refs > 1
         THEN /\ claim'[d][Nobody].refs = claim[d][Nobody].refs - 1
              /\ claim'[d][Nobody].exclusive <=> claim[d][Nobody].exclusive
              /\ claim'[d][Nobody].reserved <=> claim[d][Nobody].reserved
              /\ claim'[d][Nobody].failsafe <=> claim[d][Nobody].failsafe
         ELSE claim'[d][Nobody] = NoClaim
  BY <1>2, <1>3, ClaimTyped, DroppedIs
<1>5. ClaimsTypeOK' BY <1>2, <1>4 DEF ClaimsTypeOK, Touches, ClaimTable, ClaimRecord
<1>6. \A q \in Pids : hand'[q] = IF q = p THEN Nobody ELSE hand[q] BY <1>2 DEF ClaimsTypeOK
<1>7. \A e \in Devs, q \in Owners : e # d \/ q # Nobody => Paths(e, q)' = Paths(e, q)
  <2> TAKE e \in Devs, q \in Owners
  <2> HAVE e # d \/ q # Nobody
  <2>1. CASE q = Nobody
    <3>1. \A r \in Pids : hand'[r] = e <=> hand[r] = e BY <1>2, <1>3, <1>6, <2>1
    <3> QED BY <2>1, <3>1 DEF Paths
  <2>2. CASE q # Nobody BY <1>2, <2>2 DEF Paths
  <2> QED BY <2>1, <2>2
<1>8. Paths(d, Nobody)' = Paths(d, Nobody) \ {p} /\ p \in Paths(d, Nobody)
  BY <1>2, <1>3, <1>6 DEF Paths
<1>9. ~claim[d][Nobody].reserved BY DEF Possessed
<1>10. Counts(d, Nobody)' /\ ~claim'[d][Nobody].reserved
       /\ claim'[d][Nobody].refs <= claim[d][Nobody].refs
       /\ (claim'[d][Nobody].exclusive => claim[d][Nobody].exclusive)
  <2>1. Counts(d, Nobody) BY <1>3 DEF RefsCounted
  <2>2. /\ Cardinality(Paths(d, Nobody))' = Cardinality(Paths(d, Nobody)) - 1
        /\ Cardinality(Paths(d, Nobody)) > 0 /\ Cardinality(Paths(d, Nobody)) \in Nat
    BY <1>8, PathsCount, CountOne
  <2>3. claim[d][Nobody].refs = Cardinality(Paths(d, Nobody)) BY <1>9, <2>1, <2>2 DEF Counts
  <2>4. CASE claim[d][Nobody].refs > 1 BY <1>4, <1>9, <2>1, <2>2, <2>3, <2>4 DEF Counts
  <2>5. CASE ~(claim[d][Nobody].refs > 1) BY <1>4, <2>2, <2>3, <2>5, NoClaimIs DEF Counts
  <2> QED BY <2>4, <2>5
<1>11. RefsCounted' BY <1>3, <1>4, <1>7, <1>10, OneClaim
<1>12. ExclusiveIsAlone'
  <2>1. ASSUME NEW e \in Devs, NEW q \in Owners
        PROVE  /\ claim'[e][q].refs <= claim[e][q].refs
               /\ claim'[e][q].exclusive => claim[e][q].exclusive
    <3>1. CASE e = d /\ q = Nobody BY <1>10, <3>1
    <3>2. CASE e # d \/ q # Nobody BY <1>4, <3>2, ClaimTyped DEF Touches
    <3> QED BY <3>1, <3>2
  <2> QED BY <1>5, <2>1, AloneKept
<1>13. Runners' BY <1>2 DEF Possessed, Runners
<1>14. \A q \in Pids, e \in Devs : Possesses(q, e)'
  <2> TAKE q \in Pids, e \in Devs
  <2>1. Possesses(q, e) /\ q \in Owners /\ q # Nobody BY <1>3 DEF Possessed, Owners
  <2>2. claim'[e][q] = claim[e][q] /\ Paths(e, q)' = Paths(e, q) BY <1>4, <1>7, <2>1 DEF Touches
  <2> QED BY <1>2, <2>1, <2>2 DEF Possesses
<1>15. \A e \in Devs : ~claim'[e][Nobody].reserved BY <1>3, <1>4, <1>10 DEF Possessed, Touches
<1> QED BY <1>2, <1>5, <1>11, <1>12, <1>13, <1>14, <1>15 DEF Possessed

\* What process p does.
Acts(p) ==
  \/ \E m \in Manifests : Fork(p, m)
  \/ \E d \in Devs : Reserve(p, d) \/ ParkOpen(p, d)
  \/ \E d \in Devs, exclusive \in BOOLEAN : Open(p, d, exclusive)
  \/ \E x \in DOMAIN path : Write(p, x) \/ Close(p, x)
  \/ \E std \in SUBSET DOMAIN path : Cardinality(std) <= 1 /\ Start(p, std)
  \/ Promise(p) \/ Refused(p) \/ Leaves(p)
  \/ Snapshot(p) \/ ClosePaths(p) \/ GiveBack(p) \/ ParkWrite(p) \/ Departed(p)
  \/ StoppedInHook(p)

LEMMA ActKeeps == ASSUME ClaimsInv, NEW p \in Pids, Acts(p) PROVE ClaimsInv'
<1>1. ASSUME NEW m \in Manifests, Fork(p, m) PROVE ClaimsInv' BY <1>1, ForkKeeps
<1>2. ASSUME NEW d \in Devs, Reserve(p, d) PROVE ClaimsInv' BY <1>2, ReserveKeeps
<1>3. ASSUME NEW d \in Devs, ParkOpen(p, d) PROVE ClaimsInv' BY <1>3, ParkOpenKeeps
<1>4. ASSUME NEW d \in Devs, NEW exclusive \in BOOLEAN, Open(p, d, exclusive) PROVE ClaimsInv'
  BY <1>4, OpenKeeps
<1>5. ASSUME NEW std \in SUBSET DOMAIN path, Start(p, std) PROVE ClaimsInv' BY <1>5, StartKeeps
<1>6. CASE (\E x \in DOMAIN path : Close(p, x)) \/ ClosePaths(p) BY <1>6, CloseKeeps
<1>7. CASE \/ Refused(p) \/ Leaves(p) \/ Snapshot(p) \/ Departed(p) \/ StoppedInHook(p)
           \/ \E x \in DOMAIN path : Write(p, x)
  BY <1>7, QuietKeeps
<1> QED BY <1>1, <1>2, <1>3, <1>4, <1>5, <1>6, <1>7, PromiseKeeps, GiveBackKeeps, ParkWriteKeeps DEF Acts

LEMMA ClaimsStart == ClaimsInit => ClaimsInv
<1> SUFFICES ASSUME ClaimsInit PROVE ClaimsInv OBVIOUS
<1> USE DEF ClaimsInit
<1>1. \A d \in Devs, o \in Owners : claim[d][o] = NoClaim BY DEF Owners
<1>2. ClaimsTypeOK BY DEF ClaimsTypeOK, NoClaim
<1>3. \A d \in Devs, o \in Owners : Paths(d, o) = {}
  <2> TAKE d \in Devs, o \in Owners
  <2> QED BY ClaimsAssumption DEF Paths, Owners
<1>4. RefsCounted BY <1>1, <1>3, NoClaimIs, PathsCount DEF RefsCounted, Counts
<1>5. ExclusiveIsAlone BY <1>1, NoClaimIs DEF ExclusiveIsAlone
<1>6. Possessed BY <1>1, <1>3, NoClaimIs DEF Possessed, Runners, Possesses, Owners, NoPlan
<1> QED BY <1>2, <1>4, <1>5, <1>6 DEF ClaimsInv

LEMMA ClaimsInvHolds == ClaimsSpec => []ClaimsInv
<1>1. ClaimsInv /\ [ClaimsNext]_claimVars => ClaimsInv'
  <2> SUFFICES ASSUME ClaimsInv, [ClaimsNext]_claimVars PROVE ClaimsInv' OBVIOUS
  <2>1. CASE UNCHANGED claimVars
    BY <2>1, SameClaims DEF claimVars, ClaimsInv, ClaimsTypeOK, Possessed, Runners, Possesses
  <2>2. ASSUME NEW p \in Pids, Acts(p) PROVE ClaimsInv' BY <2>2, ActKeeps
  <2> QED BY <2>1, <2>2 DEF ClaimsNext, Acts
<1> QED BY <1>1, ClaimsStart, PTL DEF ClaimsSpec

\* Who owns a device does so for a reason that is still there -- an open path, or
\* what it reserved at its fork -- and is alone where it was promised to be,
\* through every open, inheritance, refusal, exit, park and interrupted exit.
THEOREM ClaimsKept == ClaimsSpec => []ClaimsHold
<1>1. ClaimsInv => ClaimsHold
  <2> SUFFICES ASSUME ClaimsInv PROVE ClaimsAreHeld BY DEF ClaimsInv, ClaimsHold
  <2> USE DEF ClaimsInv
  <2>1. ASSUME NEW p \in Pids, NEW d \in Devs, life[p] = "ended", claim[d][p].refs > 0
        PROVE  \E k \in Copies : \E q \in path[<<d, p, k>>] : q # p /\ life[q] # "ended"
    <3>1. p \in Owners /\ p # Nobody BY ClaimsAssumption DEF Owners
    <3>2. Counts(d, p) /\ ~claim[d][p].reserved
      BY <2>1, <3>1 DEF RefsCounted, Possessed, Possesses
    <3>3. Paths(d, p) # {} BY <2>1, <3>2, PathsCount DEF Counts
    <3>4. PICK k \in Copies : path[<<d, p, k>>] # {} BY <3>1, <3>3 DEF Paths
    <3>5. <<d, p, k>> \in DOMAIN path /\ path[<<d, p, k>>] \in SUBSET Pids BY DEF ClaimsTypeOK
    <3>6. PICK q \in Pids : q \in path[<<d, p, k>>] BY <3>4, <3>5
    <3>7. life[q] \in {"live", "snap", "close"} BY <3>5, <3>6 DEF Possessed, Runners
    <3> QED BY <2>1, <3>6, <3>7
  <2> QED BY <2>1 DEF ClaimsAreHeld, RefsCounted, Counts
<1> QED BY <1>1, ClaimsInvHolds, PTL

(***************************************************************************)
(* Parks: whoever drove a device and promised to park it will, or was kept *)
(* from it.                                                                *)
(***************************************************************************)
Pledged(p, d) == claim[d][p].reserved /\ claim[d][p].failsafe

ParksDue(p, d) ==
  /\ life[p] \in {"admitted", "live"} => Pledged(p, d)
  /\ drove[d] = p /\ life[p] = "snap" => Pledged(p, d) \/ <<p, d>> \in turned
  /\ drove[d] = p /\ life[p] \in {"close", "release", "park"} =>
       d \in todo[p] \/ hand[p] = d \/ <<p, d>> \in turned
  /\ drove[d] = p /\ life[p] = "ended" => <<p, d>> \in turned

WillPark(p) ==
  /\ life[p] \in {"none", "admission", "admitted"} => \A d \in Devs : drove[d] # p
  /\ \A d \in plan[p].parks : ParksDue(p, d)

\* No action of p takes back what q promised.
LEMMA OthersPledges ==
  ASSUME ClaimsInv, NEW p \in Pids, NEW q \in Pids, q # p, Acts(p), NEW d \in Devs, Pledged(q, d)
  PROVE  Pledged(q, d)'
<1> USE DEF ClaimsInv
<1>1. p \in Owners /\ q \in Owners /\ Nobody \in Owners /\ q # Nobody BY ClaimsAssumption DEF Owners
<1>2. ASSUME claim'[d][q] = claim[d][q] PROVE Pledged(q, d)' BY <1>2 DEF Pledged
<1>3. ASSUME NEW m \in Manifests, Fork(p, m) PROVE Pledged(q, d)' BY <1>2, <1>3 DEF Fork
<1>4. ASSUME NEW e \in Devs, Reserve(p, e) PROVE Pledged(q, d)'
  <2>1. claim' = claim \/ claim' = Reserved(claim, e, p) BY <1>4 DEF Reserve
  <2>2. CASE claim' = claim BY <1>2, <2>2
  <2>3. CASE claim' = Reserved(claim, e, p)
    <3>1. Touches(claim, claim', e, p) BY <1>1, <2>3, ClaimTyped, ReservedIs
    <3> QED BY <1>1, <1>2, <3>1 DEF Touches
  <2> QED BY <2>1, <2>2, <2>3
<1>5. ASSUME NEW e \in Devs, ParkOpen(p, e) PROVE Pledged(q, d)'
  <2>1. claim' = claim \/ claim' = Taken(claim, e, Nobody, FALSE) BY <1>5 DEF ParkOpen
  <2>2. CASE claim' = claim BY <1>2, <2>2
  <2>3. CASE claim' = Taken(claim, e, Nobody, FALSE)
    <3>1. Touches(claim, claim', e, Nobody) BY <1>1, <2>3, ClaimTyped, TakenIs
    <3> QED BY <1>1, <1>2, <3>1 DEF Touches
  <2> QED BY <2>1, <2>2, <2>3
<1>6. ASSUME NEW e \in Devs, NEW exclusive \in BOOLEAN, Open(p, e, exclusive) PROVE Pledged(q, d)'
  <2>1. claim' = Taken(claim, e, p, exclusive) BY <1>6 DEF Open
  <2>2. Touches(claim, claim', e, p) BY <1>1, <2>1, ClaimTyped, TakenIs
  <2> QED BY <1>1, <1>2, <2>2 DEF Touches
<1>7. ASSUME NEW xs \in SUBSET DOMAIN path, path' = Without(p, xs), claim' = Closed(p, xs),
             UNCHANGED hand
      PROVE  Pledged(q, d)'
  BY <1>1, <1>7, ClosedCounts DEF Pledged
<1>8. ASSUME NEW x \in DOMAIN path, Close(p, x) PROVE Pledged(q, d)'
  <2>1. PICK xs \in SUBSET DOMAIN path : xs = {x} OBVIOUS
  <2> QED BY <1>7, <1>8, <2>1 DEF Close
<1>9. CASE ClosePaths(p)
  <2>1. PICK xs \in SUBSET DOMAIN path : xs = Mine(p) BY DEF Mine
  <2> QED BY <1>7, <1>9, <2>1 DEF ClosePaths
<1>10. CASE GiveBack(p)
  <2>1. claim' = Released(claim, p) BY <1>10 DEF GiveBack
  <2>2. claim \in ClaimTable BY ClaimTyped
  <2>3. claim'[d][q] = claim[d][q] BY <1>1, <2>1, <2>2, ReleasedIs
  <2> QED BY <1>2, <2>3
<1>11. CASE Promise(p)
  <2>1. PICK devs \in SUBSET Devs : devs = plan[p].parks \cap Owned(p) BY DEF Owned
  <2>2. claim' = Promised(claim, p, devs) BY <1>11, <2>1 DEF Promise
  <2>3. claim'[d][q] = claim[d][q] BY <1>1, <2>2, ClaimTyped, PromisedIs
  <2> QED BY <1>2, <2>3
<1>12. CASE ParkWrite(p)
  <2>1. PICK e \in Devs : e = hand[p] BY <1>12 DEF ParkWrite, ClaimsTypeOK
  <2>2. claim' = Dropped(claim, e, Nobody) BY <1>12, <2>1 DEF ParkWrite
  <2>3. Touches(claim, claim', e, Nobody) BY <1>1, <2>2, ClaimTyped, DroppedIs
  <2> QED BY <1>1, <1>2, <2>3 DEF Touches
<1>13. CASE \/ Refused(p) \/ Leaves(p) \/ Snapshot(p) \/ Departed(p) \/ StoppedInHook(p)
            \/ (\E x \in DOMAIN path : Write(p, x))
            \/ \E std \in SUBSET DOMAIN path : Start(p, std)
  <2>1. claim' = claim BY <1>13 DEF Refused, Leaves, Snapshot, Departed, StoppedInHook, Write, Start
  <2> QED BY <1>2, <2>1
<1> QED BY <1>3, <1>4, <1>5, <1>6, <1>8, <1>9, <1>10, <1>11, <1>12, <1>13 DEF Acts

\* Nor does it move q, or have q drive.
LEMMA OthersPlaces ==
  ASSUME ClaimsInv, NEW p \in Pids, NEW q \in Pids, q # p, Acts(p)
  PROVE  /\ life'[q] = life[q] /\ todo'[q] = todo[q] /\ hand'[q] = hand[q] /\ plan'[q] = plan[q]
         /\ \A d \in Devs : /\ drove'[d] = q => drove[d] = q
                            /\ <<q, d>> \in turned => <<q, d>> \in turned'
<1>0. q # Nobody BY ClaimsAssumption
<1>1. /\ life \in [Pids -> Hook \cup {"none", "admission", "admitted", "live", "ended"}]
      /\ todo \in [Pids -> SUBSET Devs] /\ hand \in [Pids -> Devs \cup {Nobody}]
      /\ plan \in [Pids -> Manifests \cup {NoPlan}] /\ drove \in [Devs -> Pids \cup {Nobody}]
  BY DEF ClaimsInv, ClaimsTypeOK, Possessed
<1>2. /\ life'[q] = life[q] /\ todo'[q] = todo[q] /\ hand'[q] = hand[q] /\ plan'[q] = plan[q]
  <2>1. \/ life' = life \/ \E y : life' = [life EXCEPT ![p] = y]
    BY DEF Acts, Fork, Reserve, Open, ParkOpen, Write, Close, Start, Promise, Refused, Leaves,
           Snapshot, ClosePaths, GiveBack, ParkWrite, Departed, StoppedInHook, Turns
  <2>2. \/ todo' = todo \/ \E y : todo' = [todo EXCEPT ![p] = y]
    BY DEF Acts, Fork, Reserve, Open, ParkOpen, Write, Close, Start, Promise, Refused, Leaves,
           Snapshot, ClosePaths, GiveBack, ParkWrite, Departed, StoppedInHook
  <2>3. \/ hand' = hand \/ \E y : hand' = [hand EXCEPT ![p] = y]
    BY DEF Acts, Fork, Reserve, Open, ParkOpen, Write, Close, Start, Promise, Refused, Leaves,
           Snapshot, ClosePaths, GiveBack, ParkWrite, Departed, StoppedInHook
  <2>4. \/ plan' = plan \/ \E y : plan' = [plan EXCEPT ![p] = y]
    BY DEF Acts, Fork, Reserve, Open, ParkOpen, Write, Close, Start, Promise, Refused, Leaves,
           Snapshot, ClosePaths, GiveBack, ParkWrite, Departed, StoppedInHook
  <2> QED BY <1>1, <2>1, <2>2, <2>3, <2>4
<1>3. ASSUME NEW d \in Devs
      PROVE  /\ drove'[d] = q => drove[d] = q
             /\ <<q, d>> \in turned => <<q, d>> \in turned'
  <2>1. \/ drove' = drove \/ \E e \in Devs, r \in {p, Nobody} : drove' = [drove EXCEPT ![e] = r]
        \/ drove' = [e \in Devs |-> IF drove[e] = p THEN Nobody ELSE drove[e]]
    <3>1. ASSUME NEW x \in DOMAIN path, Write(p, x)
          PROVE  \E e \in Devs : drove' = [drove EXCEPT ![e] = p]
      <4>1. x[1] \in Devs BY DEF ClaimsInv, ClaimsTypeOK
      <4> QED BY <3>1, <4>1 DEF Write
    <3>2. ASSUME ParkWrite(p) PROVE \E e \in Devs : drove' = [drove EXCEPT ![e] = Nobody]
      <4>1. hand[p] \in Devs BY <1>1, <3>2 DEF ParkWrite
      <4> QED BY <3>2, <4>1 DEF ParkWrite
    <3>3. CASE \/ (\E m \in Manifests : Fork(p, m)) \/ Promise(p) \/ Refused(p) \/ Leaves(p)
               \/ Snapshot(p) \/ ClosePaths(p) \/ GiveBack(p) \/ Departed(p) \/ StoppedInHook(p)
               \/ (\E e \in Devs : Reserve(p, e) \/ ParkOpen(p, e))
               \/ (\E e \in Devs, exclusive \in BOOLEAN : Open(p, e, exclusive))
               \/ (\E x \in DOMAIN path : Close(p, x))
               \/ \E std \in SUBSET DOMAIN path : Start(p, std)
      BY <3>3 DEF Fork, Reserve, Open, ParkOpen, Close, Start, Promise, Refused, Leaves, Snapshot,
                  ClosePaths, GiveBack, Departed, StoppedInHook
    <3> QED BY <3>1, <3>2, <3>3 DEF Acts
  <2>2. drove'[d] = q => drove[d] = q BY <1>0, <1>1, <2>1
  <2>3. \/ turned' = turned \/ \E S : turned' = turned \cup S
        \/ \E S : turned' = turned \ ({p} \X S)
        \/ turned' = {x \in turned : x[1] # p}
    BY DEF Acts, Fork, Reserve, Open, ParkOpen, Write, Close, Start, Promise, Refused, Leaves,
           Snapshot, ClosePaths, GiveBack, ParkWrite, Departed, StoppedInHook
  <2>4. <<q, d>> \in turned => <<q, d>> \in turned'
    BY <2>3
  <2> QED BY <2>2, <2>4
<1> QED BY <1>2, <1>3

LEMMA OthersWillPark ==
  ASSUME ClaimsInv, NEW p \in Pids, NEW q \in Pids, q # p, Acts(p), WillPark(q)
  PROVE  WillPark(q)'
<1>1. /\ life'[q] = life[q] /\ todo'[q] = todo[q] /\ hand'[q] = hand[q] /\ plan'[q] = plan[q]
      /\ \A d \in Devs : /\ drove'[d] = q => drove[d] = q
                         /\ <<q, d>> \in turned => <<q, d>> \in turned'
  BY OthersPlaces
<1>2. \A d \in Devs : Pledged(q, d) => Pledged(q, d)' BY OthersPledges
<1>3. plan[q].parks \subseteq Devs
  <2>1. plan[q] \in Manifests \cup {NoPlan} BY DEF ClaimsInv, Possessed
  <2> QED BY <2>1, ClaimsAssumption DEF NoPlan
<1>4. ASSUME NEW d \in plan[q].parks PROVE ParksDue(q, d)'
  <2>1. d \in Devs /\ ParksDue(q, d) BY <1>3 DEF WillPark
  <2> QED BY <1>1, <1>2, <2>1 DEF ParksDue
<1> QED BY <1>1, <1>4 DEF WillPark

LEMMA NotedAll ==
  ASSUME ClaimsInv, NEW p \in Pids, \A m \in Manifests : Cardinality(m.parks) <= MaxFailsafes,
         NEW fs \in SUBSET Promises(p),
         Cardinality(fs) = Min({Cardinality(Promises(p)), MaxFailsafes})
  PROVE  fs = Promises(p)
<1>1. Promises(p) \subseteq plan[p].parks /\ Promises(p) \subseteq Devs
  <2> SUFFICES ASSUME NEW d \in Promises(p) PROVE d \in plan[p].parks /\ d \in Devs OBVIOUS
  <2> QED BY DEF Promises, ClaimsInv, Possessed, Possesses
<1>2. plan[p] \in Manifests \cup {NoPlan} BY DEF ClaimsInv, Possessed
<1>3. plan[p].parks \subseteq Devs BY <1>2, ClaimsAssumption DEF NoPlan
<1>4. IsFiniteSet(plan[p].parks) /\ IsFiniteSet(Promises(p)) BY <1>1, <1>3, ClaimsAssumption, FS_Subset
<1>5. /\ Cardinality(Promises(p)) \in Nat /\ Cardinality(plan[p].parks) \in Nat
      /\ Cardinality(Promises(p)) <= Cardinality(plan[p].parks)
  BY <1>1, <1>4, FS_Subset, FS_CardinalityType
<1>6. Cardinality(plan[p].parks) <= MaxFailsafes
  <2>1. CASE plan[p] \in Manifests BY <2>1
  <2>2. CASE plan[p] = NoPlan
    <3>1. plan[p].parks = {} BY <2>2 DEF NoPlan
    <3>2. Cardinality({}) = 0 BY FS_EmptySet
    <3> QED BY <3>1, <3>2, ClaimsAssumption
  <2> QED BY <1>2, <2>1, <2>2
<1>7. Cardinality(fs) = Cardinality(Promises(p))
  <2>1. PICK n \in Nat : n = Cardinality(Promises(p)) BY <1>5
  <2>2. n <= MaxFailsafes /\ MaxFailsafes \in Nat BY <1>5, <1>6, <2>1, ClaimsAssumption
  <2>3. Min({n, MaxFailsafes}) = n BY <2>2, LeastOfTwo
  <2> QED BY <2>1, <2>3
<1> QED BY <1>4, <1>7, FS_Subset

\* What p itself does: admitted with all it promised, it keeps that until it leaves.
LEMMA OwnAdmission ==
  ASSUME ClaimsInv, NEW p \in Pids, WillPark(p),
         \/ \E m \in Manifests : Fork(p, m)
         \/ (\E d \in Devs : Reserve(p, d)) \/ Promise(p) \/ Refused(p)
         \/ \E std \in SUBSET DOMAIN path : Start(p, std)
  PROVE  WillPark(p)'
<1>1. p # Nobody /\ p \in Owners BY ClaimsAssumption DEF Owners
<1>2. plan[p].parks \subseteq Devs
  <2>1. plan[p] \in Manifests \cup {NoPlan} BY DEF ClaimsInv, Possessed
  <2> QED BY <2>1, ClaimsAssumption DEF NoPlan
<1>3. CASE \E m \in Manifests : Fork(p, m)
  <2>1. PICK m \in Manifests : Fork(p, m) BY <1>3
  <2>2. life'[p] = "admission" /\ plan'[p] = m /\ \A d \in Devs : drove'[d] # p
    BY <1>1, <2>1 DEF Fork, ClaimsInv, ClaimsTypeOK, Possessed
  <2>3. m.parks \subseteq Devs BY ClaimsAssumption
  <2> QED BY <2>2, <2>3 DEF WillPark, ParksDue
<1>4. CASE \E d \in Devs : Reserve(p, d)
  <2>1. /\ life[p] = "admission" /\ life'[p] \in {"admission", "snap"}
        /\ UNCHANGED <<plan, drove>>
    BY <1>4 DEF Reserve, ClaimsInv, ClaimsTypeOK
  <2> QED BY <1>2, <2>1 DEF WillPark, ParksDue
<1>5. CASE Promise(p)
  <2>1. /\ life[p] = "admission" /\ UNCHANGED <<plan, drove>>
        /\ life'[p] = IF plan[p].parks \subseteq Owned(p) THEN "admitted" ELSE "snap"
    BY <1>5 DEF Promise, ClaimsInv, ClaimsTypeOK
  <2>2. \A d \in Devs : drove'[d] # p BY <2>1 DEF WillPark
  <2>3. ASSUME plan[p].parks \subseteq Owned(p), NEW d \in plan[p].parks PROVE Pledged(p, d)'
    <3>1. d \in Devs /\ claim[d][p].refs > 0 BY <1>2, <2>3 DEF Owned
    <3>2. Counts(d, p) /\ Paths(d, p) = {}
      BY <1>1, <2>1, <3>1 DEF ClaimsInv, RefsCounted, Possessed, Possesses
    <3>3. claim[d][p].reserved BY <3>1, <3>2, PathsCount DEF Counts
    <3>4. PICK devs \in SUBSET Devs : devs = plan[p].parks \cap Owned(p) BY DEF Owned
    <3>5. claim' = Promised(claim, p, devs) /\ d \in devs BY <1>5, <2>3, <3>4 DEF Promise
    <3>6. claim'[d][p].failsafe /\ (claim'[d][p].reserved <=> claim[d][p].reserved)
      BY <1>1, <3>1, <3>5, ClaimTyped, PromisedIs DEF ClaimsInv
    <3> QED BY <3>3, <3>6 DEF Pledged
  <2> QED BY <1>2, <2>1, <2>2, <2>3 DEF WillPark, ParksDue
<1>6. CASE Refused(p)
  <2>1. life[p] = "admitted" /\ life'[p] = "snap" /\ UNCHANGED <<plan, drove>>
    BY <1>6, Turning DEF Refused, ClaimsInv
  <2> QED BY <1>2, <2>1 DEF WillPark, ParksDue
<1>7. CASE \E std \in SUBSET DOMAIN path : Start(p, std)
  <2>1. life[p] = "admitted" /\ life'[p] = "live" /\ UNCHANGED <<claim, plan, drove>>
    BY <1>7, Turning DEF Start, ClaimsInv
  <2> QED BY <2>1 DEF WillPark, ParksDue, Pledged
<1> QED BY <1>3, <1>4, <1>5, <1>6, <1>7

LEMMA OwnRun ==
  ASSUME ClaimsInv, NEW p \in Pids, WillPark(p),
         \/ \E d \in Devs, exclusive \in BOOLEAN : Open(p, d, exclusive)
         \/ (\E x \in DOMAIN path : Write(p, x) \/ Close(p, x)) \/ Leaves(p)
  PROVE  WillPark(p)'
<1>1. p # Nobody /\ p \in Owners BY ClaimsAssumption DEF Owners
<1>2. plan[p].parks \subseteq Devs
  <2>1. plan[p] \in Manifests \cup {NoPlan} BY DEF ClaimsInv, Possessed
  <2> QED BY <2>1, ClaimsAssumption DEF NoPlan
<1>3. CASE Leaves(p)
  <2>1. life[p] = "live" /\ life'[p] = "snap" /\ UNCHANGED <<claim, plan, drove>>
    BY <1>3, Turning DEF Leaves, ClaimsInv
  <2> QED BY <2>1 DEF WillPark, ParksDue, Pledged
<1>4. ASSUME life[p] = "live", life'[p] = "live", UNCHANGED plan,
             \A d \in Devs : Pledged(p, d) => Pledged(p, d)'
      PROVE  WillPark(p)'
  BY <1>2, <1>4 DEF WillPark, ParksDue
<1>5. ASSUME NEW d \in Devs, NEW exclusive \in BOOLEAN, Open(p, d, exclusive) PROVE WillPark(p)'
  <2>1. claim' = Taken(claim, d, p, exclusive) BY <1>5 DEF Open
  <2>2. /\ Touches(claim, claim', d, p)
        /\ claim'[d][p].reserved <=> claim[d][p].reserved
        /\ claim'[d][p].failsafe <=> claim[d][p].failsafe
    BY <1>1, <2>1, ClaimTyped, TakenIs DEF ClaimsInv
  <2>3. \A e \in Devs : Pledged(p, e) => Pledged(p, e)'
    <3> TAKE e \in Devs
    <3>1. CASE e = d BY <2>2, <3>1 DEF Pledged
    <3>2. CASE e # d BY <1>1, <2>2, <3>2 DEF Pledged, Touches
    <3> QED BY <3>1, <3>2
  <2> QED BY <1>4, <1>5, <2>3 DEF Open
<1>6. ASSUME NEW x \in DOMAIN path, Write(p, x) PROVE WillPark(p)'
  BY <1>4, <1>6 DEF Write, Pledged
<1>7. ASSUME NEW x \in DOMAIN path, Close(p, x) PROVE WillPark(p)'
  <2>1. PICK xs \in SUBSET DOMAIN path : xs = {x} OBVIOUS
  <2>2. /\ path' = Without(p, xs) /\ claim' = Closed(p, xs) /\ life[p] = "live"
        /\ UNCHANGED <<life, plan, hand>>
    BY <1>7, <2>1 DEF Close
  <2>3. \A e \in Devs : Pledged(p, e) => Pledged(p, e)'
    BY <1>1, <2>2, ClosedCounts DEF Pledged
  <2> QED BY <1>4, <2>2, <2>3
<1> QED BY <1>3, <1>5, <1>6, <1>7

\* At its exit it notes all of them, and parks each or is refused.
LEMMA OwnExit ==
  ASSUME ClaimsInv, NEW p \in Pids, WillPark(p),
         \A m \in Manifests : Cardinality(m.parks) <= MaxFailsafes,
         \/ Snapshot(p) \/ ClosePaths(p) \/ GiveBack(p) \/ ParkWrite(p) \/ Departed(p)
         \/ StoppedInHook(p) \/ \E d \in Devs : ParkOpen(p, d)
  PROVE  WillPark(p)'
<1>1. p # Nobody /\ Nobody \notin Devs /\ p \in Owners BY ClaimsAssumption DEF Owners
<1>2. plan[p].parks \subseteq Devs
  <2>1. plan[p] \in Manifests \cup {NoPlan} BY DEF ClaimsInv, Possessed
  <2> QED BY <2>1, ClaimsAssumption DEF NoPlan
<1>3. /\ life \in [Pids -> Hook \cup {"none", "admission", "admitted", "live", "ended"}]
      /\ todo \in [Pids -> SUBSET Devs] /\ hand \in [Pids -> Devs \cup {Nobody}]
      /\ drove \in [Devs -> Pids \cup {Nobody}]
  BY DEF ClaimsInv, ClaimsTypeOK
<1>4. CASE Snapshot(p)
  <2>1. PICK fs \in SUBSET Promises(p) :
          /\ Cardinality(fs) = Min({Cardinality(Promises(p)), MaxFailsafes})
          /\ todo' = [todo EXCEPT ![p] = fs] /\ turned' = turned \ ({p} \X fs)
    BY <1>4 DEF Snapshot
  <2>2. fs = Promises(p) BY <2>1, NotedAll
  <2>3. /\ life[p] = "snap" /\ life'[p] = "close" /\ UNCHANGED <<plan, drove>> /\ todo'[p] = fs
    BY <1>3, <1>4, <2>1, Turning DEF Snapshot, ClaimsInv
  <2>4. ASSUME NEW d \in plan[p].parks, drove[d] = p PROVE d \in todo'[p] \/ <<p, d>> \in turned'
    <3>1. d \in Devs /\ (Pledged(p, d) \/ <<p, d>> \in turned)
      BY <1>2, <2>3, <2>4 DEF WillPark, ParksDue
    <3>2. Pledged(p, d) => d \in fs BY <2>2, <3>1 DEF Pledged, Promises
    <3>3. <<p, d>> \in turned /\ d \notin fs => <<p, d>> \in turned' BY <2>1
    <3> QED BY <2>3, <3>1, <3>2, <3>3
  <2> QED BY <2>3, <2>4 DEF WillPark, ParksDue
<1>5. CASE ClosePaths(p) \/ GiveBack(p)
  <2>1. /\ \/ life[p] = "close" /\ life'[p] = "release"
           \/ life[p] = "release" /\ life'[p] = "park"
        /\ UNCHANGED <<todo, plan, hand, drove, turned>>
    BY <1>5, Turning DEF ClosePaths, GiveBack, ClaimsInv
  <2> QED BY <2>1 DEF WillPark, ParksDue
<1>6. CASE ParkWrite(p)
  <2>1. PICK e \in Devs : e = hand[p] BY <1>3, <1>6 DEF ParkWrite
  <2>2. /\ life[p] = "park" /\ drove' = [drove EXCEPT ![e] = Nobody]
        /\ hand' = [hand EXCEPT ![p] = Nobody] /\ UNCHANGED <<life, todo, plan, turned>>
    BY <1>6, <2>1 DEF ParkWrite
  <2>3. \A d \in Devs : drove'[d] = IF d = e THEN Nobody ELSE drove[d] BY <1>3, <2>2
  <2> QED BY <1>1, <1>2, <2>1, <2>2, <2>3 DEF WillPark, ParksDue
<1>7. CASE Departed(p)
  <2>1. /\ todo[p] = {} /\ hand[p] = Nobody /\ life[p] = "park" /\ life'[p] = "ended"
        /\ UNCHANGED <<plan, drove, turned>>
    BY <1>7, Turning DEF Departed, ClaimsInv
  <2> QED BY <1>1, <1>2, <2>1 DEF WillPark, ParksDue
<1>8. CASE StoppedInHook(p)
  <2>1. /\ life[p] \in Hook /\ hand[p] = Nobody /\ life'[p] = "snap"
        /\ turned' = turned \cup {<<p, d>> : d \in todo[p]} /\ UNCHANGED <<claim, plan, drove>>
    BY <1>3, <1>8 DEF StoppedInHook
  <2>2. \A d \in todo[p] : <<p, d>> \in turned' BY <2>1
  <2>3. ASSUME NEW d \in plan[p].parks, drove[d] = p PROVE Pledged(p, d) \/ <<p, d>> \in turned'
    BY <1>1, <1>2, <2>1, <2>2, <2>3 DEF WillPark, ParksDue, Hook
  <2> QED BY <2>1, <2>3 DEF WillPark, ParksDue, Pledged
<1>9. ASSUME NEW d \in Devs, ParkOpen(p, d) PROVE WillPark(p)'
  <2>1. /\ life[p] = "park" /\ todo' = [todo EXCEPT ![p] = @ \ {d}] /\ UNCHANGED <<life, plan, drove>>
        /\ \/ turned' = turned \cup {<<p, d>>} /\ UNCHANGED hand
           \/ hand[p] = Nobody /\ hand' = [hand EXCEPT ![p] = d] /\ UNCHANGED turned
    BY <1>9 DEF ParkOpen
  <2>2. todo'[p] = todo[p] \ {d} BY <1>3, <2>1
  <2>3. ASSUME NEW e \in plan[p].parks, drove[e] = p
        PROVE  e \in todo'[p] \/ hand'[p] = e \/ <<p, e>> \in turned'
    <3>1. e \in Devs /\ (e \in todo[p] \/ hand[p] = e \/ <<p, e>> \in turned)
      BY <1>2, <2>1, <2>3 DEF WillPark, ParksDue
    <3> QED BY <1>1, <1>3, <2>1, <2>2, <3>1
  <2> QED BY <2>1, <2>3 DEF WillPark, ParksDue
<1> QED BY <1>4, <1>5, <1>6, <1>7, <1>8, <1>9

\* Where no manifest promises more than one exit can note, a device is not left as
\* an ended process drove it if that process promised to park it, unless the park
\* was refused, or the exit stopped between giving back and parking.
THEOREM ParkedAsPromised ==
  ASSUME \A m \in Manifests : Cardinality(m.parks) <= MaxFailsafes
  PROVE  ClaimsSpec => []LeftAsPromised
<1> DEFINE AllPark == \A p \in Pids : WillPark(p)
<1>1. ClaimsInit => AllPark
  <2> SUFFICES ASSUME ClaimsInit, NEW p \in Pids PROVE WillPark(p) OBVIOUS
  <2>1. life[p] = "none" /\ plan[p] = NoPlan /\ p # Nobody /\ \A d \in Devs : drove[d] = Nobody
    BY ClaimsAssumption DEF ClaimsInit
  <2>2. plan[p].parks = {} BY <2>1 DEF NoPlan
  <2> QED BY <2>1, <2>2 DEF WillPark
<1>2. ClaimsInv /\ AllPark /\ [ClaimsNext]_claimVars => AllPark'
  <2> SUFFICES ASSUME ClaimsInv, AllPark, [ClaimsNext]_claimVars, NEW q \in Pids PROVE WillPark(q)'
    OBVIOUS
  <2>1. WillPark(q) OBVIOUS
  <2> HIDE DEF AllPark
  <2>2. CASE UNCHANGED claimVars BY <2>1, <2>2 DEF claimVars, WillPark, ParksDue, Pledged
  <2>3. ASSUME NEW p \in Pids, Acts(p) PROVE WillPark(q)'
    <3>1. CASE q # p BY <2>1, <2>3, <3>1, OthersWillPark
    <3>2. CASE q = p
      BY <2>1, <2>3, <3>2, OwnAdmission, OwnRun, OwnExit DEF Acts
    <3> QED BY <3>1, <3>2
  <2> QED BY <2>2, <2>3 DEF ClaimsNext, Acts
<1>3. ClaimsInv /\ AllPark => LeftAsPromised
  <2> SUFFICES ASSUME AllPark, NEW p \in Pids, NEW d \in Devs,
                      life[p] = "ended", d \in plan[p].parks, drove[d] = p
               PROVE  <<p, d>> \in turned
    BY DEF LeftAsPromised
  <2> QED BY DEF WillPark, ParksDue
<1> QED BY <1>1, <1>2, <1>3, ClaimsInvHolds, PTL DEF ClaimsSpec

(***************************************************************************)
(* Releases.                                                               *)
(***************************************************************************)
\* Whole periods: the schedule of a task is the multiples of its period.
LEMMA Divided ==
  ASSUME NEW n \in Int, NEW p \in Int, p > 0
  PROVE  n % p = n - (n \div p) * p
OBVIOUS

LEMMA Divides ==
  ASSUME NEW n \in Nat, NEW p \in Nat \ {0}
  PROVE  \E q \in Nat, r \in 0..(p - 1) : q = n \div p /\ r = n % p /\ n = q * p + r
<1>1. PICK q \in Nat : q = n \div p OBVIOUS
<1>2. PICK r \in 0..(p - 1) : r = n % p OBVIOUS
<1>3. r = n - q * p
  <2>1. p \in Int /\ n \in Int /\ p > 0 OBVIOUS
  <2> QED BY Zenon, <1>1, <1>2, <2>1, Divided
<1>4. n = q * p + r
  <2>1. PICK a \in Int : a = q * p OBVIOUS
  <2>2. r = n - a BY <1>3, <2>1
  <2>3. n = a + r BY <2>2
  <2> QED BY <2>1, <2>3
<1> QED BY <1>1, <1>2, <1>4

LEMMA Grows ==
  ASSUME NEW i \in Nat, NEW j \in Nat, NEW p \in Nat \ {0}, i >= j
  PROVE  i * p \in Nat /\ j * p \in Nat /\ i * p >= j * p
<1>1. PICK k \in Nat : i = j + k BY i - j \in Nat
<1>2. i * p = j * p + k * p BY <1>1
<1>3. j * p \in Nat /\ k * p \in Nat OBVIOUS
<1> QED BY <1>2, <1>3

\* Two multiples that are less than a period apart are one.
LEMMA OnGrid ==
  ASSUME NEW i \in Nat, NEW j \in Nat, NEW p \in Nat \ {0}, i * p < j * p + p
  PROVE  i <= j /\ i * p <= j * p
<1>1. i <= j
  <2> SUFFICES ASSUME i >= j + 1 PROVE FALSE OBVIOUS
  <2>1. i * p >= (j + 1) * p /\ j * p \in Nat /\ i * p \in Nat BY Grows
  <2>2. (j + 1) * p = j * p + p OBVIOUS
  <2> QED BY <2>1, <2>2
<1> QED BY <1>1, Grows

\* How far into its period an instant is, counted from any release before it.
LEMMA IntoPeriod ==
  ASSUME NEW j \in Nat, NEW over \in Nat, NEW p \in Nat \ {0}
  PROVE  over % p = (j * p + over) - ((j * p + over) \div p) * p
<1>1. PICK c \in Nat : c = j * p OBVIOUS
<1>2. PICK m \in Nat, s \in 0..(p - 1) : m = over \div p /\ s = over % p /\ over = m * p + s
  BY Divides
<1>3. PICK q \in Nat, r \in 0..(p - 1) :
        q = (c + over) \div p /\ r = (c + over) % p /\ c + over = q * p + r
  BY Divides, c + over \in Nat
<1>4. PICK a \in Nat : a = q * p OBVIOUS
<1>5. PICK b \in Nat : b = (j + m) * p OBVIOUS
<1>6. b = c + m * p BY <1>1, <1>5
<1>7. a + r = b + s BY <1>2, <1>3, <1>4, <1>6
<1>8. a < b + p /\ b < a + p BY <1>7
<1>9. a = b
  <2>1. j + m \in Nat BY <1>2
  <2>2. a <= b BY Zenon, <1>3, <1>4, <1>5, <1>8, <2>1, OnGrid
  <2>3. b <= a BY Zenon, <1>3, <1>4, <1>5, <1>8, <2>1, OnGrid
  <2> QED BY <1>4, <1>5, <2>2, <2>3
<1>10. s = (c + over) - a BY <1>3, <1>4, <1>7, <1>9
<1> QED BY Zenon, <1>1, <1>2, <1>3, <1>4, <1>10

LEMMA MoreIs == ASSUME NEW n \in 0..Backlog PROVE More(n) \in 1..Backlog
<1>1. Backlog \in Nat /\ Backlog > 0 /\ n + 1 \in Nat BY ReleaseAssumption
<1> QED BY <1>1, LeastOfTwo DEF More
\* What a task has still to be told of is on its way to it, or it looks.
Listens(t) ==
  /\ at[t] \in {"take", "clock"} /\ given[t] = 0 => ~stop[t]
  /\ t \in Sporadic /\ at[t] \in {"own", "call", "take"} /\ pending[t] > 0 /\ given[t] = 0 =>
       sending[t] > 0

\* A periodic task and the clock count the same releases, and it knows how far
\* into its period an activation began unless it began before its release.
OnSchedule(t) ==
  /\ \E k \in Nat : next[t] = k * Period[t]
  /\ \E k \in Nat : due[t] = k * Period[t]
  /\ next[t] <= now + Period[t]
  /\ at[t] \in {"own", "call", "take"} /\ given[t] = 0 => next[t] <= due[t]
  /\ acts[t] /\ due[t] <= since[t] + Period[t] => late[t] = since[t] - Served(t)
  /\ outlived[t] => at[t] \in {"ending", "gone"}

RtInv ==
  /\ RtTypeOK
  /\ \A t \in RtTasks : Listens(t)
  /\ \A t \in Periodic : OnSchedule(t)

LEMMA PeriodsCount == ASSUME NEW t \in Periodic PROVE Period[t] \in Nat \ {0} /\ t \in RtTasks
BY ReleaseAssumption DEF RtTasks

LEMMA RtStart == RtInit => RtInv
<1> SUFFICES ASSUME RtInit PROVE RtInv OBVIOUS
<1> USE DEF RtInit
<1>1. RtTypeOK
  <2>1. Backlog \in Nat /\ 0 \in 0..Backlog BY ReleaseAssumption
  <2>2. next \in [Periodic -> Nat] BY PeriodsCount
  <2>3. due \in [RtTasks -> Nat] BY PeriodsCount
  <2> QED BY <2>1, <2>2, <2>3 DEF RtTypeOK, AtWork
<1>2. ASSUME NEW t \in RtTasks PROVE Listens(t) BY DEF Listens, RtTasks
<1>3. ASSUME NEW t \in Periodic PROVE OnSchedule(t)
  <2>1. t \in RtTasks /\ Period[t] \in Nat \ {0} BY PeriodsCount
  <2>2. next[t] = Period[t] /\ due[t] = Period[t] /\ now = 0 /\ ~acts[t] /\ ~outlived[t]
    BY <2>1
  <2>3. Period[t] = 1 * Period[t] BY <2>1
  <2> QED BY <2>1, <2>2, <2>3 DEF OnSchedule
<1> QED BY <1>1, <1>2, <1>3 DEF RtInv

\* The clock: the next release is a whole number of periods on, and less than
\* two away.
LEMMA FireAhead ==
  ASSUME NEW n \in Nat, NEW p \in Nat \ {0}, NEW m \in Nat, n <= m, \E k \in Nat : n = k * p
  PROVE  LET f == n + ((m - n) \div p + 1) * p
         IN f \in Nat /\ f <= m + p /\ \E k \in Nat : f = k * p
<1>1. PICK k \in Nat : n = k * p OBVIOUS
<1>2. m - n \in Nat OBVIOUS
<1>3. PICK q \in Nat, r \in 0..(p - 1) : q = (m - n) \div p /\ m - n = q * p + r BY <1>2, Divides
<1>4. PICK a \in Nat : a = q * p BY <1>3
<1>5. (q + 1) * p = a + p BY <1>3, <1>4
<1>6. n + (a + p) <= m + p BY <1>3, <1>4
<1>7. n + (a + p) = (k + q + 1) * p BY <1>1, <1>3, <1>4
<1>8. k + q + 1 \in Nat /\ n + (a + p) \in Nat BY <1>1, <1>3, <1>4
<1>9. n + ((m - n) \div p + 1) * p = n + (a + p) BY Zenon, <1>3, <1>5
<1> QED BY Zenon, <1>6, <1>7, <1>8, <1>9

\* An activation: the release to answer next is the first to come, and the one
\* answered began within this period unless it began before its release.
Answering(d, p, m, over, e, l) ==
  /\ d \in Nat /\ p \in Nat \ {0} /\ m \in Nat /\ \E k \in Nat : d = k * p
  /\ over = IF m > d THEN m - d ELSE 0
  /\ e = d + (over \div p + 1) * p /\ l = over % p
Answered(p, m, e, l) ==
  /\ e \in Nat /\ e > m /\ \E k \in Nat : e = k * p
  /\ l \in Nat /\ (e <= m + p => l = m - (m \div p) * p)

LEMMA AnswersNext ==
  ASSUME NEW d, NEW p, NEW m, NEW over, NEW e, NEW l, Answering(d, p, m, over, e, l)
  PROVE  Answered(p, m, e, l)
<1>0. /\ d \in Nat /\ p \in Nat \ {0} /\ m \in Nat /\ \E k \in Nat : d = k * p
      /\ over \in Nat /\ (m > d => over = m - d) /\ (m <= d => over = 0)
      /\ e = d + (over \div p + 1) * p /\ l = over % p
  BY DEF Answering
<1>1. PICK j \in Nat : d = j * p BY <1>0
<1>2. PICK q \in Nat, r \in 0..(p - 1) : q = over \div p /\ r = over % p /\ over = q * p + r
  BY Zenon, <1>0, Divides
<1>3. PICK a \in Nat : a = q * p BY <1>0, <1>2
<1>4. e = d + (a + p)
  <2>1. (q + 1) * p = a + p BY <1>0, <1>2, <1>3
  <2> QED BY Zenon, <1>0, <1>2, <2>1
<1>5. e \in Nat /\ e > m
  <2>1. over = a + r BY <1>2, <1>3
  <2>2. e \in Nat BY <1>0, <1>3, <1>4
  <2>3. d + over >= m BY <1>0
  <2>4. \A x \in 0..(p - 1) : x < p /\ x \in Nat BY <1>0
  <2>5. r < p /\ r \in Nat BY Zenon, <1>2, <2>4
  <2> QED BY <1>0, <1>3, <1>4, <2>1, <2>2, <2>3, <2>5
<1>6. d + (a + p) = (j + q + 1) * p /\ j + q + 1 \in Nat BY <1>0, <1>1, <1>2, <1>3
<1>7. l \in Nat
  <2>1. \A s \in 0..(p - 1) : s \in Nat BY <1>0
  <2> QED BY Zenon, <1>0, <1>2, <2>1
<1>8. ASSUME e <= m + p PROVE l = m - (m \div p) * p
  <2>1. d + over = m
    <3>1. d + a <= m BY <1>0, <1>3, <1>4, <1>8
    <3>2. m > d => over = m - d BY <1>0
    <3>3. m <= d => over = 0 BY <1>0
    <3> QED BY <1>0, <1>3, <3>1, <3>2, <3>3
  <2>2. j * p + over = m BY Zenon, <1>1, <2>1
  <2>3. over % p = (j * p + over) - ((j * p + over) \div p) * p BY Zenon, <1>0, <1>1, IntoPeriod
  <2> QED BY Zenon, <1>0, <2>2, <2>3
<1> QED BY Zenon, <1>4, <1>5, <1>6, <1>7, <1>8 DEF Answered

TaskStep(t) ==
  \/ t \in Periodic /\ (Fire(t) \/ Activate(t))
  \/ t \in Sporadic /\ (Signal(t) \/ SignalGive(t) \/ Respond(t))
  \/ Call(t) \/ Arrive(t) \/ Take(t) \/ Drain(t) \/ Stopped(t) \/ AskToStop(t) \/ Watch(t)
  \/ Seize(t) \/ Gone(t)

\* A step of one task leaves the others as they are.
Untouched(u) ==
  /\ at'[u] = at[u] /\ given'[u] = given[u] /\ due'[u] = due[u] /\ late'[u] = late[u]
  /\ since'[u] = since[u] /\ acts'[u] = acts[u] /\ stop'[u] = stop[u] /\ outlived'[u] = outlived[u]
  /\ u \in Periodic => next'[u] = next[u]
  /\ u \in Sporadic => pending'[u] = pending[u] /\ sending'[u] = sending[u]

LEMMA OthersUntouched ==
  ASSUME RtTypeOK, NEW t \in RtTasks, TaskStep(t), NEW u \in RtTasks, u # t
  PROVE  now' = now /\ Untouched(u)
<1> USE DEF RtTypeOK, Untouched, source, judged, fate
<1>1. CASE t \in Periodic /\ Fire(t) BY <1>1 DEF Fire
<1>2. CASE t \in Periodic /\ Activate(t) BY <1>2 DEF Activate, Steps
<1>3. CASE t \in Sporadic /\ (Signal(t) \/ SignalGive(t)) BY <1>3 DEF Signal, SignalGive
<1>4. CASE t \in Sporadic /\ Respond(t) BY <1>4 DEF Respond, Steps
<1>5. CASE Call(t) \/ Seize(t) \/ Gone(t) BY <1>5 DEF Call, Seize, Gone, Steps
<1>6. CASE Arrive(t)
  <2>1. UNCHANGED <<now, source, due, late, since, acts, fate>> BY <1>6 DEF Arrive
  <2>2. at'[u] = at[u] BY <1>6 DEF Arrive, Steps
  <2>3. outlived'[u] = outlived[u] BY <1>6 DEF Arrive
  <2> QED BY <2>1, <2>2, <2>3
<1>7. CASE Take(t) \/ Drain(t) BY <1>7 DEF Take, Drain, Steps
<1>8. CASE Stopped(t) BY <1>8 DEF Stopped, Steps
<1>9. CASE AskToStop(t) \/ Watch(t) BY <1>9 DEF AskToStop, Watch
<1> QED BY <1>1, <1>2, <1>3, <1>4, <1>5, <1>6, <1>7, <1>8, <1>9 DEF TaskStep

LEMMA UntouchedKeep ==
  ASSUME NEW u \in RtTasks, now' = now, Untouched(u)
  PROVE  /\ Listens(u) => Listens(u)'
         /\ u \in Periodic => (OnSchedule(u) => OnSchedule(u)')
<1>1. Listens(u) => Listens(u)' BY DEF Listens, Untouched
<1>2. ASSUME u \in Periodic, OnSchedule(u) PROVE OnSchedule(u)'
  <2>1. Served(u)' = Served(u) BY <1>2 DEF Served, Untouched
  <2> QED BY <1>2, <2>1 DEF OnSchedule, Untouched
<1> QED BY <1>1, <1>2

\* What a step does to its own task.
LEMMA FireKeeps ==
  ASSUME RtInv, NEW t \in Periodic, Fire(t)
  PROVE  RtTypeOK' /\ Listens(t)' /\ OnSchedule(t)'
<1>1. t \in RtTasks /\ t \notin Sporadic /\ Period[t] \in Nat \ {0} BY PeriodsCount, ReleaseAssumption
<1>2. next[t] \in Nat /\ now \in Nat /\ next[t] <= now /\ given[t] \in 0..Backlog
  BY <1>1 DEF RtInv, RtTypeOK, Fire
<1> DEFINE ahead == next[t] + ((now - next[t]) \div Period[t] + 1) * Period[t]
<1>3. ahead \in Nat /\ ahead <= now + Period[t] /\ \E k \in Nat : ahead = k * Period[t]
  <2>1. \E k \in Nat : next[t] = k * Period[t] BY DEF RtInv, OnSchedule
  <2> QED BY Zenon, <1>1, <1>2, <2>1, FireAhead
<1>4. PICK n : n = ahead OBVIOUS
<1>5. next' = [next EXCEPT ![t] = n] BY <1>4 DEF Fire
<1>6. PICK g \in 1..Backlog : g = More(given[t]) BY <1>2, MoreIs
<1>7. /\ given' = [given EXCEPT ![t] = g]
      /\ UNCHANGED <<now, pending, sending, at, due, late, since, acts, outlived, stop, flagged>>
  BY <1>6 DEF Fire, judged, fate
<1> HIDE DEF ahead
<1>8. next'[t] = n /\ given'[t] = g /\ g # 0
  BY <1>1, <1>5, <1>6, <1>7 DEF RtInv, RtTypeOK
<1>9. RtTypeOK'
  <2>1. next' \in [Periodic -> Nat] BY <1>3, <1>4, <1>5 DEF RtInv, RtTypeOK
  <2>2. g \in 0..Backlog BY <1>6, ReleaseAssumption
  <2>3. given' \in [RtTasks -> 0..Backlog] BY <1>7, <2>2 DEF RtInv, RtTypeOK
  <2> QED BY <1>7, <2>1, <2>3 DEF RtInv, RtTypeOK
<1>10. Listens(t)' BY <1>1, <1>8 DEF Listens
<1>11. OnSchedule(t)'
  <2>1. Served(t)' = Served(t) BY <1>7 DEF Served
  <2> QED BY <1>1, <1>3, <1>4, <1>7, <1>8, <2>1 DEF RtInv, OnSchedule
<1> QED BY <1>9, <1>10, <1>11

LEMMA ActivateKeeps ==
  ASSUME RtInv, NEW t \in Periodic, Activate(t)
  PROVE  RtTypeOK' /\ Listens(t)' /\ OnSchedule(t)'
<1>1. t \in RtTasks /\ t \notin Sporadic /\ Period[t] \in Nat \ {0} BY PeriodsCount, ReleaseAssumption
<1>2. due[t] \in Nat /\ now \in Nat /\ next[t] \in Nat /\ at[t] = "clock"
  BY <1>1 DEF RtInv, RtTypeOK, Activate, Steps
<1>3. PICK over : over = IF now > due[t] THEN now - due[t] ELSE 0 OBVIOUS
<1>4. PICK e : e = due[t] + (over \div Period[t] + 1) * Period[t] OBVIOUS
<1>5. PICK l : l = over % Period[t] OBVIOUS
<1>6. /\ e \in Nat /\ e > now /\ (\E k \in Nat : e = k * Period[t]) /\ l \in Nat
      /\ e <= now + Period[t] => l = now - (now \div Period[t]) * Period[t]
  <2>1. \E k \in Nat : due[t] = k * Period[t] BY DEF RtInv, OnSchedule
  <2>2. Answering(due[t], Period[t], now, over, e, l)
    BY Zenon, <1>1, <1>2, <1>3, <1>4, <1>5, <2>1 DEF Answering
  <2>3. Answered(Period[t], now, e, l) BY <2>2, AnswersNext
  <2> QED BY Zenon, <2>3 DEF Answered
<1>7. PICK x \in {"own", "ending"} : at' = [at EXCEPT ![t] = x]
  BY DEF Activate, Steps
<1>8. /\ late' = [late EXCEPT ![t] = l] /\ due' = [due EXCEPT ![t] = e]
      /\ since' = [since EXCEPT ![t] = now] /\ acts' = [acts EXCEPT ![t] = TRUE]
      /\ UNCHANGED <<now, next, given, pending, sending, outlived, stop, flagged>>
  BY <1>3, <1>4, <1>5 DEF Activate, LateBySchedule, source, fate
<1>9. at'[t] = x /\ late'[t] = l /\ due'[t] = e /\ since'[t] = now
  BY <1>1, <1>7, <1>8 DEF RtInv, RtTypeOK
<1>10. RtTypeOK'
  <2>1. at' \in [RtTasks -> AtWork \cup {"take", "drain", "stopped", "clock", "ending", "seized", "gone"}]
    BY <1>7 DEF RtInv, RtTypeOK, AtWork
  <2>2. late' \in [RtTasks -> Nat] /\ due' \in [RtTasks -> Nat] /\ since' \in [RtTasks -> Nat]
    BY <1>2, <1>6, <1>8 DEF RtInv, RtTypeOK
  <2>3. acts' \in [RtTasks -> BOOLEAN] BY <1>8 DEF RtInv, RtTypeOK
  <2> QED BY <1>8, <2>1, <2>2, <2>3 DEF RtInv, RtTypeOK
<1>11. Listens(t)' BY <1>1, <1>7, <1>9 DEF Listens
<1>12. OnSchedule(t)'
  <2>1. next[t] <= e
    <3>1. PICK i \in Nat, j \in Nat : next[t] = i * Period[t] /\ e = j * Period[t]
      BY <1>6 DEF RtInv, OnSchedule
    <3>2. next[t] < e + Period[t] BY <1>1, <1>2, <1>6 DEF RtInv, OnSchedule
    <3> QED BY Zenon, <1>1, <3>1, <3>2, OnGrid
  <2>2. Served(t)' = (now \div Period[t]) * Period[t] BY Zenon, <1>8, <1>9 DEF Served
  <2>3. PICK s : s = (now \div Period[t]) * Period[t] OBVIOUS
  <2>4. e <= now + Period[t] => l = now - s BY Zenon, <1>6, <2>3
  <2>5. acts'[t] /\ due'[t] <= since'[t] + Period[t] => late'[t] = since'[t] - Served(t)'
    BY Zenon, <1>9, <2>2, <2>3, <2>4
  <2>6. ~outlived[t] BY <1>2 DEF RtInv, OnSchedule
  <2> QED BY <1>6, <1>8, <1>9, <2>1, <2>5, <2>6 DEF RtInv, OnSchedule
<1> QED BY <1>10, <1>11, <1>12

LEMMA SignalKeeps ==
  ASSUME RtInv, NEW t \in Sporadic, Signal(t) \/ SignalGive(t) \/ Respond(t)
  PROVE  RtTypeOK' /\ Listens(t)'
<1>1. t \in RtTasks /\ t \notin Periodic BY ReleaseAssumption DEF RtTasks
<1>2. /\ given[t] \in 0..Backlog /\ pending[t] \in Nat /\ sending[t] \in Nat
      /\ at[t] \in AtWork \cup {"take", "drain", "stopped", "clock", "ending", "seized", "gone"}
  BY <1>1 DEF RtInv, RtTypeOK
<1>3. Listens(t) BY <1>1 DEF RtInv
<1>4. CASE Signal(t)
  <2>1. /\ pending' = [pending EXCEPT ![t] = pending[t] + 1]
        /\ sending' = [sending EXCEPT ![t] = sending[t] + 1]
        /\ UNCHANGED <<now, next, given, at, due, late, since, acts, outlived, stop, flagged>>
    BY <1>4 DEF Signal, judged, fate
  <2>2. RtTypeOK' BY <1>2, <2>1 DEF RtInv, RtTypeOK
  <2>3. sending'[t] > 0 BY <1>2, <2>1 DEF RtInv, RtTypeOK
  <2> QED BY <1>3, <2>1, <2>2, <2>3 DEF Listens
<1>5. CASE SignalGive(t)
  <2>1. PICK g \in 1..Backlog : g = More(given[t]) BY <1>2, MoreIs
  <2>2. /\ sending[t] > 0 /\ sending' = [sending EXCEPT ![t] = sending[t] - 1]
        /\ given' = [given EXCEPT ![t] = g]
        /\ UNCHANGED <<now, next, pending, at, due, late, since, acts, outlived, stop, flagged>>
    BY <1>5, <2>1 DEF SignalGive, judged, fate
  <2>3. g \in 0..Backlog /\ g # 0 BY <2>1, ReleaseAssumption
  <2>4. given' \in [RtTasks -> 0..Backlog] BY <2>2, <2>3 DEF RtInv, RtTypeOK
  <2>5. sending' \in [Sporadic -> Nat] BY <1>2, <2>2 DEF RtInv, RtTypeOK
  <2>6. RtTypeOK' BY <2>2, <2>4, <2>5 DEF RtInv, RtTypeOK
  <2>7. given'[t] # 0 BY <1>1, <2>2, <2>3 DEF RtInv, RtTypeOK
  <2> QED BY <2>6, <2>7 DEF Listens
<1>6. CASE Respond(t)
  <2>1. PICK x \in {"own", "take"} : at' = [at EXCEPT ![t] = x] BY <1>6 DEF Respond, Steps
  <2>2. /\ at[t] = "clock" /\ pending' = [pending EXCEPT ![t] = 0]
        /\ since' \in {since, [since EXCEPT ![t] = now]} /\ acts' \in {acts, [acts EXCEPT ![t] = TRUE]}
        /\ UNCHANGED <<now, next, given, sending, due, late, outlived, stop, flagged>>
    BY <1>6 DEF Respond, Steps, fate
  <2>3. RtTypeOK'
    <3>1. at' \in [RtTasks -> AtWork \cup {"take", "drain", "stopped", "clock", "ending", "seized", "gone"}]
      BY <2>1 DEF RtInv, RtTypeOK, AtWork
    <3>2. since' \in [RtTasks -> Nat] BY <2>2 DEF RtInv, RtTypeOK
    <3>3. acts' \in [RtTasks -> BOOLEAN] BY <2>2 DEF RtInv, RtTypeOK
    <3>4. pending' \in [Sporadic -> Nat] BY <2>2 DEF RtInv, RtTypeOK
    <3> QED BY <2>2, <3>1, <3>2, <3>3, <3>4 DEF RtInv, RtTypeOK
  <2>4. pending'[t] = 0 /\ at'[t] = x BY <1>1, <2>1, <2>2 DEF RtInv, RtTypeOK
  <2> QED BY <1>3, <2>1, <2>2, <2>3, <2>4 DEF Listens
<1> QED BY <1>4, <1>5, <1>6

\* An activation that outlived its deadline was one the task knows it missed.
LEMMA KnowsItIsLate ==
  ASSUME RtInv, NEW t \in RtTasks, Outlived(t)
  PROVE  Missed(t)
<1>1. t \in Periodic /\ acts[t] /\ Deadline[t] # 0 /\ now - Served(t) > Deadline[t]
      /\ late[t] = since[t] - Served(t)
  BY DEF Outlived, RtInv, OnSchedule
<1>2. now \in Nat /\ since[t] \in Nat /\ Deadline[t] \in Nat /\ late[t] \in Nat
  BY ReleaseAssumption DEF RtInv, RtTypeOK
<1>3. PICK s \in Int : s = Served(t)
  <2>1. PICK q \in Nat : q = since[t] \div Period[t] BY <1>1, <1>2, PeriodsCount
  <2>2. PICK p \in Nat : p = Period[t] BY <1>1, PeriodsCount
  <2>3. q * p \in Int BY <2>1, <2>2
  <2> QED BY Zenon, <2>1, <2>2, <2>3 DEF Served
<1>4. late[t] = since[t] - s /\ now - s > Deadline[t] BY <1>1, <1>3
<1>5. (now - since[t]) + late[t] > Deadline[t] BY <1>2, <1>3, <1>4
<1> QED BY <1>1, <1>5 DEF Missed, Response

\* The rest of what a task does, and is done to it.
LEMMA TaskTypes ==
  ASSUME RtInv, NEW t \in RtTasks,
         Call(t) \/ Arrive(t) \/ Take(t) \/ Drain(t) \/ Stopped(t) \/ AskToStop(t) \/ Watch(t)
         \/ Seize(t) \/ Gone(t)
  PROVE  RtTypeOK'
<1> USE DEF RtInv, RtTypeOK, source, judged, fate, Steps
<1>1. CASE Call(t) \/ Seize(t) \/ Gone(t) BY <1>1 DEF Call, Seize, Gone, AtWork
<1>2. CASE Stopped(t) BY <1>2 DEF Stopped, AtWork
<1>3. CASE Take(t)
  <2>1. given[t] - 1 \in 0..Backlog BY <1>3, ReleaseAssumption DEF Take
  <2> QED BY <1>3, <2>1 DEF Take, AtWork
<1>4. CASE Drain(t)
  <2>1. 0 \in 0..Backlog BY ReleaseAssumption
  <2> QED BY <1>4, <2>1 DEF Drain, AtWork
<1>5. CASE AskToStop(t)
  <2>1. PICK g \in 1..Backlog : g = More(given[t]) BY MoreIs
  <2>2. g \in 0..Backlog BY <2>1, ReleaseAssumption
  <2>3. given' = [given EXCEPT ![t] = g] BY <1>5, <2>1 DEF AskToStop
  <2>4. given' \in [RtTasks -> 0..Backlog] BY <2>2, <2>3
  <2> QED BY <1>5, <2>4 DEF AskToStop
<1>6. CASE Watch(t) BY <1>6 DEF Watch
<1>7. CASE Arrive(t)
  <2>1. UNCHANGED <<now, source, due, late, since, acts, fate>> BY <1>7 DEF Arrive
  <2>2. PICK x \in {"ending", "take"} : at' = [at EXCEPT ![t] = x] BY <1>7 DEF Arrive
  <2>3. at' \in [RtTasks -> AtWork \cup {"take", "drain", "stopped", "clock", "ending", "seized", "gone"}]
    BY <2>2 DEF AtWork
  <2>4. PICK b \in BOOLEAN : b = (outlived[t] \/ Outlived(t)) OBVIOUS
  <2>5. outlived' = [outlived EXCEPT ![t] = b] BY <1>7, <2>4 DEF Arrive
  <2>6. outlived' \in [RtTasks -> BOOLEAN] BY <2>5
  <2> QED BY <2>1, <2>3, <2>6
<1> QED BY <1>1, <1>2, <1>3, <1>4, <1>5, <1>6, <1>7

LEMMA TaskKeeps ==
  ASSUME RtInv, NEW t \in RtTasks,
         Call(t) \/ Arrive(t) \/ Take(t) \/ Drain(t) \/ Stopped(t) \/ AskToStop(t) \/ Watch(t)
         \/ Seize(t) \/ Gone(t)
  PROVE  Listens(t)' /\ (t \in Periodic => OnSchedule(t)')
<1> USE DEF source, judged, fate, Steps, AtWork
<1>1. /\ at \in [RtTasks -> {"own", "call"} \cup {"take", "drain", "stopped", "clock", "ending", "seized", "gone"}]
      /\ given \in [RtTasks -> 0..Backlog] /\ outlived \in [RtTasks -> BOOLEAN]
      /\ stop \in [RtTasks -> BOOLEAN]
  BY DEF RtInv, RtTypeOK
<1>2. Listens(t) /\ (t \in Periodic => OnSchedule(t)) BY DEF RtInv
\* Steps that leave the schedule, and what lateness is judged by, as they are.
<1>3. /\ UNCHANGED <<now, next, due, late, since, acts, pending, sending>>
      /\ Served(t)' = Served(t)
  BY DEF Call, Arrive, Take, Drain, Stopped, AskToStop, Watch, Seize, Gone, Served
<1>4. CASE Call(t) \/ Seize(t) \/ Gone(t)
  <2>1. /\ \/ at[t] \in {"own", "call"} /\ at'[t] \in {"own", "call"}
           \/ at[t] = "own" /\ at'[t] = "seized"
           \/ at[t] \in {"ending", "seized"} /\ at'[t] = "gone"
        /\ UNCHANGED <<given, stop, outlived>>
    BY <1>1, <1>4 DEF Call, Seize, Gone
  <2> QED BY <1>2, <1>3, <2>1 DEF Listens, OnSchedule
<1>5. CASE Stopped(t)
  <2>1. /\ at[t] = "stopped" /\ at'[t] = (IF stop[t] THEN "ending" ELSE "clock")
        /\ UNCHANGED <<given, stop, outlived>>
    BY <1>1, <1>5 DEF Stopped
  <2> QED BY <1>2, <1>3, <2>1 DEF Listens, OnSchedule
<1>6. CASE Take(t)
  <2>1. /\ at[t] = "take" /\ at'[t] = "drain" /\ UNCHANGED <<stop, outlived>>
    BY <1>1, <1>6 DEF Take
  <2> QED BY <1>2, <1>3, <2>1 DEF Listens, OnSchedule
<1>7. CASE Drain(t)
  <2>1. /\ at[t] = "drain" /\ at'[t] = "stopped" /\ UNCHANGED <<stop, outlived>>
    BY <1>1, <1>7 DEF Drain
  <2> QED BY <1>2, <1>3, <2>1 DEF Listens, OnSchedule
<1>8. CASE AskToStop(t)
  <2>1. PICK g \in 1..Backlog : g = More(given[t]) BY <1>1, MoreIs
  <2>2. g # 0 BY <2>1, ReleaseAssumption
  <2>3. given'[t] = g /\ UNCHANGED <<at, outlived>> BY <1>1, <1>8, <2>1 DEF AskToStop
  <2> QED BY <1>2, <1>3, <2>2, <2>3 DEF Listens, OnSchedule
<1>9. CASE Watch(t)
  <2>1. UNCHANGED <<at, given, stop, outlived>> BY <1>9 DEF Watch
  <2> QED BY <1>2, <1>3, <2>1 DEF Listens, OnSchedule
<1>10. CASE Arrive(t)
  <2>1. /\ at[t] = "own" /\ at'[t] = (IF stop[t] \/ Missed(t) \/ flagged[t] THEN "ending" ELSE "take")
        /\ UNCHANGED <<given, stop>>
    BY <1>1, <1>10 DEF Arrive
  <2>2. outlived'[t] <=> (outlived[t] \/ Outlived(t)) BY <1>1, <1>10 DEF Arrive
  <2>3. Outlived(t) => Missed(t) BY KnowsItIsLate
  <2>4. Listens(t)' BY <1>2, <1>3, <2>1 DEF Listens
  <2>5. ASSUME t \in Periodic PROVE OnSchedule(t)'
    <3>1. ~outlived[t] BY <1>2, <2>1, <2>5 DEF OnSchedule
    <3>2. outlived'[t] => at'[t] = "ending" BY <2>1, <2>2, <2>3, <3>1
    <3> QED BY <1>2, <1>3, <2>1, <2>5, <3>2 DEF OnSchedule
  <2> QED BY <2>4, <2>5
<1> QED BY <1>4, <1>5, <1>6, <1>7, <1>8, <1>9, <1>10

LEMMA RtStep == RtInv /\ [RtNext]_rtVars => RtInv'
<1> SUFFICES ASSUME RtInv, [RtNext]_rtVars PROVE RtInv' OBVIOUS
<1>1. CASE UNCHANGED rtVars
  BY <1>1 DEF rtVars, RtInv, RtTypeOK, Listens, OnSchedule, Served
<1>2. CASE Tick
  <2>1. /\ now \in Nat /\ now' = now + 1
        /\ UNCHANGED <<next, given, pending, sending, at, due, late, since, acts, outlived, stop, flagged>>
    BY <1>2 DEF Tick, source, judged, fate, RtInv, RtTypeOK
  <2>2. RtTypeOK' BY <2>1 DEF RtInv, RtTypeOK
  <2>3. ASSUME NEW t \in RtTasks PROVE Listens(t)' BY <2>1 DEF RtInv, Listens
  <2>4. ASSUME NEW t \in Periodic PROVE OnSchedule(t)'
    <3>1. OnSchedule(t) BY DEF RtInv
    <3>2. Served(t)' = Served(t) BY <2>1 DEF Served
    <3>3. next[t] \in Nat /\ Period[t] \in Nat BY PeriodsCount DEF RtInv, RtTypeOK
    <3>4. next[t] <= now' + Period[t] BY <2>1, <3>1, <3>3 DEF OnSchedule
    <3> QED BY <2>1, <3>1, <3>2, <3>4 DEF OnSchedule
  <2> QED BY <2>2, <2>3, <2>4 DEF RtInv
<1>3. ASSUME NEW t \in RtTasks, TaskStep(t) PROVE RtInv'
  <2>1. RtTypeOK' /\ Listens(t)' /\ (t \in Periodic => OnSchedule(t)')
    <3>1. CASE t \in Periodic /\ (Fire(t) \/ Activate(t)) BY <3>1, FireKeeps, ActivateKeeps
    <3>2. CASE t \in Sporadic /\ (Signal(t) \/ SignalGive(t) \/ Respond(t))
      BY <3>2, SignalKeeps, ReleaseAssumption
    <3> QED BY <1>3, <3>1, <3>2, TaskTypes, TaskKeeps DEF TaskStep
  <2>2. ASSUME NEW u \in RtTasks PROVE Listens(u)' /\ (u \in Periodic => OnSchedule(u)')
    <3>1. CASE u = t BY <2>1, <3>1
    <3>2. CASE u # t
      <4>1. now' = now /\ Untouched(u) BY <1>3, <3>2, OthersUntouched DEF RtInv
      <4> QED BY <4>1, UntouchedKeep DEF RtInv
    <3> QED BY <3>1, <3>2
  <2> QED BY <2>1, <2>2, PeriodsCount DEF RtInv
<1> QED BY <1>1, <1>2, <1>3 DEF RtNext, TaskStep, RtTasks

LEMMA RtInvHolds == RtSpec => []RtInv
BY RtStart, RtStep, PTL DEF RtSpec

\* A release is answered or known to be late: nothing a waiting task is to hear is
\* lost, whenever interrupts come and whoever asks it to stop; and a task whose
\* activation outlived its deadline works no more (rv9_rt_wait of kal_rt.c).
THEOREM ReleasesAreKept == RtSpec => []ReleasesKept
<1>1. RtInv => ReleasesKept
  <2> SUFFICES ASSUME RtInv PROVE ReleasesKept OBVIOUS
  <2>1. ASSUME NEW t \in RtTasks, Asleep(t)
        PROVE  /\ ~stop[t]
               /\ t \in Sporadic => (pending[t] > 0 => sending[t] > 0)
               /\ t \in Periodic => next[t] <= due[t]
    BY <2>1 DEF RtInv, Listens, OnSchedule, Asleep
  <2>2. LateIsLast BY DEF RtInv, OnSchedule, LateIsLast, AtWork
  <2> QED BY <2>1, <2>2 DEF RtInv, ReleasesKept, NothingSleptThrough
<1> QED BY <1>1, RtInvHolds, PTL

(***************************************************************************)
(* Listeners.                                                              *)
(***************************************************************************)
ListenerTable == [ListenSlots -> [port : Ports \cup {NoPort}, fd : Sockets \cup {NoSocket},
                                  users : Nat, idle : 0..Grace]]
PathTable == [Daemons -> [is : {"closed", "accepting", "connecting", "open"},
                          fd : Sockets \cup {NoSocket}, slot : 0..NListeners]]

\* Those that use a listener are counted, and a port has one listener.
UsersOf(ps, s) == {d \in Daemons : ps[d].slot = s}
SlotsSound(ls, ps) ==
  \A s \in ListenSlots :
    /\ ls[s].users = Cardinality(UsersOf(ps, s))
    /\ ls[s].port = NoPort <=> ls[s].fd = NoSocket
    /\ ls[s].users > 0 => ls[s].port # NoPort
    /\ \A t \in ListenSlots : ls[s].port = ls[t].port /\ ls[s].port # NoPort => s = t

\* A socket is one listener's or one path's, and who waits for a client has none.
SocketsApart(ls, ps) ==
  /\ \A s, t \in ListenSlots : ls[s].fd = ls[t].fd /\ ls[s].fd # NoSocket => s = t
  /\ \A d, e \in Daemons : ps[d].fd = ps[e].fd /\ ps[d].fd # NoSocket => d = e
  /\ \A s \in ListenSlots, d \in Daemons : ls[s].fd = ps[d].fd => ls[s].fd = NoSocket

PathsSound(ps) ==
  \A d \in Daemons :
    /\ ps[d].fd # NoSocket <=> ps[d].is \in {"connecting", "open"}
    /\ ps[d].is \in {"closed", "connecting"} => ps[d].slot = 0
    /\ ps[d].is = "accepting" => ps[d].slot # 0

\* A port somebody used within the grace has a listener that will not go yet.
Answers(ls, un) ==
  \A q \in Ports : un[q] < Grace =>
    \E s \in ListenSlots : ls[s].port = q /\ (ls[s].users > 0 \/ ls[s].idle <= un[q])

ListenInv ==
  /\ listeners \in ListenerTable /\ net \in PathTable /\ unused \in [Ports -> 0..Grace]
  /\ SlotsSound(listeners, net) /\ SocketsApart(listeners, net) /\ PathsSound(net)
  /\ Answers(listeners, unused)

\* What a step may not do to a listener in use, or within its grace.
Stays(ls, ms) ==
  \A s \in ListenSlots :
    ls[s].port # NoPort /\ (ls[s].users > 0 \/ ls[s].idle < Grace) =>
      /\ ms[s].port = ls[s].port
      /\ ms[s].users > 0 \/ ms[s].idle = 0 \/ (ls[s].users = 0 /\ ms[s].idle = ls[s].idle)

LEMMA ListenFacts ==
  /\ Grace \in Nat /\ Grace > 0 /\ 0 \in 0..Grace /\ Grace \in 0..Grace
  /\ 0 \in 0..NListeners /\ 0 \notin ListenSlots /\ ListenSlots \subseteq 0..NListeners
  /\ NoPort \notin Ports /\ NoSocket \notin Sockets
  /\ FreeSlot \in [port : Ports \cup {NoPort}, fd : Sockets \cup {NoSocket}, users : Nat, idle : 0..Grace]
  /\ NoPath \in [is : {"closed", "accepting", "connecting", "open"},
                 fd : Sockets \cup {NoSocket}, slot : 0..NListeners]
BY ListenAssumption DEF ListenSlots, FreeSlot, NoPath

LEMMA UsersFinite ==
  ASSUME NEW ps, NEW s
  PROVE  IsFiniteSet(UsersOf(ps, s)) /\ Cardinality(UsersOf(ps, s)) \in Nat
<1>1. UsersOf(ps, s) \subseteq Daemons BY DEF UsersOf
<1> QED BY <1>1, FS_Subset, FS_CardinalityType, ListenAssumption

LEMMA ReapIs ==
  ASSUME NEW ls \in ListenerTable
  PROVE  /\ ReapListeners(ls) \in ListenerTable
         /\ \A s \in ListenSlots :
              \/ ReapListeners(ls)[s] = ls[s]
              \/ /\ ls[s].port # NoPort /\ ls[s].users = 0 /\ ls[s].idle >= Grace
                 /\ ReapListeners(ls)[s] = FreeSlot
BY ListenFacts DEF ReapListeners, ListenerTable

\* Reaping keeps what the table says of those it leaves.
LEMMA ReapKeeps ==
  ASSUME NEW ls \in ListenerTable, NEW ps \in PathTable
  PROVE  /\ SlotsSound(ls, ps) => SlotsSound(ReapListeners(ls), ps)
         /\ SocketsApart(ls, ps) => SocketsApart(ReapListeners(ls), ps)
         /\ Stays(ls, ReapListeners(ls))
<1> DEFINE ms == ReapListeners(ls)
<1>1. /\ ms \in ListenerTable
      /\ \A s \in ListenSlots :
           \/ ms[s] = ls[s]
           \/ ls[s].port # NoPort /\ ls[s].users = 0 /\ ls[s].idle >= Grace /\ ms[s] = FreeSlot
  BY ReapIs
<1>2. FreeSlot.port = NoPort /\ FreeSlot.fd = NoSocket /\ FreeSlot.users = 0 BY DEF FreeSlot
<1> HIDE DEF ms
<1>3. \A s \in ListenSlots : ls[s].idle \in Nat /\ ls[s].users \in Nat
  BY ListenFacts DEF ListenerTable
<1>4. ASSUME SlotsSound(ls, ps) PROVE SlotsSound(ms, ps)
  <2>1. \A s \in ListenSlots : ms[s].users = ls[s].users BY <1>1, <1>2
  <2>2. \A s \in ListenSlots : ms[s].port # NoPort => ms[s].port = ls[s].port BY <1>1, <1>2
  <2> QED BY <1>1, <1>2, <1>4, <2>1, <2>2 DEF SlotsSound
<1>5. ASSUME SocketsApart(ls, ps) PROVE SocketsApart(ms, ps)
  <2>1. \A s \in ListenSlots : ms[s].fd = NoSocket \/ ms[s].fd = ls[s].fd BY <1>1, <1>2
  <2> QED BY <1>5, <2>1 DEF SocketsApart
<1>6. Stays(ls, ms)
  <2> SUFFICES ASSUME NEW s \in ListenSlots, ls[s].users > 0 \/ ls[s].idle < Grace
               PROVE  ms[s] = ls[s]
    BY <1>3 DEF Stays
  <2> QED BY <1>1, <1>3, ListenFacts
<1> QED BY <1>4, <1>5, <1>6 DEF ms

LEMMA StaysOn ==
  ASSUME NEW ls \in ListenerTable, NEW ms \in ListenerTable, NEW ns \in ListenerTable,
         Stays(ls, ms), Stays(ms, ns)
  PROVE  Stays(ls, ns)
<1> SUFFICES ASSUME NEW s \in ListenSlots, ls[s].port # NoPort, ls[s].users > 0 \/ ls[s].idle < Grace
             PROVE  /\ ns[s].port = ls[s].port
                    /\ ns[s].users > 0 \/ ns[s].idle = 0 \/ (ls[s].users = 0 /\ ns[s].idle = ls[s].idle)
  BY DEF Stays
<1>1. /\ ms[s].port = ls[s].port
      /\ ms[s].users > 0 \/ ms[s].idle = 0 \/ (ls[s].users = 0 /\ ms[s].idle = ls[s].idle)
  BY DEF Stays
<1>2. ls[s].users \in Nat /\ ms[s].users \in Nat BY DEF ListenerTable
<1>3. ms[s].users > 0 \/ ms[s].idle < Grace BY <1>1, <1>2, ListenFacts
<1>4. /\ ns[s].port = ms[s].port
      /\ ns[s].users > 0 \/ ns[s].idle = 0 \/ (ms[s].users = 0 /\ ns[s].idle = ms[s].idle)
  BY <1>1, <1>3 DEF Stays
<1> QED BY <1>1, <1>2, <1>4

LEMMA StaysSame ==
  ASSUME NEW ls \in ListenerTable
  PROVE  Stays(ls, ls)
<1>1. \A s \in ListenSlots : ls[s].users \in Nat BY DEF ListenerTable
<1> QED BY <1>1 DEF Stays

\* One path comes to a listener, leaves it, or stays where it was.
LEMMA UsersCome ==
  ASSUME NEW ps, NEW qs, NEW d \in Daemons, NEW s, ps[d].slot # s, qs[d].slot = s,
         \A e \in Daemons : e # d => qs[e].slot = ps[e].slot
  PROVE  Cardinality(UsersOf(qs, s)) = Cardinality(UsersOf(ps, s)) + 1
<1> DEFINE P == UsersOf(ps, s)
<1>1. UsersOf(qs, s) = P \cup {d} /\ d \notin P BY DEF UsersOf
<1>2. IsFiniteSet(P) BY UsersFinite
<1> HIDE DEF P
<1> QED BY <1>1, <1>2, CountOne DEF P

LEMMA UsersGo ==
  ASSUME NEW ps, NEW qs, NEW d \in Daemons, NEW s, ps[d].slot = s, qs[d].slot # s,
         \A e \in Daemons : e # d => qs[e].slot = ps[e].slot
  PROVE  Cardinality(UsersOf(qs, s)) = Cardinality(UsersOf(ps, s)) - 1
<1> DEFINE P == UsersOf(ps, s)
<1>1. UsersOf(qs, s) = P \ {d} /\ d \in P BY DEF UsersOf
<1>2. IsFiniteSet(P) BY UsersFinite
<1> HIDE DEF P
<1> QED BY <1>1, <1>2, CountOne DEF P

LEMMA UsersStay ==
  ASSUME NEW ps, NEW qs, NEW d \in Daemons, NEW s, ps[d].slot = s <=> qs[d].slot = s,
         \A e \in Daemons : e # d => qs[e].slot = ps[e].slot
  PROVE  UsersOf(qs, s) = UsersOf(ps, s)
BY DEF UsersOf

\* listener_put by the path that closes.
LEMMA PutKeeps ==
  ASSUME NEW ls \in ListenerTable, NEW ps \in PathTable, NEW d \in Daemons, ps[d].slot # 0,
         SlotsSound(ls, ps), SocketsApart(ls, ps), PathsSound(ps)
  PROVE  LET ms == PutListener(ls, ps[d].slot)
             qs == [ps EXCEPT ![d] = NoPath]
         IN  /\ ms \in ListenerTable /\ qs \in PathTable
             /\ SlotsSound(ms, qs) /\ SocketsApart(ms, qs) /\ PathsSound(qs) /\ Stays(ls, ms)
<1>1. PICK s \in ListenSlots : s = ps[d].slot BY DEF PathTable, ListenSlots
<1>2. PICK qs : qs = [ps EXCEPT ![d] = NoPath] OBVIOUS
<1>3. qs \in PathTable BY <1>2, ListenFacts DEF PathTable
<1>4. \A e \in Daemons : qs[e] = IF e = d THEN NoPath ELSE ps[e] BY <1>2 DEF PathTable
<1>5. NoPath.is = "closed" /\ NoPath.fd = NoSocket /\ NoPath.slot = 0 BY DEF NoPath
<1>6. s # 0 /\ qs[d].slot = 0 /\ \A e \in Daemons : e # d => qs[e].slot = ps[e].slot
  BY <1>1, <1>4, <1>5, ListenFacts
<1>7. Cardinality(UsersOf(qs, s)) = Cardinality(UsersOf(ps, s)) - 1
  <2>1. ps[d].slot = s /\ qs[d].slot # s BY <1>1, <1>6
  <2> QED BY <1>6, <2>1, UsersGo
<1>8. \A t \in ListenSlots : t # s => Cardinality(UsersOf(qs, t)) = Cardinality(UsersOf(ps, t))
  <2> SUFFICES ASSUME NEW t \in ListenSlots, t # s
               PROVE  UsersOf(qs, t) = UsersOf(ps, t)
    OBVIOUS
  <2>1. ps[d].slot # t /\ qs[d].slot # t BY <1>1, <1>6, ListenFacts
  <2> QED BY <1>6, <2>1, UsersStay
<1>9. /\ ls[s].users \in Nat /\ ls[s].users = Cardinality(UsersOf(ps, s))
      /\ Cardinality(UsersOf(qs, s)) \in Nat
  BY UsersFinite DEF ListenerTable, SlotsSound
<1>10. ls[s].users - 1 \in Nat /\ ls[s].users > 0 /\ ls[s].port # NoPort
  BY <1>7, <1>9 DEF SlotsSound
<1>11. PICK u \in Nat : u = ls[s].users - 1 BY <1>10
<1>12. PICK i \in 0..Grace : i = IF ls[s].users = 1 THEN 0 ELSE ls[s].idle
  BY ListenFacts DEF ListenerTable
<1>13. PICK ns : ns = [ls EXCEPT ![s].users = u, ![s].idle = i] OBVIOUS
<1>14. PutListener(ls, s) = ReapListeners(ns) BY <1>11, <1>12, <1>13 DEF PutListener, ListenerTable
<1>15. /\ ns \in ListenerTable
       /\ ns[s].port = ls[s].port /\ ns[s].fd = ls[s].fd /\ ns[s].users = u /\ ns[s].idle = i
       /\ \A t \in ListenSlots : t # s => ns[t] = ls[t]
  BY <1>13 DEF ListenerTable
<1>16. SlotsSound(ns, qs)
  <2>1. \A t \in ListenSlots : ns[t].port = ls[t].port /\ ns[t].fd = ls[t].fd BY <1>15
  <2>2. \A t \in ListenSlots : ns[t].users = Cardinality(UsersOf(qs, t))
    BY <1>7, <1>8, <1>9, <1>11, <1>15 DEF SlotsSound
  <2>3. \A t \in ListenSlots : ns[t].users > 0 => ns[t].port # NoPort
    BY <1>10, <1>15 DEF SlotsSound
  <2> QED BY <2>1, <2>2, <2>3 DEF SlotsSound
<1>17. SocketsApart(ns, qs)
  <2>1. \A t \in ListenSlots : ns[t].fd = ls[t].fd BY <1>15
  <2>2. \A e \in Daemons : qs[e].fd = NoSocket \/ (e # d /\ qs[e].fd = ps[e].fd) BY <1>4, <1>5
  <2> QED BY <2>1, <2>2 DEF SocketsApart
<1>18. PathsSound(qs) BY <1>4, <1>5 DEF PathsSound
<1>19. Stays(ls, ns)
  <2>1. u = 0 => i = 0 BY <1>9, <1>11, <1>12
  <2>2. \A t \in ListenSlots : ls[t].users \in Nat BY DEF ListenerTable
  <2> QED BY <1>11, <1>15, <2>1, <2>2 DEF Stays
<1>20. /\ ReapListeners(ns) \in ListenerTable /\ SlotsSound(ReapListeners(ns), qs)
       /\ SocketsApart(ReapListeners(ns), qs) /\ Stays(ns, ReapListeners(ns))
  BY <1>3, <1>15, <1>16, <1>17, ReapIs, ReapKeeps
<1>21. Stays(ls, ReapListeners(ns)) BY <1>15, <1>19, <1>20, StaysOn
<1> QED BY <1>1, <1>2, <1>3, <1>14, <1>18, <1>20, <1>21

\* listener_get, where the port has a listener, and where it is made.
Entered(ps, d, s) == [ps EXCEPT ![d] = [is |-> "accepting", fd |-> NoSocket, slot |-> s]]

LEMMA EnterIs ==
  ASSUME NEW ps \in PathTable, NEW d \in Daemons, ps[d].is = "closed", NEW s \in ListenSlots, PathsSound(ps)
  PROVE  /\ Entered(ps, d, s) \in PathTable /\ PathsSound(Entered(ps, d, s))
         /\ \A e \in Daemons : Entered(ps, d, s)[e].fd = ps[e].fd
         /\ LET qs == Entered(ps, d, s)
            IN  /\ Cardinality(UsersOf(qs, s)) = Cardinality(UsersOf(ps, s)) + 1
                /\ \A t \in ListenSlots : t # s =>
                     Cardinality(UsersOf(qs, t)) = Cardinality(UsersOf(ps, t))
<1>1. PICK r : r = [is |-> "accepting", fd |-> NoSocket, slot |-> s] OBVIOUS
<1>2. r \in [is : {"closed", "accepting", "connecting", "open"},
             fd : Sockets \cup {NoSocket}, slot : 0..NListeners]
  BY <1>1, ListenFacts
<1>3. r.is = "accepting" /\ r.fd = NoSocket /\ r.slot = s BY <1>1
<1>4. PICK qs : qs = [ps EXCEPT ![d] = r] OBVIOUS
<1>5. qs \in PathTable /\ \A e \in Daemons : qs[e] = IF e = d THEN r ELSE ps[e]
  BY <1>2, <1>4 DEF PathTable
<1>6. ps[d].slot = 0 /\ ps[d].fd = NoSocket BY DEF PathsSound
<1>7. s # 0 BY ListenFacts
<1>8. PathsSound(qs) BY <1>3, <1>5, <1>7 DEF PathsSound
<1>9. \A e \in Daemons : qs[e].fd = ps[e].fd BY <1>3, <1>5, <1>6
<1>10. qs[d].slot = s /\ \A e \in Daemons : e # d => qs[e].slot = ps[e].slot BY <1>3, <1>5
<1>11. Cardinality(UsersOf(qs, s)) = Cardinality(UsersOf(ps, s)) + 1
  <2>1. ps[d].slot # s /\ qs[d].slot = s BY <1>6, <1>7, <1>10
  <2> QED BY <1>10, <2>1, UsersCome
<1>12. \A t \in ListenSlots : t # s => Cardinality(UsersOf(qs, t)) = Cardinality(UsersOf(ps, t))
  <2> SUFFICES ASSUME NEW t \in ListenSlots, t # s
               PROVE  UsersOf(qs, t) = UsersOf(ps, t)
    OBVIOUS
  <2>1. ps[d].slot # t /\ qs[d].slot # t BY <1>6, <1>10, ListenFacts
  <2> QED BY <1>10, <2>1, UsersStay
<1> QED BY <1>1, <1>4, <1>5, <1>8, <1>9, <1>11, <1>12 DEF Entered

LEMMA JoinKeeps ==
  ASSUME NEW ls \in ListenerTable, NEW ps \in PathTable, NEW d \in Daemons, ps[d].is = "closed",
         SlotsSound(ls, ps), SocketsApart(ls, ps), PathsSound(ps),
         NEW s \in ListenSlots, ls[s].port # NoPort
  PROVE  LET ms == [ls EXCEPT ![s].users = @ + 1]
             qs == Entered(ps, d, s)
         IN  /\ ms \in ListenerTable /\ qs \in PathTable
             /\ SlotsSound(ms, qs) /\ SocketsApart(ms, qs) /\ PathsSound(qs) /\ Stays(ls, ms)
<1>1. PICK qs : qs = Entered(ps, d, s) OBVIOUS
<1>2. /\ qs \in PathTable /\ PathsSound(qs) /\ \A e \in Daemons : qs[e].fd = ps[e].fd
      /\ Cardinality(UsersOf(qs, s)) = Cardinality(UsersOf(ps, s)) + 1
      /\ \A t \in ListenSlots : t # s => Cardinality(UsersOf(qs, t)) = Cardinality(UsersOf(ps, t))
  BY <1>1, EnterIs
<1>3. \A t \in ListenSlots : ls[t].users \in Nat BY DEF ListenerTable
<1>4. PICK u \in Nat : u = ls[s].users + 1 BY <1>3
<1>5. PICK ms : ms = [ls EXCEPT ![s].users = u] OBVIOUS
<1>6. ms = [ls EXCEPT ![s].users = @ + 1] BY <1>4, <1>5 DEF ListenerTable
<1>7. /\ ms \in ListenerTable
      /\ ms[s].port = ls[s].port /\ ms[s].fd = ls[s].fd /\ ms[s].users = u
      /\ \A t \in ListenSlots : t # s => ms[t] = ls[t]
  BY <1>4, <1>5 DEF ListenerTable
<1>8. \A t \in ListenSlots : ms[t].port = ls[t].port /\ ms[t].fd = ls[t].fd BY <1>7
<1>9. SlotsSound(ms, qs)
  <2>1. \A t \in ListenSlots : ms[t].users = Cardinality(UsersOf(qs, t))
    BY <1>2, <1>4, <1>7 DEF SlotsSound
  <2>2. \A t \in ListenSlots : ms[t].users > 0 => ms[t].port # NoPort BY <1>7 DEF SlotsSound
  <2> QED BY <1>8, <2>1, <2>2 DEF SlotsSound
<1>10. SocketsApart(ms, qs) BY <1>2, <1>8 DEF SocketsApart
<1>11. Stays(ls, ms) BY <1>3, <1>4, <1>7 DEF Stays
<1> QED BY <1>1, <1>2, <1>6, <1>7, <1>9, <1>10, <1>11

\* A socket nobody has.
LEMMA FreshSocket ==
  ASSUME NEW ls, NEW ps, NEW f \in Sockets \ SocketsOf(ls, ps)
  PROVE  /\ f # NoSocket /\ \A s \in ListenSlots : ls[s].fd # f
         /\ \A d \in Daemons : ps[d].fd # f
BY ListenFacts DEF SocketsOf

\* A slot, a port that has no listener and a socket nobody has.
CanMake(ls, ps, s, q, f) ==
  /\ s \in ListenSlots /\ q \in Ports /\ f \in Sockets
  /\ ls[s].port = NoPort /\ \A t \in ListenSlots : ls[t].port # q
  /\ \A t \in ListenSlots : ls[t].fd # f
  /\ \A e \in Daemons : ps[e].fd # f

LEMMA MakeKeeps ==
  ASSUME NEW ls \in ListenerTable, NEW ps \in PathTable, NEW d \in Daemons, NEW s, NEW q, NEW f,
         ps[d].is = "closed", SlotsSound(ls, ps), SocketsApart(ls, ps), PathsSound(ps),
         CanMake(ls, ps, s, q, f)
  PROVE  LET ms == [ls EXCEPT ![s] = [port |-> q, fd |-> f, users |-> 1, idle |-> Grace]]
             qs == Entered(ps, d, s)
         IN  /\ ms \in ListenerTable /\ qs \in PathTable
             /\ SlotsSound(ms, qs) /\ SocketsApart(ms, qs) /\ PathsSound(qs) /\ Stays(ls, ms)
<1> USE DEF CanMake
<1>1. PICK qs : qs = Entered(ps, d, s) OBVIOUS
<1>2. /\ qs \in PathTable /\ PathsSound(qs) /\ \A e \in Daemons : qs[e].fd = ps[e].fd
      /\ Cardinality(UsersOf(qs, s)) = Cardinality(UsersOf(ps, s)) + 1
      /\ \A t \in ListenSlots : t # s => Cardinality(UsersOf(qs, t)) = Cardinality(UsersOf(ps, t))
  BY <1>1, EnterIs
<1>3. ls[s].users = 0 /\ \A t \in ListenSlots : ls[t].users \in Nat
  BY DEF ListenerTable, SlotsSound
<1>4. PICK r : r = [port |-> q, fd |-> f, users |-> 1, idle |-> Grace] OBVIOUS
<1>5. r \in [port : Ports \cup {NoPort}, fd : Sockets \cup {NoSocket}, users : Nat, idle : 0..Grace]
  BY <1>4, ListenFacts
<1>6. r.port = q /\ r.fd = f /\ r.users = 1 BY <1>4
<1>7. PICK ms : ms = [ls EXCEPT ![s] = r] OBVIOUS
<1>8. ms \in ListenerTable /\ \A t \in ListenSlots : ms[t] = IF t = s THEN r ELSE ls[t]
  BY <1>5, <1>7 DEF ListenerTable
<1>9. q # NoPort /\ f # NoSocket BY ListenFacts
<1>10. SlotsSound(ms, qs)
  <2>1. \A t \in ListenSlots : ms[t].users = Cardinality(UsersOf(qs, t))
    BY <1>2, <1>3, <1>6, <1>8 DEF SlotsSound
  <2>2. \A t \in ListenSlots : ms[t].port = NoPort <=> ms[t].fd = NoSocket
    BY <1>6, <1>8, <1>9 DEF SlotsSound
  <2>3. \A t \in ListenSlots : ms[t].users > 0 => ms[t].port # NoPort
    BY <1>6, <1>8, <1>9 DEF SlotsSound
  <2>4. \A t, v \in ListenSlots : ms[t].port = ms[v].port /\ ms[t].port # NoPort => t = v
    BY <1>6, <1>8 DEF SlotsSound
  <2> QED BY <2>1, <2>2, <2>3, <2>4 DEF SlotsSound
<1>11. SocketsApart(ms, qs)
  <2>1. \A t \in ListenSlots : ms[t].fd = IF t = s THEN f ELSE ls[t].fd BY <1>6, <1>8
  <2> QED BY <1>2, <2>1 DEF SocketsApart
<1>12. Stays(ls, ms) BY <1>3, <1>8 DEF Stays
<1> QED BY <1>1, <1>2, <1>4, <1>7, <1>8, <1>10, <1>11, <1>12

\* A path that takes a socket or gives one back, and keeps its listener.
PathRecord == [is : {"closed", "accepting", "connecting", "open"},
               fd : Sockets \cup {NoSocket}, slot : 0..NListeners]
PathFits(ls, ps, d, r) ==
  /\ r \in PathRecord /\ r.slot = ps[d].slot
  /\ r.fd # NoSocket <=> r.is \in {"connecting", "open"}
  /\ r.is \in {"closed", "connecting"} => r.slot = 0
  /\ r.is = "accepting" => r.slot # 0
  /\ r.fd \in {NoSocket, ps[d].fd} \/ r.fd \notin SocketsOf(ls, ps)

LEMMA PathKeeps ==
  ASSUME NEW ls \in ListenerTable, NEW ps \in PathTable, NEW d \in Daemons, NEW r,
         SlotsSound(ls, ps), SocketsApart(ls, ps), PathsSound(ps), PathFits(ls, ps, d, r)
  PROVE  LET qs == [ps EXCEPT ![d] = r]
         IN  qs \in PathTable /\ SlotsSound(ls, qs) /\ SocketsApart(ls, qs) /\ PathsSound(qs)
<1>1. PICK qs : qs = [ps EXCEPT ![d] = r] OBVIOUS
<1>2. qs \in PathTable /\ \A e \in Daemons : qs[e] = IF e = d THEN r ELSE ps[e]
  BY <1>1 DEF PathTable, PathFits, PathRecord
<1>3. \A s : UsersOf(qs, s) = UsersOf(ps, s) BY <1>2 DEF UsersOf, PathFits
<1>4. SlotsSound(ls, qs) BY <1>3 DEF SlotsSound
<1>5. SocketsApart(ls, qs)
  <2>1. \A s \in ListenSlots : ls[s].fd = r.fd => ls[s].fd = NoSocket
    BY DEF PathFits, SocketsApart, SocketsOf
  <2>2. \A e \in Daemons : ps[e].fd = r.fd /\ r.fd # NoSocket => e = d
    BY DEF PathFits, SocketsApart, SocketsOf
  <2> QED BY <1>2, <2>1, <2>2 DEF SocketsApart
<1>6. PathsSound(qs) BY <1>2 DEF PathsSound, PathFits
<1> QED BY <1>1, <1>2, <1>4, <1>5, <1>6

\* A listener some path has come by is in use.
LEMMA UsedBySome ==
  ASSUME NEW ls \in ListenerTable, NEW ps \in PathTable, SlotsSound(ls, ps),
         NEW d \in Daemons, ps[d].slot # 0
  PROVE  ps[d].slot \in ListenSlots /\ ls[ps[d].slot].users > 0
<1>1. PICK s \in ListenSlots : s = ps[d].slot BY DEF PathTable, ListenSlots
<1>2. d \in UsersOf(ps, s) BY <1>1 DEF UsersOf
<1>3. IsFiniteSet(UsersOf(ps, s)) BY UsersFinite
<1>4. Cardinality(UsersOf(ps, s)) > 0 BY <1>2, <1>3, CountOne
<1> QED BY <1>1, <1>4 DEF SlotsSound

\* A step that disturbs no listener in use or within its grace leaves every port
\* answering that has to answer.
LEMMA AnswersKept ==
  ASSUME ListenInv, listeners' \in ListenerTable, net' \in PathTable,
         SlotsSound(listeners', net'), Stays(listeners, listeners'), Tracked
  PROVE  unused' \in [Ports -> 0..Grace] /\ Answers(listeners', unused')
<1> USE DEF ListenInv
<1>1. unused' \in [Ports -> 0..Grace] BY ListenFacts DEF Tracked
<1>2. ASSUME NEW q \in Ports, unused'[q] < Grace
      PROVE  \E s \in ListenSlots :
               listeners'[s].port = q /\ (listeners'[s].users > 0 \/ listeners'[s].idle <= unused'[q])
  <2>1. q # NoPort /\ unused'[q] \in Nat /\ unused[q] \in Nat BY <1>1, ListenFacts
  <2>2. CASE ServedBy(q)' # {}
    <3>1. PICK d \in Daemons : net'[d].slot # 0 /\ listeners'[net'[d].slot].port = q
      BY <2>2 DEF ServedBy
    <3> QED BY <3>1, UsedBySome
  <2>3. CASE ServedBy(q) # {}
    <3>1. PICK d \in Daemons : net[d].slot # 0 /\ listeners[net[d].slot].port = q
      BY <2>3 DEF ServedBy
    <3>2. PICK s \in ListenSlots : s = net[d].slot /\ listeners[s].port = q /\ listeners[s].users > 0
      BY <3>1, UsedBySome
    <3>3. listeners'[s].port = q /\ (listeners'[s].users > 0 \/ listeners'[s].idle = 0)
      BY <2>1, <3>2 DEF Stays
    <3> QED BY <2>1, <3>3
  <2>4. CASE ServedBy(q)' = {} /\ ServedBy(q) = {}
    <3>1. unused'[q] = unused[q] BY <2>4 DEF Tracked
    <3>2. PICK s \in ListenSlots :
            listeners[s].port = q /\ (listeners[s].users > 0 \/ listeners[s].idle <= unused[q])
      BY <1>2, <3>1 DEF Answers
    <3>3. listeners[s].idle \in Nat /\ listeners[s].users \in Nat BY ListenFacts DEF ListenerTable
    <3>4. listeners[s].users > 0 \/ listeners[s].idle < Grace BY <1>2, <2>1, <3>1, <3>2, <3>3, ListenFacts
    <3>5. /\ listeners'[s].port = q
          /\ \/ listeners'[s].users > 0 \/ listeners'[s].idle = 0
             \/ listeners[s].users = 0 /\ listeners'[s].idle = listeners[s].idle
      BY <2>1, <3>2, <3>4 DEF Stays
    <3> QED BY <2>1, <3>1, <3>2, <3>3, <3>5
  <2> QED BY <2>2, <2>3, <2>4
<1> QED BY <1>1, <1>2 DEF Answers

LEMMA LaterIs ==
  ASSUME NEW t \in 0..Grace
  PROVE  /\ Later(t) \in 0..Grace
         /\ Later(t) < Grace => t < Grace
         /\ \A u \in 0..Grace : t <= u => Later(t) <= Later(u)
BY ListenFacts DEF Later

\* Time takes nothing: who was used longer ago than a listener idles still is.
LEMMA PassesKeeps ==
  ASSUME ListenInv, Passes
  PROVE  ListenInv'
<1> USE DEF ListenInv
<1>1. PICK ms : ms = [s \in ListenSlots |-> [listeners[s] EXCEPT !.idle = Later(@)]] OBVIOUS
<1>2. listeners' = ms /\ net' = net BY <1>1 DEF Passes
<1>3. ASSUME NEW s \in ListenSlots
      PROVE  /\ ms[s].port = listeners[s].port /\ ms[s].fd = listeners[s].fd
             /\ ms[s].users = listeners[s].users /\ ms[s].idle = Later(listeners[s].idle)
             /\ ms[s] \in [port : Ports \cup {NoPort}, fd : Sockets \cup {NoSocket},
                           users : Nat, idle : 0..Grace]
  <2>1. PICK i \in 0..Grace : i = Later(listeners[s].idle) BY LaterIs DEF ListenerTable
  <2>2. ms[s] = [listeners[s] EXCEPT !.idle = i] BY <1>1, <2>1
  <2> QED BY <2>1, <2>2 DEF ListenerTable
<1>4. ms \in ListenerTable BY <1>1, <1>3 DEF ListenerTable
<1>5. SlotsSound(ms, net) BY <1>3 DEF SlotsSound
<1>6. SocketsApart(ms, net) BY <1>3 DEF SocketsApart
<1>7. unused' \in [Ports -> 0..Grace]
  <2>1. \A q \in Ports : Later(unused[q]) \in 0..Grace BY LaterIs
  <2> QED BY <2>1, ListenFacts DEF Passes
<1>8. ASSUME NEW q \in Ports, unused'[q] < Grace
      PROVE  \E s \in ListenSlots : ms[s].port = q /\ (ms[s].users > 0 \/ ms[s].idle <= unused'[q])
  <2>1. CASE ServedBy(q) # {}
    <3>1. PICK d \in Daemons : net[d].slot # 0 /\ listeners[net[d].slot].port = q
      BY <2>1 DEF ServedBy
    <3> QED BY <1>3, <3>1, UsedBySome
  <2>2. CASE ServedBy(q) = {}
    <3>1. unused'[q] = Later(unused[q]) /\ unused[q] \in 0..Grace BY <2>2 DEF Passes
    <3>2. unused[q] < Grace BY <1>8, <3>1, LaterIs
    <3>3. PICK s \in ListenSlots :
            listeners[s].port = q /\ (listeners[s].users > 0 \/ listeners[s].idle <= unused[q])
      BY <3>2 DEF Answers
    <3>4. listeners[s].idle \in 0..Grace BY DEF ListenerTable
    <3>5. listeners[s].idle <= unused[q] => Later(listeners[s].idle) <= Later(unused[q])
      BY <3>1, <3>4, LaterIs
    <3> QED BY <1>3, <3>1, <3>3, <3>5
  <2> QED BY <2>1, <2>2
<1>9. Answers(ms, unused') BY <1>8 DEF Answers
<1> QED BY <1>2, <1>4, <1>5, <1>6, <1>7, <1>9

\* What an operation keeps of the tables, ports aside.
TablesKept(ms, qs) ==
  /\ ms \in ListenerTable /\ qs \in PathTable
  /\ SlotsSound(ms, qs) /\ SocketsApart(ms, qs) /\ PathsSound(qs) /\ Stays(listeners, ms)

LEMMA ListenKeeps ==
  ASSUME ListenInv, NEW d \in Daemons, NEW q \in Ports, Listen(d, q)
  PROVE  TablesKept(listeners', net')
<1> USE DEF ListenInv
<1>1. PICK ls : ls = ReapListeners(listeners) OBVIOUS
<1>2. /\ ls \in ListenerTable /\ SlotsSound(ls, net) /\ SocketsApart(ls, net)
      /\ Stays(listeners, ls)
  BY <1>1, ReapIs, ReapKeeps
<1>3. net[d].is = "closed" BY DEF Listen
<1>4. CASE \E s \in ListenSlots :
             /\ ls[s].port = q /\ listeners' = [ls EXCEPT ![s].users = @ + 1]
             /\ net' = Entered(net, d, s)
  <2>1. PICK s \in ListenSlots :
          /\ ls[s].port = q /\ listeners' = [ls EXCEPT ![s].users = @ + 1]
          /\ net' = Entered(net, d, s)
    BY <1>4
  <2>2. ls[s].port # NoPort BY <2>1, ListenFacts
  <2>3. /\ listeners' \in ListenerTable /\ net' \in PathTable
        /\ SlotsSound(listeners', net') /\ SocketsApart(listeners', net') /\ PathsSound(net')
        /\ Stays(ls, listeners')
    BY <1>2, <1>3, <2>1, <2>2, JoinKeeps
  <2> QED BY <1>2, <2>3, StaysOn DEF TablesKept
<1>5. CASE /\ \A t \in ListenSlots : ls[t].port # q
           /\ \E s \in ListenSlots, f \in Sockets \ SocketsOf(ls, net) :
                /\ ls[s].port = NoPort
                /\ listeners' = [ls EXCEPT ![s] = [port |-> q, fd |-> f, users |-> 1, idle |-> Grace]]
                /\ net' = Entered(net, d, s)
  <2>1. PICK s \in ListenSlots, f \in Sockets \ SocketsOf(ls, net) :
          /\ ls[s].port = NoPort
          /\ listeners' = [ls EXCEPT ![s] = [port |-> q, fd |-> f, users |-> 1, idle |-> Grace]]
          /\ net' = Entered(net, d, s)
    BY <1>5
  <2>2. /\ f # NoSocket /\ \A t \in ListenSlots : ls[t].fd # f
        /\ \A e \in Daemons : net[e].fd # f
    BY FreshSocket
  <2>3. CanMake(ls, net, s, q, f) BY <1>5, <2>1, <2>2 DEF CanMake
  <2>4. /\ listeners' \in ListenerTable /\ net' \in PathTable
        /\ SlotsSound(listeners', net') /\ SocketsApart(listeners', net') /\ PathsSound(net')
        /\ Stays(ls, listeners')
    BY <1>2, <1>3, <2>1, <2>3, MakeKeeps
  <2> QED BY <1>2, <2>4, StaysOn DEF TablesKept
<1>6. CASE listeners' = ls /\ net' = net
  BY <1>2, <1>6 DEF TablesKept
<1> QED BY <1>1, <1>4, <1>5, <1>6 DEF Listen, Entered

LEMMA PathOnlyKeeps ==
  ASSUME ListenInv, NEW d \in Daemons, NEW r, PathFits(listeners, net, d, r),
         net' = [net EXCEPT ![d] = r], listeners' = listeners
  PROVE  TablesKept(listeners', net')
<1> USE DEF ListenInv
<1>1. /\ net' \in PathTable /\ SlotsSound(listeners, net') /\ SocketsApart(listeners, net')
      /\ PathsSound(net')
  BY PathKeeps
<1> QED BY <1>1, StaysSame DEF TablesKept

LEMMA AcceptKeeps ==
  ASSUME ListenInv, NEW d \in Daemons, Accept(d)
  PROVE  TablesKept(listeners', net')
<1> USE DEF ListenInv
<1>1. PICK f \in Sockets \ SocketsOf(listeners, net) :
        net' = [net EXCEPT ![d].is = "open", ![d].fd = f]
  BY DEF Accept
<1>2. PICK o \in PathRecord : o = net[d] BY DEF PathTable, PathRecord
<1>3. PICK r : r = [o EXCEPT !.is = "open", !.fd = f] OBVIOUS
<1>4. net' = [net EXCEPT ![d] = r]
  <2>1. net' = [net EXCEPT ![d] = [net[d] EXCEPT !.is = "open", !.fd = f]] BY <1>1 DEF PathTable
  <2> QED BY <1>2, <1>3, <2>1
<1>5. PathFits(listeners, net, d, r)
  <2>1. r \in PathRecord /\ r.is = "open" /\ r.fd = f /\ r.slot = net[d].slot
    BY <1>2, <1>3 DEF PathRecord
  <2> QED BY <2>1, ListenFacts DEF PathFits
<1> QED BY <1>4, <1>5, PathOnlyKeeps DEF Accept

LEMMA ConnectOutKeeps ==
  ASSUME ListenInv, NEW d \in Daemons, ConnectOut(d)
  PROVE  TablesKept(listeners', net')
<1> USE DEF ListenInv
<1>1. PICK f \in Sockets \ SocketsOf(listeners, net) :
        net' = [net EXCEPT ![d] = [is |-> "connecting", fd |-> f, slot |-> 0]]
  BY DEF ConnectOut
<1>2. PICK r : r = [is |-> "connecting", fd |-> f, slot |-> 0] OBVIOUS
<1>3. net[d].slot = 0 BY DEF ConnectOut, PathsSound
<1>4. PathFits(listeners, net, d, r) BY <1>2, <1>3, ListenFacts DEF PathFits, PathRecord
<1> QED BY <1>1, <1>2, <1>4, PathOnlyKeeps DEF ConnectOut

LEMMA ConnectedKeeps ==
  ASSUME ListenInv, NEW d \in Daemons, Connected(d)
  PROVE  TablesKept(listeners', net')
<1> USE DEF ListenInv
<1>1. PICK r : r = [is |-> "open", fd |-> net[d].fd, slot |-> net[d].slot] OBVIOUS
<1>2. net' = [net EXCEPT ![d] = r]
  <2>1. [net[d] EXCEPT !.is = "open"] = r BY <1>1 DEF PathTable
  <2>2. net' = [net EXCEPT ![d] = [net[d] EXCEPT !.is = "open"]] BY DEF Connected
  <2> QED BY <2>1, <2>2
<1>3. net[d].slot \in 0..NListeners /\ net[d].fd \in Sockets \cup {NoSocket} /\ net[d].fd # NoSocket
  BY DEF PathTable, Connected, PathsSound
<1>4. PathFits(listeners, net, d, r) BY <1>1, <1>3 DEF PathFits, PathRecord
<1> QED BY <1>2, <1>4, PathOnlyKeeps DEF Connected

\* The path is closed, and the listener it came by, if any, put.
LEMMA NoPathFits ==
  ASSUME NEW ls, NEW ps, NEW d \in Daemons, ps[d].slot = 0
  PROVE  PathFits(ls, ps, d, NoPath)
<1>1. NoPath \in PathRecord BY ListenFacts DEF PathRecord
<1>2. NoPath.is = "closed" /\ NoPath.fd = NoSocket /\ NoPath.slot = 0 BY DEF NoPath
<1> QED BY <1>1, <1>2 DEF PathFits

LEMMA NotConnectedKeeps ==
  ASSUME ListenInv, NEW d \in Daemons, NotConnected(d)
  PROVE  TablesKept(listeners', net')
<1> USE DEF ListenInv
<1>1. net[d].slot = 0 BY DEF NotConnected, PathsSound
<1> QED BY <1>1, NoPathFits, PathOnlyKeeps DEF NotConnected

LEMMA ClosingKeeps ==
  ASSUME ListenInv, NEW d \in Daemons, StopAccepting(d) \/ ClosePath(d)
  PROVE  TablesKept(listeners', net')
<1> USE DEF ListenInv
<1>1. net' = [net EXCEPT ![d] = NoPath] BY DEF StopAccepting, ClosePath
<1>2. CASE net[d].slot # 0
  <2>1. listeners' = PutListener(listeners, net[d].slot) BY <1>2 DEF StopAccepting, ClosePath
  <2> QED BY <1>1, <1>2, <2>1, PutKeeps DEF TablesKept
<1>3. CASE net[d].slot = 0
  <2>1. listeners' = ReapListeners(listeners) BY <1>3 DEF StopAccepting, ClosePath, PathsSound
  <2>2. PathFits(listeners, net, d, NoPath) BY <1>3, NoPathFits
  <2>3. /\ net' \in PathTable /\ SlotsSound(listeners, net') /\ SocketsApart(listeners, net')
        /\ PathsSound(net')
    BY <1>1, <2>2, PathKeeps
  <2> QED BY <2>1, <2>3, ReapIs, ReapKeeps DEF TablesKept
<1> QED BY <1>2, <1>3

LEMMA ListenStep ==
  ASSUME ListenInv, [ListenNext]_netVars
  PROVE  ListenInv'
<1>1. CASE Passes BY <1>1, PassesKeeps
<1>2. CASE UNCHANGED netVars BY <1>2 DEF netVars, ListenInv
<1>3. ASSUME NEW d \in Daemons, Tracked,
             \/ \E q \in Ports : Listen(d, q)
             \/ Accept(d) \/ StopAccepting(d) \/ ConnectOut(d) \/ Connected(d) \/ NotConnected(d)
             \/ ClosePath(d)
      PROVE  ListenInv'
  <2>1. TablesKept(listeners', net')
    BY <1>3, ListenKeeps, AcceptKeeps, ClosingKeeps, ConnectOutKeeps, ConnectedKeeps, NotConnectedKeeps
  <2>2. unused' \in [Ports -> 0..Grace] /\ Answers(listeners', unused')
    BY <1>3, <2>1, AnswersKept DEF TablesKept
  <2> QED BY <2>1, <2>2 DEF TablesKept, ListenInv
<1> QED BY <1>1, <1>2, <1>3 DEF ListenNext

LEMMA ListenStart ==
  ASSUME ListenInit
  PROVE  ListenInv
<1>1. /\ \A s \in ListenSlots : listeners[s] = FreeSlot
      /\ \A d \in Daemons : net[d] = NoPath
      /\ \A q \in Ports : unused[q] = Grace
  BY DEF ListenInit
<1>2. /\ FreeSlot.port = NoPort /\ FreeSlot.fd = NoSocket /\ FreeSlot.users = 0
      /\ NoPath.is = "closed" /\ NoPath.fd = NoSocket /\ NoPath.slot = 0
  BY DEF FreeSlot, NoPath
<1>3. listeners \in ListenerTable /\ net \in PathTable /\ unused \in [Ports -> 0..Grace]
  BY ListenFacts DEF ListenInit, ListenerTable, PathTable
<1>4. SlotsSound(listeners, net)
  <2>1. ASSUME NEW s \in ListenSlots PROVE Cardinality(UsersOf(net, s)) = 0
    <3>1. UsersOf(net, s) = {} BY <1>1, <1>2, ListenFacts DEF UsersOf
    <3> QED BY <3>1, FS_EmptySet
  <2> QED BY <1>1, <1>2, <2>1 DEF SlotsSound
<1>5. SocketsApart(listeners, net) BY <1>1, <1>2 DEF SocketsApart
<1>6. PathsSound(net) BY <1>1, <1>2 DEF PathsSound
<1>7. Answers(listeners, unused) BY <1>1, ListenFacts DEF Answers
<1> QED BY <1>3, <1>4, <1>5, <1>6, <1>7 DEF ListenInv

\* The inductive invariant of the network paths (nfm.c).
LEMMA ListenInvHolds == ListenSpec => []ListenInv
<1>1. ListenInit => ListenInv BY ListenStart
<1>2. ListenInv /\ [ListenNext]_netVars => ListenInv' BY ListenStep
<1> QED BY <1>1, <1>2, PTL DEF ListenSpec

\* The sockets a set of holders has, when each has one of its own.
LEMMA OneEach ==
  ASSUME NEW S, IsFiniteSet(S), NEW f, \A x, y \in S : f[x] = f[y] => x = y
  PROVE  /\ IsFiniteSet({f[x] : x \in S})
         /\ Cardinality({f[x] : x \in S}) = Cardinality(S)
<1>1. PICK T : T = {f[x] : x \in S} OBVIOUS
<1>2. PICK g : g = [x \in S |-> f[x]] OBVIOUS
<1>3. g \in [S -> T] BY <1>1, <1>2
<1>4. \A x, y \in S : g[x] = g[y] => x = y BY <1>2
<1>5. \A z \in T : \E x \in S : g[x] = z BY <1>1, <1>2
<1>6. g \in Bijection(S, T) BY <1>3, <1>4, <1>5 DEF Bijection, Injection, Surjection, IsInjective
<1>7. ExistsBijection(S, T) BY <1>6 DEF ExistsBijection
<1>8. IsFiniteSet(T) /\ Cardinality(T) = Cardinality(S) BY <1>7, FS_Bijection
<1> QED BY <1>1, <1>8

\* No socket is lost, and none is two holders'.
LEMMA SocketsCounted ==
  ASSUME ListenInv
  PROVE  Cardinality(SocketsOf(listeners, net)) =
           Cardinality({s \in ListenSlots : listeners[s].port # NoPort})
           + Cardinality({d \in Daemons : net[d].is \in {"connecting", "open"}})
<1> USE DEF ListenInv
<1>1. PICK S : S = {s \in ListenSlots : listeners[s].port # NoPort} OBVIOUS
<1>2. PICK D : D = {d \in Daemons : net[d].is \in {"connecting", "open"}} OBVIOUS
<1>3. PICK f : f = [s \in ListenSlots |-> listeners[s].fd] OBVIOUS
<1>4. PICK g : g = [d \in Daemons |-> net[d].fd] OBVIOUS
<1>5. IsFiniteSet(ListenSlots) BY FS_Interval, ListenAssumption DEF ListenSlots
<1>6. IsFiniteSet(S) /\ IsFiniteSet(D) BY <1>1, <1>2, <1>5, FS_Subset, ListenAssumption
<1>7. \A s \in ListenSlots : s \in S <=> f[s] # NoSocket BY <1>1, <1>3 DEF SlotsSound
<1>8. \A d \in Daemons : d \in D <=> g[d] # NoSocket BY <1>2, <1>4 DEF PathsSound
<1>9. \A x, y \in S : f[x] = f[y] => x = y BY <1>1, <1>3, <1>7 DEF SocketsApart
<1>10. \A x, y \in D : g[x] = g[y] => x = y BY <1>2, <1>4, <1>8 DEF SocketsApart
<1>11. PICK A : A = {f[x] : x \in S} OBVIOUS
<1>12. PICK B : B = {g[x] : x \in D} OBVIOUS
<1>13. IsFiniteSet(A) /\ Cardinality(A) = Cardinality(S) BY <1>6, <1>9, <1>11, OneEach
<1>14. IsFiniteSet(B) /\ Cardinality(B) = Cardinality(D) BY <1>6, <1>10, <1>12, OneEach
<1>15. A \cap B = {}
  <2>1. \A s \in S, d \in D : f[s] # g[d] BY <1>1, <1>2, <1>3, <1>4, <1>7 DEF SocketsApart
  <2> QED BY <1>11, <1>12, <2>1
<1>16. SocketsOf(listeners, net) = A \cup B
  <2>1. /\ {listeners[s].fd : s \in ListenSlots} = {f[s] : s \in ListenSlots}
        /\ {net[d].fd : d \in Daemons} = {g[d] : d \in Daemons}
    BY <1>3, <1>4
  <2>2. S \subseteq ListenSlots /\ D \subseteq Daemons BY <1>1, <1>2
  <2>3. {f[s] : s \in ListenSlots} \ {NoSocket} = A BY <1>7, <1>11, <2>2
  <2>4. {g[d] : d \in Daemons} \ {NoSocket} = B BY <1>8, <1>12, <2>2
  <2> QED BY <2>1, <2>3, <2>4 DEF SocketsOf
<1>17. Cardinality(A \cup B) = Cardinality(A) + Cardinality(B)
  <2>1. Cardinality(A \cup B) = Cardinality(A) + Cardinality(B) - Cardinality(A \cap B)
    BY <1>13, <1>14, FS_Union
  <2>2. Cardinality(A \cap B) = 0 BY <1>15, FS_EmptySet
  <2>3. Cardinality(A) \in Nat /\ Cardinality(B) \in Nat BY <1>13, <1>14, FS_CardinalityType
  <2> QED BY <2>1, <2>2, <2>3
<1> QED BY <1>1, <1>2, <1>13, <1>14, <1>16, <1>17

\* A port that was used within the grace has a listener, its users are counted,
\* a port has one, and no socket is lost or two paths' (nfm.c).
THEOREM ListenersKept == ListenSpec => []ListenersLast
<1>1. ListenInv => ListenersLast
  <2> SUFFICES ASSUME ListenInv PROVE ListenersLast OBVIOUS
  <2>1. \A q \in Ports : unused[q] < Grace => \E s \in ListenSlots : listeners[s].port = q
    BY DEF ListenInv, Answers
  <2>2. \A s \in ListenSlots : {d \in Daemons : net[d].slot = s} = UsersOf(net, s) BY DEF UsersOf
  <2>3. \A s \in ListenSlots :
          /\ listeners[s].users = Cardinality({d \in Daemons : net[d].slot = s})
          /\ listeners[s].port = NoPort <=> listeners[s].fd = NoSocket
          /\ listeners[s].users > 0 => listeners[s].port # NoPort
          /\ \A t \in ListenSlots \ {s} : listeners[s].port = listeners[t].port =>
               listeners[s].port = NoPort
    BY <2>2 DEF ListenInv, SlotsSound
  <2> QED BY <2>1, <2>3, SocketsCounted DEF ListenersLast
<1> QED BY <1>1, ListenInvHolds, PTL


(***************************************************************************)
(* The module directory.                                                   *)
(***************************************************************************)
\* What the directory's entries can be of, and where an image can be.
Known == Uploads \cup {r \in {Store[i] : i \in DOMAIN Store} : r.what = "module"}
Images == RamBlocks \cup {NoImage, InStore}
Entry == [name : {r.name : r \in Known}, revision : {r.revision : r \in Known},
          realtime : {r.realtime : r \in Known}, resident : BOOLEAN, image : Images,
          in_place : BOOLEAN, link_count : Nat]

\* What rv9_mod_entry_t and the links are, and that "in place" is in the store.
ModTypes ==
  /\ directory \in Seq(Entry)
  /\ found \in [Linkers -> 0..Len(directory)] /\ linked \in [Linkers -> 0..Len(directory)]
  /\ code \in [Linkers -> Images] /\ \A p \in Linkers : found[p] = 0 \/ linked[p] = 0
  /\ \A i \in DOMAIN directory : directory[i].in_place => directory[i].image = InStore

\* Whoever has an entry, and what is kept of a linker, an entry and two entries.
LinkersOf(i) == {p \in Linkers : linked[p] = i}
RunsWhereItIs(p) == linked[p] # 0 =>
  code[p] # NoImage /\ directory[linked[p]].image = code[p]
WellKept(i) ==
  LET e == directory[i]
  IN /\ e.link_count = Cardinality(LinkersOf(i))
     /\ IF e.resident THEN e.image \in RamBlocks ELSE e.image = NoImage <=> e.link_count = 0
     /\ e.realtime => e.image # InStore
OneModules(i, j) == directory[j].image = directory[i].image =>
                      directory[i].image \in {NoImage, InStore}
ModInv ==
  /\ ModTypes
  /\ \A p \in Linkers : RunsWhereItIs(p)
  /\ \A i \in DOMAIN directory : WellKept(i)
  /\ \A i \in DOMAIN directory, j \in DOMAIN directory : i # j => OneModules(i, j)

LEMMA ModInvHeld ==
  ASSUME ModInv
  PROVE  ImagesAreHeld
BY DEF ModInv, ImagesAreHeld, RunsWhereItIs, WellKept, OneModules, LinkersOf

LEMMA ModFacts ==
  /\ InStore \notin RamBlocks /\ NoImage \notin RamBlocks /\ NoImage # InStore
  /\ IsFiniteSet(Linkers)
BY ModAssumption

LEMMA LinkersFinite ==
  ASSUME NEW i
  PROVE  IsFiniteSet(LinkersOf(i)) /\ Cardinality(LinkersOf(i)) \in Nat
<1>1. LinkersOf(i) \subseteq Linkers BY DEF LinkersOf
<1> QED BY <1>1, ModFacts, FS_Subset, FS_CardinalityType

LEMMA StoredIs ==
  ASSUME NEW r \in Known
  PROVE  /\ Stored(r) \in Entry /\ Stored(r).image = NoImage /\ Stored(r).link_count = 0
         /\ Stored(r).resident = FALSE /\ Stored(r).in_place = FALSE
<1>1. /\ r.name \in {q.name : q \in Known} /\ r.revision \in {q.revision : q \in Known}
      /\ r.realtime \in {q.realtime : q \in Known} /\ NoImage \in Images
  BY DEF Images
<1> QED BY <1>1 DEF Stored, Entry

LEMMA LoadedIs ==
  ASSUME NEW r \in Known, NEW b \in RamBlocks
  PROVE  LET e == [Stored(r) EXCEPT !.resident = TRUE, !.image = b]
         IN  e \in Entry /\ e.image = b /\ e.link_count = 0 /\ e.resident = TRUE /\ e.in_place = FALSE
<1>1. PICK o \in Entry : o = Stored(r) /\ o.link_count = 0 /\ o.in_place = FALSE BY StoredIs
<1>2. b \in Images BY DEF Images
<1> QED BY <1>1, <1>2 DEF Entry

\* The scan at boot leaves entries nobody has linked, with no image.
LEMMA FirstEntries ==
  ASSUME ModInit
  PROVE  ModInv
<1>1. PICK n \in 0..Len(Store) : directory \in Scanned(n) BY DEF ModInit
<1>2. PICK sound : sound = {i \in 1..n : Store[i].what = "module"} OBVIOUS
<1>3. PICK c \in Nat : c = Cardinality(sound)
  <2>1. IsFiniteSet(1..n) BY FS_Interval
  <2>2. IsFiniteSet(sound) BY <1>2, <2>1, FS_Subset
  <2> QED BY <2>2, FS_CardinalityType
<1>10. PICK w \in Ascending(sound) : directory = [k \in DOMAIN w |-> Stored(Store[w[k]])]
  BY <1>1, <1>2 DEF Scanned
<1>4. w \in [1..c -> sound] /\ directory = [k \in 1..c |-> Stored(Store[w[k]])]
  BY <1>3, <1>10 DEF Ascending
<1>5. \A k \in 1..c : Store[w[k]] \in Known
  <2>1. sound \subseteq DOMAIN Store
    <3>1. Len(Store) \in Nat /\ DOMAIN Store = 1..Len(Store) BY ModAssumption
    <3> QED BY <1>2, <3>1
  <2> QED BY <1>2, <1>4, <2>1 DEF Known
<1>6. \A k \in 1..c : /\ directory[k] \in Entry /\ directory[k].image = NoImage
                     /\ directory[k].link_count = 0 /\ directory[k].resident = FALSE
                     /\ directory[k].in_place = FALSE
  BY <1>4, <1>5, StoredIs
<1>7. directory \in Seq(Entry) /\ DOMAIN directory = 1..c /\ Len(directory) = c BY <1>4, <1>6
<1>8. /\ \A p \in Linkers : linked[p] = 0 /\ found[p] = 0 /\ code[p] = NoImage
      /\ found \in [Linkers -> 0..c] /\ linked \in [Linkers -> 0..c] /\ code \in [Linkers -> Images]
  BY DEF ModInit, Images
<1>9. \A k \in 1..c : Cardinality(LinkersOf(k)) = 0
  <2>1. \A k \in 1..c : LinkersOf(k) = {} BY <1>8 DEF LinkersOf
  <2> QED BY <2>1, FS_EmptySet
<1> QED BY <1>6, <1>7, <1>8, <1>9, ModFacts
    DEF ModInv, ModTypes, RunsWhereItIs, WellKept, OneModules

(***************************************************************************)
(* A module arrives, and a link finds it.                                  *)
(***************************************************************************)
LEMMA LoadKeeps ==
  ASSUME ModInv, NEW r \in Uploads, LoadModule(r)
  PROVE  ModInv'
<1>1. PICK b \in RamBlocks \ InRam :
        directory' = Append(directory, [Stored(r) EXCEPT !.resident = TRUE, !.image = b])
  BY DEF LoadModule
<1>2. PICK e \in Entry : /\ e = [Stored(r) EXCEPT !.resident = TRUE, !.image = b]
                         /\ e.image = b /\ e.link_count = 0 /\ e.resident = TRUE /\ e.in_place = FALSE
  <2>1. r \in Known BY DEF Known
  <2> QED BY <2>1, LoadedIs
<1>3. PICK n \in Nat : n = Len(directory) /\ DOMAIN directory = 1..n BY DEF ModInv, ModTypes
<1>4. /\ directory' \in Seq(Entry) /\ Len(directory') = n + 1 /\ DOMAIN directory' = 1..n + 1
      /\ \A i \in 1..n : directory'[i] = directory[i]
      /\ directory'[n + 1] = e
  BY <1>1, <1>2, <1>3 DEF ModInv, ModTypes
<1>5. /\ found' = found /\ linked' = linked /\ code' = code BY DEF LoadModule
<1>6. found \in [Linkers -> 0..n] /\ linked \in [Linkers -> 0..n] /\ code \in [Linkers -> Images]
  BY <1>3 DEF ModInv, ModTypes
<1>7. ModTypes'
  <2>1. found' \in [Linkers -> 0..n + 1] /\ linked' \in [Linkers -> 0..n + 1] BY <1>5, <1>6
  <2>2. ASSUME NEW i \in 1..n + 1, directory'[i].in_place PROVE directory'[i].image = InStore
    <3>1. CASE i \in 1..n BY <1>3, <1>4, <2>2, <3>1 DEF ModInv, ModTypes
    <3>2. CASE i = n + 1 BY <1>2, <1>4, <2>2, <3>2
    <3> QED BY <3>1, <3>2
  <2>3. \A p \in Linkers : found'[p] = 0 \/ linked'[p] = 0
    BY <1>5 DEF ModInv, ModTypes
  <2> QED BY <1>4, <1>5, <1>6, <2>1, <2>2, <2>3 DEF ModTypes
<1>8. \A p \in Linkers : RunsWhereItIs(p)'
  BY <1>3, <1>4, <1>5, <1>6 DEF ModInv, RunsWhereItIs
<1>9. ASSUME NEW i \in 1..n + 1 PROVE WellKept(i)'
  <2>1. CASE i \in 1..n BY <1>3, <1>4, <1>5, <2>1 DEF ModInv, WellKept, LinkersOf
  <2>2. CASE i = n + 1
    <3>1. LinkersOf(i)' = {} BY <1>5, <1>6, <2>2 DEF LinkersOf
    <3>2. Cardinality(LinkersOf(i)') = 0 BY <3>1, FS_EmptySet
    <3>3. directory'[i] = e BY <1>4, <2>2
    <3> QED BY <1>2, <3>2, <3>3, ModFacts DEF WellKept
  <2> QED BY <2>1, <2>2
<1>10. ASSUME NEW i \in 1..n + 1, NEW j \in 1..n + 1, i # j PROVE OneModules(i, j)'
  <2>1. \A k \in 1..n : directory[k].image # b
    BY <1>1, <1>3, ModFacts DEF InRam
  <2>2. CASE i \in 1..n /\ j \in 1..n
    BY <1>3, <1>4, <1>10, <2>2 DEF ModInv, OneModules
  <2>3. CASE i = n + 1 /\ j \in 1..n BY <1>2, <1>4, <2>1, <2>3 DEF OneModules
  <2>4. CASE i \in 1..n /\ j = n + 1 BY <1>2, <1>4, <2>1, <2>4 DEF OneModules
  <2> QED BY <1>10, <2>2, <2>3, <2>4
<1> QED BY <1>4, <1>7, <1>8, <1>9, <1>10 DEF ModInv

LEMMA FindKeeps ==
  ASSUME ModInv, NEW p \in Linkers,
         (\E n : LookUp(p, n)) \/ LinkFails(p)
  PROVE  ModInv'
<1>1. PICK i \in 0..Len(directory) :
        /\ i = 0 \/ linked[p] = 0
        /\ found' = [found EXCEPT ![p] = i] /\ UNCHANGED <<directory, linked, code>>
  <2>1. CASE LinkFails(p)
    <3>1. 0 \in 0..Len(directory) BY DEF ModInv, ModTypes
    <3> QED BY <2>1, <3>1 DEF LinkFails
  <2>2. ASSUME NEW n, LookUp(p, n)
        PROVE  \E i \in 0..Len(directory) :
                 linked[p] = 0 /\ found' = [found EXCEPT ![p] = i] /\ UNCHANGED <<directory, linked, code>>
    <3>1. PICK i \in FindModule(n) : found' = [found EXCEPT ![p] = i] BY <2>2 DEF LookUp
    <3>2. i \in 0..Len(directory) BY <3>1 DEF FindModule, ModInv, ModTypes
    <3> QED BY <2>2, <3>1, <3>2 DEF LookUp
  <2> QED BY <2>1, <2>2
<1> QED BY <1>1 DEF ModInv, ModTypes, RunsWhereItIs, WellKept, OneModules, LinkersOf

(***************************************************************************)
(* A link is made or dropped: one entry changes, and one linker.           *)
(***************************************************************************)
\* The linkers of an entry are one more, or one less, where the linker in
\* question comes or goes.
LEMMA LinkersMove ==
  ASSUME ModInv, NEW p \in Linkers, NEW i \in 0..Len(directory),
         linked' = [linked EXCEPT ![p] = i], linked[p] = 0 \/ i = 0, linked[p] # i
  PROVE  \A k \in DOMAIN directory :
           Cardinality(LinkersOf(k)') =
             CASE k = i -> Cardinality(LinkersOf(k)) + 1
               [] k = linked[p] -> Cardinality(LinkersOf(k)) - 1
               [] OTHER -> Cardinality(LinkersOf(k))
<1>1. linked \in [Linkers -> 0..Len(directory)] /\ DOMAIN directory = 1..Len(directory)
  BY DEF ModInv, ModTypes
<1> TAKE k \in DOMAIN directory
<1>2. k # 0 BY <1>1
<1>3. CASE k = i
  <2>1. LinkersOf(k)' = LinkersOf(k) \cup {p} /\ p \notin LinkersOf(k)
    BY <1>1, <1>2, <1>3 DEF LinkersOf
  <2> QED BY <1>3, <2>1, LinkersFinite, FS_AddElement
<1>4. CASE k = linked[p]
  <2>1. LinkersOf(k)' = LinkersOf(k) \ {p} /\ p \in LinkersOf(k)
    BY <1>1, <1>2, <1>4 DEF LinkersOf
  <2>2. k # i BY <1>2, <1>4
  <2> QED BY <1>4, <2>1, <2>2, LinkersFinite, FS_RemoveElement
<1>5. CASE k # i /\ k # linked[p]
  <2>1. LinkersOf(k)' = LinkersOf(k) BY <1>1, <1>5 DEF LinkersOf
  <2> QED BY <1>5, <2>1
<1> QED BY <1>3, <1>4, <1>5

\* One entry is as said of it, and no other changes.
Becomes(i, e) ==
  /\ i \in DOMAIN directory /\ e \in Entry /\ directory' = [directory EXCEPT ![i] = e]

LEMMA OneBecomes ==
  ASSUME ModInv, NEW i, NEW e, Becomes(i, e)
  PROVE  /\ directory' \in Seq(Entry) /\ Len(directory') = Len(directory)
         /\ DOMAIN directory' = DOMAIN directory /\ directory'[i] = e
         /\ \A k \in DOMAIN directory : k # i => directory'[k] = directory[k]
BY DEF ModInv, ModTypes, Becomes

TakenAs(e, x) == [e EXCEPT !.image = x, !.link_count = @ + 1,
                           !.in_place = IF e.image # NoImage THEN @ ELSE x = InStore]

LEMMA LinkTakenIs ==
  ASSUME NEW e \in Entry, NEW x \in Images, NEW E, E = TakenAs(e, x)
  PROVE  /\ E \in Entry /\ E.image = x /\ E.link_count = e.link_count + 1
         /\ E.in_place => e.in_place \/ x = InStore
         /\ E.resident = e.resident /\ E.realtime = e.realtime
<1>1. PICK b \in BOOLEAN : b = IF e.image # NoImage THEN e.in_place ELSE x = InStore
  BY DEF Entry
<1>2. E = [e EXCEPT !.image = x, !.link_count = @ + 1, !.in_place = b] BY <1>1 DEF TakenAs
<1>3. e.link_count + 1 \in Nat BY DEF Entry
<1>4. E \in Entry BY <1>2, <1>3 DEF Entry
<1>5. /\ E.image = x /\ E.link_count = e.link_count + 1 /\ E.in_place = b
      /\ E.resident = e.resident /\ E.realtime = e.realtime
  BY <1>2 DEF Entry
<1> QED BY <1>1, <1>4, <1>5

LEMMA LinkDroppedIs ==
  ASSUME NEW e \in Entry, e.link_count > 0
  PROVE  /\ Unlinked(e) \in Entry /\ Unlinked(e).link_count = e.link_count - 1
         /\ Unlinked(e).resident = e.resident /\ Unlinked(e).realtime = e.realtime
         /\ IF e.link_count = 1 /\ (e.in_place \/ ~e.resident)
            THEN Unlinked(e).image = NoImage /\ Unlinked(e).in_place = FALSE
            ELSE Unlinked(e).image = e.image /\ Unlinked(e).in_place = e.in_place
<1>1. NoImage \in Images BY DEF Images
<1>2. CASE e.link_count = 1 /\ (e.in_place \/ ~e.resident)
  <2>1. Unlinked(e) = [e EXCEPT !.link_count = 0, !.image = NoImage, !.in_place = FALSE]
    BY <1>2 DEF Unlinked
  <2>5. PICK no \in BOOLEAN, none \in Images, zero \in Nat :
          no = FALSE /\ none = NoImage /\ zero = 0
    BY <1>1
  <2>6. Unlinked(e) = [e EXCEPT !.link_count = zero, !.image = none, !.in_place = no]
    BY <2>1, <2>5
  <2>2. Unlinked(e) \in Entry BY <2>6 DEF Entry
  <2>3. /\ Unlinked(e).link_count = 0
        /\ Unlinked(e).resident = e.resident /\ Unlinked(e).realtime = e.realtime
        /\ Unlinked(e).image = NoImage /\ Unlinked(e).in_place = FALSE
    BY <2>1 DEF Entry
  <2>4. Unlinked(e).link_count = e.link_count - 1 BY <1>2, <2>3
  <2> QED BY <1>2, <2>2, <2>3, <2>4, Zenon
<1>3. CASE ~(e.link_count = 1 /\ (e.in_place \/ ~e.resident))
  <2>1. Unlinked(e) = [e EXCEPT !.link_count = @ - 1] BY <1>3 DEF Unlinked
  <2>2. e.link_count - 1 \in Nat BY DEF Entry
  <2>3. Unlinked(e) \in Entry BY <2>1, <2>2 DEF Entry
  <2>4. /\ Unlinked(e).link_count = e.link_count - 1
        /\ Unlinked(e).resident = e.resident /\ Unlinked(e).realtime = e.realtime
        /\ Unlinked(e).image = e.image /\ Unlinked(e).in_place = e.in_place
    BY <2>1 DEF Entry
  <2> QED BY <1>3, <2>3, <2>4, Zenon
<1> QED BY <1>2, <1>3

LEMMA TakeKeeps ==
  ASSUME ModInv, NEW p \in Linkers, TakeLink(p)
  PROVE  ModInv'
<1>1. PICK i : i = found[p] /\ i \in DOMAIN directory /\ i # 0 /\ linked[p] = 0
  BY DEF TakeLink, ModInv, ModTypes
<1>2. PICK e \in Entry : e = directory[i] BY <1>1 DEF ModInv, ModTypes
<1>3. PICK x : /\ x \in (IF e.image # NoImage THEN {e.image} ELSE Placements(e))
               /\ directory' = [directory EXCEPT ![i] = TakenAs(e, x)]
               /\ code' = [code EXCEPT ![p] = x]
  BY <1>1, <1>2, Zenon DEF TakeLink, TakenAs
<1>4. /\ found' = [found EXCEPT ![p] = 0] /\ linked' = [linked EXCEPT ![p] = i]
  BY <1>1 DEF TakeLink
<1>5. WellKept(i) /\ (e.in_place => e.image = InStore) BY <1>1, <1>2 DEF ModInv, ModTypes
<1>6. /\ x \in Images /\ x # NoImage /\ (e.image # NoImage => x = e.image)
      /\ e.image = NoImage => x = InStore \/ x \in RamBlocks \ InRam
      /\ e.realtime => x # InStore
  <2>1. e.image = NoImage => (x = InStore /\ ~e.realtime) \/ x \in RamBlocks \ InRam
    BY <1>3 DEF Placements, RunsInPlace
  <2>2. e.image # NoImage => x = e.image /\ (e.realtime => x # InStore)
    BY <1>2, <1>3, <1>5 DEF WellKept
  <2> QED BY <1>2, <2>1, <2>2, ModFacts DEF Images, Entry
<1>7. PICK E : E = TakenAs(e, x) OBVIOUS
<1>8. /\ E \in Entry /\ E.image = x /\ E.link_count = e.link_count + 1
      /\ E.in_place => e.in_place \/ x = InStore
      /\ E.resident = e.resident /\ E.realtime = e.realtime
  BY <1>6, <1>7, LinkTakenIs
<1>9. Becomes(i, E) BY <1>1, <1>3, <1>7, <1>8 DEF Becomes
<1>10. /\ directory' \in Seq(Entry) /\ Len(directory') = Len(directory)
       /\ DOMAIN directory' = DOMAIN directory /\ directory'[i] = E
       /\ \A k \in DOMAIN directory : k # i => directory'[k] = directory[k]
  BY <1>9, OneBecomes
<1>11. i \in 0..Len(directory) /\ 0 \in 0..Len(directory)
  BY <1>1 DEF ModInv, ModTypes
<1>12. ModTypes'
  <2>1. /\ found' \in [Linkers -> 0..Len(directory)] /\ linked' \in [Linkers -> 0..Len(directory)]
        /\ code' \in [Linkers -> Images]
        /\ \A q \in Linkers : found'[q] = 0 \/ linked'[q] = 0
    BY <1>3, <1>4, <1>6, <1>11 DEF ModInv, ModTypes
  <2>2. ASSUME NEW k \in DOMAIN directory, directory'[k].in_place
        PROVE  directory'[k].image = InStore
    <3>1. CASE k = i
      <4>1. E.in_place BY <1>10, <2>2, <3>1
      <4> QED BY <1>5, <1>6, <1>8, <1>10, <3>1, <4>1, ModFacts
    <3>2. CASE k # i BY <1>10, <2>2, <3>2 DEF ModInv, ModTypes
    <3> QED BY <3>1, <3>2
  <2> QED BY <1>10, <2>1, <2>2 DEF ModTypes
<1>13. ASSUME NEW q \in Linkers PROVE RunsWhereItIs(q)'
  <2>1. CASE q = p
    <3>1. code'[q] = x /\ linked'[q] = i BY <1>3, <1>4, <2>1 DEF ModInv, ModTypes
    <3> QED BY <1>6, <1>8, <1>10, <3>1 DEF RunsWhereItIs
  <2>2. CASE q # p
    <3>1. code'[q] = code[q] /\ linked'[q] = linked[q] /\ linked[q] \in 0..Len(directory)
      BY <1>3, <1>4, <2>2 DEF ModInv, ModTypes
    <3>2. RunsWhereItIs(q) BY DEF ModInv
    <3>3. linked[q] # 0 => linked[q] \in DOMAIN directory BY <3>1 DEF ModInv, ModTypes
    <3> QED BY <1>2, <1>6, <1>8, <1>10, <3>1, <3>2, <3>3 DEF RunsWhereItIs
  <2> QED BY <2>1, <2>2
<1>14. ASSUME NEW k \in DOMAIN directory PROVE WellKept(k)'
  <2>1. Cardinality(LinkersOf(k)') = IF k = i THEN Cardinality(LinkersOf(k)) + 1
                                     ELSE Cardinality(LinkersOf(k))
    <3>1. k # 0 BY DEF ModInv, ModTypes
    <3>2. linked' = [linked EXCEPT ![p] = i] /\ linked[p] = 0 /\ linked[p] # i BY <1>1, <1>4
    <3>3. Cardinality(LinkersOf(k)') =
            CASE k = i -> Cardinality(LinkersOf(k)) + 1
              [] k = linked[p] -> Cardinality(LinkersOf(k)) - 1
              [] OTHER -> Cardinality(LinkersOf(k))
      BY <1>11, <3>2, LinkersMove
    <3> QED BY <3>1, <3>2, <3>3
  <2>2. WellKept(k) BY DEF ModInv
  <2>3. CASE k = i
    <3>1. E.link_count = Cardinality(LinkersOf(k)') BY <1>2, <1>5, <1>8, <2>1, <2>3 DEF WellKept
    <3>2. E.link_count # 0 BY <1>8 DEF Entry
    <3> QED BY <1>2, <1>5, <1>6, <1>8, <1>10, <2>3, <3>1, <3>2, ModFacts DEF WellKept
  <2>4. CASE k # i BY <1>10, <2>1, <2>2, <2>4 DEF WellKept
  <2> QED BY <2>3, <2>4
<1>15. ASSUME NEW k \in DOMAIN directory, NEW j \in DOMAIN directory, k # j
       PROVE  OneModules(k, j)'
  <2>1. OneModules(k, j) BY <1>15 DEF ModInv
  <2>2. x \in {e.image, InStore} \/ \A l \in DOMAIN directory : directory[l].image # x
    BY <1>6, ModFacts DEF InRam
  <2>3. CASE k # i /\ j # i
    <3>1. directory'[k] = directory[k] /\ directory'[j] = directory[j] BY <1>10, <2>3
    <3> QED BY <2>1, <3>1 DEF OneModules
  <2>4. CASE k = i
    <3>1. directory'[k].image = x BY <1>8, <1>10, <2>4
    <3>2. directory'[j] = directory[j] /\ directory[k] = e BY <1>2, <1>10, <1>15, <2>4
    <3>3. directory[j].image = x => x \in {NoImage, InStore} BY <1>6, <2>1, <2>2, <3>2 DEF OneModules
    <3> QED BY <3>1, <3>2, <3>3 DEF OneModules
  <2>5. CASE j = i
    <3>1. directory'[j].image = x BY <1>8, <1>10, <2>5
    <3>2. directory'[k] = directory[k] /\ directory[j] = e BY <1>2, <1>10, <1>15, <2>5
    <3>3. directory[k].image = x => x \in {NoImage, InStore} BY <1>6, <2>1, <2>2, <3>2 DEF OneModules
    <3> QED BY <3>1, <3>2, <3>3 DEF OneModules
  <2> QED BY <2>3, <2>4, <2>5
<1> QED BY <1>10, <1>12, <1>13, <1>14, <1>15 DEF ModInv

LEMMA DropKeeps ==
  ASSUME ModInv, NEW p \in Linkers, DropLink(p)
  PROVE  ModInv'
<1>1. PICK i : i = linked[p] /\ i \in DOMAIN directory /\ i # 0 /\ found[p] = 0
  BY DEF DropLink, ModInv, ModTypes
<1>2. PICK e \in Entry : e = directory[i] BY <1>1 DEF ModInv, ModTypes
<1>3. /\ directory' = [directory EXCEPT ![i] = Unlinked(e)] /\ found' = found
      /\ linked' = [linked EXCEPT ![p] = 0] /\ code' = [code EXCEPT ![p] = NoImage]
  BY <1>1, <1>2 DEF DropLink
<1>5. WellKept(i) /\ (e.in_place => e.image = InStore) BY <1>1, <1>2 DEF ModInv, ModTypes
<1>4. e.link_count > 0
  <2>1. p \in LinkersOf(i) BY <1>1 DEF LinkersOf
  <2>2. Cardinality(LinkersOf(i)) # 0 BY <2>1, LinkersFinite, FS_EmptySet
  <2> QED BY <1>2, <1>5, <2>2 DEF WellKept, Entry
<1>7. PICK E : E = Unlinked(e) OBVIOUS
<1>8. /\ E \in Entry /\ E.link_count = e.link_count - 1
      /\ E.resident = e.resident /\ E.realtime = e.realtime
      /\ IF e.link_count = 1 /\ ~e.resident
         THEN E.image = NoImage /\ E.in_place = FALSE
         ELSE E.image = e.image /\ E.in_place = e.in_place
  <2>1. e.in_place => ~e.resident BY <1>2, <1>5, ModFacts DEF WellKept
  <2> QED BY <1>4, <1>7, <2>1, LinkDroppedIs
<1>9. Becomes(i, E) BY <1>1, <1>3, <1>7, <1>8 DEF Becomes
<1>10. /\ directory' \in Seq(Entry) /\ Len(directory') = Len(directory)
       /\ DOMAIN directory' = DOMAIN directory /\ directory'[i] = E
       /\ \A k \in DOMAIN directory : k # i => directory'[k] = directory[k]
  BY <1>9, OneBecomes
<1>11. i \in 0..Len(directory) /\ 0 \in 0..Len(directory)
  BY <1>1 DEF ModInv, ModTypes
<1>12. ModTypes'
  <2>1. /\ found' \in [Linkers -> 0..Len(directory)] /\ linked' \in [Linkers -> 0..Len(directory)]
        /\ code' \in [Linkers -> Images]
        /\ \A q \in Linkers : found'[q] = 0 \/ linked'[q] = 0
    BY <1>3, <1>11 DEF ModInv, ModTypes, Images
  <2>2. \A k \in DOMAIN directory : directory'[k].in_place => directory'[k].image = InStore
    BY <1>5, <1>8, <1>10 DEF ModInv, ModTypes
  <2> QED BY <1>10, <2>1, <2>2 DEF ModTypes
<1>16. \A k \in DOMAIN directory :
         Cardinality(LinkersOf(k)') = IF k = i THEN Cardinality(LinkersOf(k)) - 1
                                      ELSE Cardinality(LinkersOf(k))
  <2> TAKE k \in DOMAIN directory
  <2>1. k # 0 BY DEF ModInv, ModTypes
  <2> QED BY <1>1, <1>3, <1>11, <2>1, LinkersMove
<1>13. ASSUME NEW q \in Linkers PROVE RunsWhereItIs(q)'
  <2>1. CASE q = p
    <3>1. linked'[q] = 0 BY <1>3, <2>1 DEF ModInv, ModTypes
    <3> QED BY <3>1 DEF RunsWhereItIs
  <2>2. CASE q # p
    <3>1. code'[q] = code[q] /\ linked'[q] = linked[q] /\ linked[q] \in 0..Len(directory)
      BY <1>3, <2>2 DEF ModInv, ModTypes
    <3>2. RunsWhereItIs(q) BY DEF ModInv
    <3>3. linked[q] # 0 => linked[q] \in DOMAIN directory BY <3>1 DEF ModInv, ModTypes
    <3>4. CASE linked[q] = i
      <4>1. LinkersOf(i)' # {} BY <3>1, <3>4 DEF LinkersOf
      <4>2. IsFiniteSet(LinkersOf(i)')
        <5>1. LinkersOf(i)' \subseteq Linkers BY DEF LinkersOf
        <5> QED BY <5>1, ModFacts, FS_Subset
      <4>3. Cardinality(LinkersOf(i)') # 0 BY <4>1, <4>2, FS_EmptySet
      <4>4. e.link_count # 1 BY <1>1, <1>2, <1>5, <1>16, <4>3 DEF WellKept
      <4> QED BY <1>2, <1>8, <1>10, <3>1, <3>2, <3>4, <4>4 DEF RunsWhereItIs
    <3>5. CASE linked[q] # i BY <1>10, <3>1, <3>2, <3>3, <3>5 DEF RunsWhereItIs
    <3> QED BY <3>4, <3>5
  <2> QED BY <2>1, <2>2
<1>14. ASSUME NEW k \in DOMAIN directory PROVE WellKept(k)'
  <2>2. WellKept(k) BY DEF ModInv
  <2>3. CASE k = i
    <3>1. E.link_count = Cardinality(LinkersOf(k)')
      BY <1>1, <1>2, <1>5, <1>8, <1>16, <2>3 DEF WellKept
    <3>2. e.link_count \in Nat BY DEF Entry
    <3> QED BY <1>2, <1>4, <1>5, <1>8, <1>10, <2>3, <3>1, <3>2, ModFacts DEF WellKept
  <2>4. CASE k # i BY <1>10, <1>16, <2>2, <2>4 DEF WellKept
  <2> QED BY <2>3, <2>4
<1>15. ASSUME NEW k \in DOMAIN directory, NEW j \in DOMAIN directory, k # j
       PROVE  OneModules(k, j)'
  <2>1. OneModules(k, j) BY <1>15 DEF ModInv
  <2> QED BY <1>2, <1>8, <1>10, <1>15, <2>1 DEF OneModules
<1> QED BY <1>10, <1>12, <1>13, <1>14, <1>15 DEF ModInv

\* A linked module's image stays where it runs, is no other module's, is counted
\* once for each link, and is given back with the last one (rv9_mod_link,
\* rv9_mod_unlink), for any store, uploads, linkers and memory.
THEOREM ImagesKept == ModSpec => []ImagesAreHeld
<1>1. ModInit => ModInv BY FirstEntries
<1>2. ModInv /\ [ModNext]_modVars => ModInv'
  <2> SUFFICES ASSUME ModInv, [ModNext]_modVars PROVE ModInv' OBVIOUS
  <2>1. CASE UNCHANGED modVars
    BY <2>1 DEF modVars, ModInv, ModTypes, RunsWhereItIs, WellKept, OneModules, LinkersOf
  <2>2. CASE ModNext BY <2>2, LoadKeeps, FindKeeps, TakeKeeps, DropKeeps DEF ModNext
  <2> QED BY <2>1, <2>2
<1>3. ModInv => ImagesAreHeld BY ModInvHeld
<1> QED BY <1>1, <1>2, <1>3, PTL DEF ModSpec

(***************************************************************************)
(* Block files.                                                            *)
(***************************************************************************)
FdRec == [secs : Seq(Sectors), size : Nat]
PathRec == [name : Names \cup {NoName}, fd : FdRec, dirty : BOOLEAN, writes : BOOLEAN]
Marks == Sectors \cup Meta

(***************************************************************************)
(* A sector from the bitmap is a clear one.                                *)
(***************************************************************************)
LEMMA VolumeFacts ==
  /\ 0 \in Sectors /\ Sectors \subseteq Nat /\ Maps \in Nat /\ Meta \subseteq Nat /\ 0 \in Meta
  /\ \A x \in Nat : x < Total => x \in Sectors
<1>1. /\ Total \in Nat \ {0} /\ Byte \in Nat \ {0} /\ MapBytes \in Nat \ {0} /\ RootSectors \in Nat
  BY FileAssumption
<1>2. PICK q : q = Total \div Byte OBVIOUS
<1>3. q \in Nat BY <1>1, <1>2
<1>4. PICK x : x = q + MapBytes - 1 OBVIOUS
<1>5. x \in Nat BY <1>1, <1>3, <1>4
<1>6. Maps = x \div MapBytes BY <1>2, <1>4 DEF Maps
<1>7. Maps \in Nat BY <1>1, <1>5, <1>6
<1>8. Maps + RootSectors \in Nat BY <1>1, <1>7
<1>9. Meta \subseteq Nat /\ 0 \in Meta BY <1>8 DEF Meta
<1> QED BY <1>1, <1>7, <1>9 DEF Sectors

LEMMA ClearIs ==
  ASSUME NEW used, NEW map \in Nat
  PROVE  /\ IsFiniteSet(ClearBits(used, map)) /\ ClearBits(used, map) \subseteq Nat
         /\ \A l \in ClearBits(used, map) : l # 0 /\ l \notin used
<1>1. PICK a : a = map * Byte * MapBytes OBVIOUS
<1>2. PICK b : b = (map + 1) * Byte * MapBytes - 1 OBVIOUS
<1>3. Byte \in Nat /\ MapBytes \in Nat BY FileAssumption
<1>4. map * Byte \in Nat /\ (map + 1) * Byte \in Nat BY <1>3
<1>5. a \in Nat /\ b \in Int BY <1>1, <1>2, <1>3, <1>4
<1>6. ClearBits(used, map) = {l \in a..b : l # 0 /\ l \notin used} BY <1>1, <1>2 DEF ClearBits
<1>7. IsFiniteSet(a..b) /\ a..b \subseteq Nat BY <1>5, FS_Interval
<1> QED BY <1>6, <1>7, FS_Subset

LEMMA AllocIs ==
  ASSUME NEW used, NEW from \in Nat
  PROVE  LET lsn == Alloc(used, from)
         IN  lsn \in Sectors /\ MapOf(lsn) \in Nat /\ (lsn # 0 => lsn \notin used)
<1>1. PICK start : start = IF from < Maps THEN from ELSE 0 OBVIOUS
<1>2. PICK some : some = {n \in 0..(Maps - 1) : ClearBits(used, (start + n) % Maps) # {}} OBVIOUS
<1>3. PICK least : least = Min(ClearBits(used, (start + Min(some)) % Maps)) OBVIOUS
<1>4. PICK lsn : lsn = Alloc(used, from) OBVIOUS
<1>5. lsn = IF some = {} THEN 0 ELSE IF least >= Total THEN 0 ELSE least
  BY <1>1, <1>2, <1>3, <1>4 DEF Alloc
<1>6. ASSUME some # {} PROVE least \in Nat /\ least # 0 /\ least \notin used
  <2>1. some \subseteq 0..(Maps - 1) /\ some \subseteq Nat /\ Maps \in Nat /\ IsFiniteSet(0..(Maps - 1))
    BY <1>2, VolumeFacts, FS_Interval
  <2>2. Min(some) \in some BY <1>6, <2>1, FS_Subset, LeastExists
  <2>3. PICK q : q = (start + Min(some)) % Maps OBVIOUS
  <2>4. ClearBits(used, q) # {} BY <1>2, <2>2, <2>3
  <2>5. q \in Nat
    <3>1. start \in Nat BY <1>1, <2>1
    <3>2. PICK m : m = Min(some) OBVIOUS
    <3>3. m \in 0..(Maps - 1) BY <2>1, <2>2, <3>2
    <3>4. start + m \in Nat /\ Maps > 0 BY <2>1, <3>1, <3>3
    <3> QED BY <2>1, <2>3, <3>2, <3>4
  <2>6. least \in ClearBits(used, q) BY <1>3, <2>3, <2>4, <2>5, ClearIs, LeastExists
  <2> QED BY <2>5, <2>6, ClearIs
<1>7. lsn \in Sectors /\ (lsn # 0 => lsn \notin used)
  <2>1. Total \in Nat BY FileAssumption
  <2> QED BY <1>5, <1>6, <2>1, VolumeFacts
<1>8. MapOf(lsn) \in Nat
  <2>1. PICK b : b = Byte * MapBytes OBVIOUS
  <2>2. b \in Nat \ {0} BY <2>1, FileAssumption
  <2>3. lsn \in Nat BY <1>7, VolumeFacts
  <2>4. lsn \div b \in Nat BY <2>2, <2>3
  <2> QED BY <2>1, <2>4 DEF MapOf
<1> QED BY <1>4, <1>7, <1>8

(***************************************************************************)
(* A file that grows takes clear sectors, each once.                       *)
(***************************************************************************)
LEMMA Appended ==
  ASSUME NEW s \in Seq(Sectors), NEW x \in Sectors
  PROVE  /\ Append(s, x) \in Seq(Sectors) /\ Len(Append(s, x)) = Len(s) + 1
         /\ Range(Append(s, x)) = Range(s) \cup {x}
         /\ IsInjective(s) /\ x \notin Range(s) => IsInjective(Append(s, x))
<1>1. PICK n \in Nat : n = Len(s) /\ DOMAIN s = 1..n OBVIOUS
<1>2. PICK t : t = Append(s, x) OBVIOUS
<1>3. /\ t \in Seq(Sectors) /\ Len(t) = n + 1 /\ DOMAIN t = 1..n + 1 /\ t[n + 1] = x
      /\ \A i \in 1..n : t[i] = s[i]
  BY <1>1, <1>2
<1>4. Range(t) = Range(s) \cup {x}
  <2>1. 1..n + 1 = (1..n) \cup {n + 1} BY <1>1
  <2> QED BY <1>1, <1>3, <2>1 DEF Range
<1>5. ASSUME IsInjective(s), x \notin Range(s) PROVE IsInjective(t)
  <2>1. \A i \in 1..n : t[i] # t[n + 1] BY <1>1, <1>3, <1>5 DEF Range
  <2>2. \A i, j \in 1..n : t[i] = t[j] => i = j BY <1>1, <1>3, <1>5 DEF IsInjective
  <2>3. \A i \in 1..n + 1 : i \in 1..n \/ i = n + 1 BY <1>1
  <2> QED BY <1>3, <2>1, <2>2, <2>3 DEF IsInjective
<1> QED BY <1>1, <1>2, <1>3, <1>4, <1>5

GrowRec == [used : SUBSET Marks, hint : Nat, fd : FdRec, ok : BOOLEAN, spare : SUBSET Marks]

\* What has grown from a bitmap and a descriptor, and not beyond.
GrownFrom(v, used, fd) ==
  /\ v \in GrowRec /\ IsInjective(v.fd.secs) /\ used \subseteq v.used
  /\ Range(v.fd.secs) = Range(fd.secs) \cup (v.used \ used)
  /\ v.fd.size = fd.size /\ Len(v.fd.secs) >= Len(fd.secs)

LEMMA GrowIs ==
  ASSUME NEW used, NEW fd \in FdRec, NEW v, GrownFrom(v, used, fd), Range(fd.secs) \subseteq used,
         v.ok = TRUE
  PROVE  GrownFrom(Grow(v), used, fd)
<1>0. PICK u \in SUBSET Marks, k \in Nat, f \in FdRec, o \in SUBSET Marks :
        u = v.used /\ k = v.hint /\ f = v.fd /\ o = v.spare
  BY DEF GrownFrom, GrowRec
<1>1. PICK lsn : lsn = Alloc(v.used, v.hint) OBVIOUS
<1>2. lsn \in Sectors /\ MapOf(lsn) \in Nat /\ (lsn # 0 => lsn \notin u)
  BY <1>0, <1>1, AllocIs
<1>3. PICK no \in BOOLEAN : no = FALSE OBVIOUS
<1>4. PICK secs : secs = Append(f.secs, lsn) OBVIOUS
<1>5. v \in GrowRec /\ v = [used |-> u, hint |-> k, fd |-> f, ok |-> TRUE, spare |-> o]
  BY <1>0 DEF GrownFrom, GrowRec
<1>6. CASE lsn = 0
  <2>1. Grow(v) = [used |-> u, hint |-> k, fd |-> f, ok |-> no, spare |-> o]
    BY <1>0, <1>1, <1>3, <1>5, <1>6 DEF Grow
  <2> QED BY <1>0, <1>3, <2>1 DEF GrownFrom, GrowRec
<1>7. CASE lsn # 0 /\ Segments(secs) > MaxSegments
  <2>1. PICK q \in Nat : q = MapOf(lsn) BY <1>2
  <2>2. Grow(v) = [used |-> u, hint |-> q, fd |-> f, ok |-> no, spare |-> {lsn}]
    BY <1>0, <1>1, <1>3, <1>4, <1>5, <1>7, <2>1 DEF Grow
  <2>3. {lsn} \in SUBSET Marks BY <1>2 DEF Marks
  <2> QED BY <1>0, <1>3, <2>2, <2>3 DEF GrownFrom, GrowRec
<1>8. CASE lsn # 0 /\ ~(Segments(secs) > MaxSegments)
  <2>1. PICK q \in Nat : q = MapOf(lsn) BY <1>2
  <2>2. f.secs \in Seq(Sectors) /\ f.size \in Nat /\ f = [secs |-> f.secs, size |-> f.size] BY DEF FdRec
  <2>3. PICK w : w = u \cup {lsn} OBVIOUS
  <2>4. PICK g : g = [secs |-> secs, size |-> f.size] OBVIOUS
  <2>5. Grow(v) = [used |-> w, hint |-> q, fd |-> g, ok |-> TRUE, spare |-> o]
    BY <1>0, <1>1, <1>4, <1>5, <1>8, <2>1, <2>2, <2>3, <2>4 DEF Grow
  <2>6. Range(f.secs) \subseteq u /\ lsn \notin Range(f.secs) BY <1>0, <1>2, <1>8 DEF GrownFrom
  <2>7. /\ secs \in Seq(Sectors) /\ Len(secs) = Len(f.secs) + 1 /\ Range(secs) = Range(f.secs) \cup {lsn}
        /\ IsInjective(secs)
    BY <1>0, <1>2, <1>4, <2>2, <2>6, Appended DEF GrownFrom
  <2>8. g \in FdRec /\ w \in SUBSET Marks BY <1>2, <2>2, <2>3, <2>4, <2>7 DEF FdRec, Marks
  <2>9. Grow(v) \in GrowRec BY <2>5, <2>8 DEF GrowRec
  <2>10. Len(f.secs) \in Nat /\ Len(fd.secs) \in Nat BY <2>2 DEF FdRec
  <2>11. Range(secs) = Range(fd.secs) \cup (w \ used)
    <3>1. lsn \notin used BY <1>0, <1>2, <1>8 DEF GrownFrom
    <3> QED BY <1>0, <2>3, <2>7, <3>1 DEF GrownFrom
  <2>12. Len(secs) >= Len(fd.secs) BY <1>0, <2>7, <2>10 DEF GrownFrom
  <2>13. used \subseteq w /\ g.size = fd.size /\ g.secs = secs BY <1>0, <2>3, <2>4 DEF GrownFrom
  <2>14. Grow(v).used = w /\ Grow(v).fd = g BY <2>5
  <2> QED BY <1>0, <2>7, <2>9, <2>11, <2>12, <2>13, <2>14 DEF GrownFrom
<1> QED BY <1>6, <1>7, <1>8

\* What GrownTo iterates.
GrowOne(v, length) == IF v.ok /\ Len(v.fd.secs) < length THEN Grow(v) ELSE v
Ungrown(fd) == [used |-> bitmap, hint |-> hint, fd |-> fd, ok |-> TRUE, spare |-> {}]
Iterates(g, fd, length) ==
  g = [i \in 0..MaxLength |-> IF i = 0 THEN Ungrown(fd) ELSE GrowOne(g[i - 1], length)]

\* There is such an iteration: of any that stops too soon there is a longer one.
LEMMA IterationExists ==
  ASSUME NEW fd, NEW length
  PROVE  \E g : Iterates(g, fd, length)
<1> DEFINE Upto(g, n) == /\ DOMAIN g = 0..n
                         /\ g = [i \in 0..n |-> g[i]]
                         /\ \A i \in 0..n : g[i] = IF i = 0 THEN Ungrown(fd) ELSE GrowOne(g[i - 1], length)
           Short == {n \in 0..MaxLength : \A g : ~Upto(g, n)}
<1>1. MaxLength \in Nat /\ IsFiniteSet(0..MaxLength) /\ 0..MaxLength \subseteq Nat
  BY FileAssumption, FS_Interval
<1>2. Short = {}
  <2> SUFFICES ASSUME Short # {} PROVE FALSE OBVIOUS
  <2>1. PICK n \in Short : \A k \in Short : n <= k
    <3>1. Short \subseteq 0..MaxLength OBVIOUS
    <3> HIDE DEF Short
    <3> QED BY <1>1, <3>1, FS_Subset, LeastExists
  <2>2. n \in 0..MaxLength /\ \A g : ~Upto(g, n) BY <2>1
  <2>3. CASE n = 0
    <3>1. PICK g : g = [i \in 0..0 |-> Ungrown(fd)] OBVIOUS
    <3>2. Upto(g, 0) BY <3>1
    <3> QED BY <2>2, <2>3, <3>2
  <2>4. CASE n # 0
    <3>1. n - 1 \in 0..MaxLength /\ ~(n <= n - 1) BY <1>1, <2>2, <2>4
    <3>2. n - 1 \notin Short BY <2>1, <3>1
    <3>3. PICK g : Upto(g, n - 1) BY <3>1, <3>2
    <3>4. PICK w : w = [i \in 0..n |-> IF i = n THEN GrowOne(g[n - 1], length) ELSE g[i]] OBVIOUS
    <3>5. \A i \in 0..n : i = n \/ i \in 0..(n - 1) BY <1>1, <2>2, <2>4
    <3>6. w[n] = GrowOne(w[n - 1], length)
      BY <1>1, <2>2, <2>4, <3>4
    <3>7. ASSUME NEW i \in 0..(n - 1)
          PROVE  w[i] = IF i = 0 THEN Ungrown(fd) ELSE GrowOne(w[i - 1], length)
      <4>1. w[i] = g[i] /\ (i # 0 => w[i - 1] = g[i - 1]) BY <1>1, <2>2, <2>4, <3>4
      <4> HIDE DEF Short
      <4> QED BY <3>3, <4>1
    <3>8. DOMAIN w = 0..n /\ w = [i \in 0..n |-> w[i]] BY <3>4
    <3>9. \A i \in 0..n : w[i] = IF i = 0 THEN Ungrown(fd) ELSE GrowOne(w[i - 1], length)
      BY <2>4, <3>5, <3>6, <3>7
    <3>10. Upto(w, n) BY <3>8, <3>9
    <3> QED BY <2>2, <3>10
  <2> QED BY <2>3, <2>4
<1>3. MaxLength \in 0..MaxLength BY <1>1
<1>4. PICK g : Upto(g, MaxLength) BY <1>2, <1>3
<1>5. Iterates(g, fd, length) BY <1>4 DEF Iterates
<1> QED BY <1>5

\* What every value of it is.
LEMMA IterationIs ==
  ASSUME NEW fd \in FdRec, NEW length \in Nat, NEW g, Iterates(g, fd, length),
         bitmap \subseteq Marks, hint \in Nat, IsInjective(fd.secs), Range(fd.secs) \subseteq bitmap
  PROVE  GrownFrom(g[MaxLength], bitmap, fd)
<1> DEFINE Good(v) == GrownFrom(v, bitmap, fd)
           Bad == {i \in 0..MaxLength : ~Good(g[i])}
<1>1. MaxLength \in Nat /\ IsFiniteSet(0..MaxLength) /\ 0..MaxLength \subseteq Nat
  BY FileAssumption, FS_Interval
<1>2. \A i \in 0..MaxLength : g[i] = IF i = 0 THEN Ungrown(fd) ELSE GrowOne(g[i - 1], length)
  <2>1. PICK f : f = [i \in 0..MaxLength |-> IF i = 0 THEN Ungrown(fd) ELSE GrowOne(g[i - 1], length)]
    OBVIOUS
  <2>2. g = f BY <2>1 DEF Iterates
  <2> QED BY <2>1, <2>2
<1>3. Good(Ungrown(fd))
  <2>1. PICK yes \in BOOLEAN, none \in SUBSET Marks : yes = TRUE /\ none = {} OBVIOUS
  <2>2. Ungrown(fd) = [used |-> bitmap, hint |-> hint, fd |-> fd, ok |-> yes, spare |-> none]
    BY <2>1 DEF Ungrown
  <2>3. Ungrown(fd) \in GrowRec BY <2>2 DEF GrowRec
  <2>4. Len(fd.secs) \in Nat BY DEF FdRec
  <2> QED BY <2>2, <2>3, <2>4 DEF GrownFrom
<1>4. ASSUME NEW v, Good(v) PROVE Good(GrowOne(v, length))
  <2>1. v.ok \in BOOLEAN BY <1>4 DEF GrownFrom, GrowRec
  <2>2. CASE v.ok = TRUE /\ Len(v.fd.secs) < length
    <3>1. GrowOne(v, length) = Grow(v) BY <2>2 DEF GrowOne
    <3> QED BY <1>4, <2>2, <3>1, GrowIs
  <2>3. CASE ~(v.ok = TRUE /\ Len(v.fd.secs) < length)
    <3>1. GrowOne(v, length) = v BY <2>1, <2>3 DEF GrowOne
    <3> QED BY <1>4, <3>1
  <2> QED BY <2>2, <2>3
<1>5. Bad = {}
  <2> SUFFICES ASSUME Bad # {} PROVE FALSE OBVIOUS
  <2>1. PICK n \in Bad : \A k \in Bad : n <= k
    <3>1. Bad \subseteq 0..MaxLength OBVIOUS
    <3> HIDE DEF Bad
    <3> QED BY <1>1, <3>1, FS_Subset, LeastExists
  <2>2. n \in 0..MaxLength /\ ~Good(g[n]) BY <2>1
  <2> HIDE DEF Good
  <2>3. CASE n = 0 BY <1>2, <1>3, <2>2, <2>3
  <2>4. CASE n # 0
    <3>1. n - 1 \in 0..MaxLength /\ ~(n <= n - 1) BY <1>1, <2>2, <2>4
    <3>2. Good(g[n - 1]) BY <2>1, <3>1
    <3>3. Good(GrowOne(g[n - 1], length)) BY <1>4, <3>2
    <3>4. g[n] = GrowOne(g[n - 1], length) BY <1>2, <2>2, <2>4
    <3> QED BY <2>2, <3>3, <3>4
  <2> QED BY <2>3, <2>4
<1>6. Good(g[MaxLength])
  <2>1. MaxLength \in 0..MaxLength BY <1>1
  <2> HIDE DEF Good
  <2> QED BY <1>5, <2>1
<1> QED BY <1>6

LEMMA GrownToIs ==
  ASSUME NEW fd \in FdRec, NEW length \in Nat,
         bitmap \subseteq Marks, hint \in Nat, IsInjective(fd.secs), Range(fd.secs) \subseteq bitmap
  PROVE  GrownFrom(GrownTo(fd, length), bitmap, fd)
<1>1. \E g : Iterates(g, fd, length) BY IterationExists
<1>2. PICK g : g = CHOOSE h : Iterates(h, fd, length) OBVIOUS
<1>3. Iterates(g, fd, length) BY <1>1, <1>2, Zenon
<1>4. GrownTo(fd, length) = g[MaxLength]
  BY <1>2 DEF GrownTo, Iterates, GrowOne, Ungrown
<1>5. GrownFrom(g[MaxLength], bitmap, fd) BY <1>3, IterationIs
<1> QED BY <1>4, <1>5

(***************************************************************************)
(* The volume and its files.                                               *)
(***************************************************************************)
FileTypes ==
  /\ bitmap \in SUBSET Marks /\ entry \in [Names -> Sectors] /\ ident \in BOOLEAN
  /\ desc \in [Names -> FdRec] /\ handle \in [Handles -> PathRec]
  /\ hint \in Nat /\ happens \in Worlds
  /\ mount \in {"no", "yes", "bitmap", "root", "ident", "reserve"}

\* A path that writes is its file's only one, and a copy that is not dirty is
\* what is on the medium.
HandleSound(h) ==
  /\ handle[h].name = NoName => handle[h] = Shut
  /\ handle[h].name # NoName => mount = "yes" /\ entry[handle[h].name] # 0
  /\ handle[h].dirty = TRUE => handle[h].writes = TRUE
  /\ handle[h].writes = TRUE /\ handle[h].dirty = FALSE => handle[h].fd = desc[handle[h].name]
HandlesApart(g, h) ==
  handle[g].name = handle[h].name /\ handle[h].writes = TRUE => g = h
HandlesSound ==
  /\ \A h \in Handles : HandleSound(h)
  /\ \A g, h \in Handles : HandlesApart(g, h)

FdSound(fd) == IsInjective(fd.secs) /\ ("seek" \notin happens => fd.size <= Len(fd.secs))

\* A file has its sectors to itself, and what a power cut or a close that fails
\* goes back to is within.
FileSound(n) == entry[n] # 0 =>
  /\ FdSound(Current(n)) /\ entry[n] \notin Range(Current(n).secs)
  /\ happens \cap {"fail", "cut"} # {} => Range(desc[n].secs) \subseteq Range(Current(n).secs)
FilesApart(n, m) == Occupied(n) \cap Occupied(m) = {}
Tidy == happens \cap {"fail", "cut", "half", "tear"} = {} =>
          bitmap = Meta \cup UNION {Occupied(n) : n \in Names}
VolumeSound ==
  /\ Meta \subseteq bitmap
  /\ \A n \in Names : FileSound(n) /\ Occupied(n) \cap Meta = {} /\ Occupied(n) \subseteq bitmap
  /\ \A n, m \in Names : n # m => FilesApart(n, m)
  /\ Tidy

FormatSound ==
  /\ mount \in {"root", "ident"} => bitmap = {}
  /\ mount = "reserve" => bitmap \subseteq Meta
  /\ mount \in {"ident", "reserve"} => \A n \in Names : entry[n] = 0

Standing == mount = "yes" \/ (mount = "no" /\ ident = TRUE)
FilesInv ==
  /\ FileTypes /\ HandlesSound /\ FormatSound
  /\ \A n \in Names : FdSound(desc[n])
  /\ Standing => VolumeSound

\* No power cut and no failed write in a format, after a truncation, or between
\* an entry and its descriptor.
CleanWorlds == \A w \in Worlds :
  "half" \notin w /\ "tear" \notin w /\ ("truncate" \in w => w \cap {"fail", "cut"} = {})

LEMMA ShutIs == Shut \in PathRec /\ Shut.name = NoName /\ Shut.writes = FALSE /\ Shut.dirty = FALSE
                /\ Empty \in FdRec /\ Range(Empty.secs) = {}
                /\ IsInjective(Empty.secs) /\ Empty.size <= Len(Empty.secs)
<1>1. PICK no \in BOOLEAN : no = FALSE OBVIOUS
<1>2. PICK zero \in Nat : zero = 0 OBVIOUS
<1>3. PICK e : e = <<>> OBVIOUS
<1>4. e \in Seq(Sectors) /\ Len(e) = 0 /\ DOMAIN e = {} BY <1>3
<1>5. Empty = [secs |-> e, size |-> zero] BY <1>2, <1>3 DEF Empty
<1>6. Empty \in FdRec BY <1>4, <1>5 DEF FdRec
<1>7. /\ Range(Empty.secs) = {} /\ IsInjective(Empty.secs) /\ Empty.size <= Len(Empty.secs)
  BY <1>2, <1>4, <1>5 DEF IsInjective, Range
<1>8. Shut = [name |-> NoName, fd |-> Empty, dirty |-> no, writes |-> no] BY <1>1 DEF Shut
<1>9. Shut \in PathRec BY <1>6, <1>8 DEF PathRec
<1> QED BY <1>1, <1>6, <1>7, <1>8, <1>9

\* The descriptor of a file is its writer's copy, or the medium's.
LEMMA CurrentIs ==
  ASSUME \A g, h \in Handles : HandlesApart(g, h), NEW n \in Names
  PROVE  /\ \A h \in Handles : handle[h].name = n /\ handle[h].writes = TRUE => Current(n) = handle[h].fd
         /\ (\A h \in Handles : handle[h].name = n => ~(handle[h].writes = TRUE)) => Current(n) = desc[n]
<1>1. ASSUME NEW h \in Handles, handle[h].name = n, handle[h].writes = TRUE
      PROVE  Current(n) = handle[h].fd
  <2>1. Writing(n) BY <1>1 DEF Writing, Users
  <2>2. PICK g : g = CHOOSE f \in Users(n) : handle[f].writes OBVIOUS
  <2>3. \E g1 \in Users(n) : handle[g1].writes BY <2>1 DEF Writing
  <2>4. g \in Users(n) /\ handle[g].writes BY <2>2, <2>3, Zenon
  <2>5. g = h BY <1>1, <2>4 DEF Users, HandlesApart
  <2> QED BY <2>1, <2>2, <2>5 DEF Current
<1>2. ASSUME \A h \in Handles : handle[h].name = n => ~(handle[h].writes = TRUE)
      PROVE  Current(n) = desc[n]
  <2>1. ~Writing(n) BY <1>2 DEF Writing, Users
  <2> QED BY <2>1 DEF Current
<1> QED BY <1>1, <1>2

LEMMA CurrentIsNext ==
  ASSUME \A g, h \in Handles : HandlesApart(g, h)', NEW n \in Names
  PROVE  /\ \A h \in Handles : handle'[h].name = n /\ handle'[h].writes = TRUE => Current(n)' = handle'[h].fd
         /\ (\A h \in Handles : handle'[h].name = n => ~(handle'[h].writes = TRUE)) => Current(n)' = desc'[n]
<1>1. ASSUME NEW h \in Handles, handle'[h].name = n, handle'[h].writes = TRUE
      PROVE  Current(n)' = handle'[h].fd
  <2>1. Writing(n)' BY <1>1 DEF Writing, Users
  <2>2. PICK g : g = CHOOSE f \in Users(n)' : handle'[f].writes OBVIOUS
  <2>3. \E g1 \in Users(n)' : handle'[g1].writes BY <2>1 DEF Writing
  <2>4. g \in Users(n)' /\ handle'[g].writes BY <2>2, <2>3, Zenon
  <2>5. g = h BY <1>1, <2>4 DEF Users, HandlesApart
  <2> QED BY <2>1, <2>2, <2>5 DEF Current
<1>2. ASSUME \A h \in Handles : handle'[h].name = n => ~(handle'[h].writes = TRUE)
      PROVE  Current(n)' = desc'[n]
  <2>1. ~Writing(n)' BY <1>2 DEF Writing, Users
  <2> QED BY <2>1 DEF Current
<1> QED BY <1>1, <1>2

\* What one path does is nothing to the other files.
LEMMA OthersStand ==
  ASSUME HandlesSound, HandlesSound', NEW m \in Names, NEW P, P \subseteq Handles,
         \A g \in Handles \ P : handle'[g] = handle[g],
         \A h \in P : handle[h].name # m /\ handle'[h].name # m,
         desc'[m] = desc[m]
  PROVE  Current(m)' = Current(m)
<1>1. CASE \E g \in Handles : handle[g].name = m /\ handle[g].writes = TRUE
  <2>1. PICK g \in Handles : handle[g].name = m /\ handle[g].writes = TRUE BY <1>1
  <2>2. handle'[g] = handle[g] BY <2>1
  <2>3. Current(m) = handle[g].fd BY <2>1, CurrentIs DEF HandlesSound
  <2>4. \A a, b \in Handles : HandlesApart(a, b)' BY DEF HandlesSound
  <2>5. Current(m)' = handle'[g].fd
    <3>1. handle'[g].name = m /\ handle'[g].writes = TRUE BY <2>1, <2>2
    <3> HIDE <2>2
    <3> QED BY <2>4, <3>1, CurrentIsNext
  <2> QED BY <2>2, <2>3, <2>5
<1>2. CASE \A g \in Handles : handle[g].name = m => ~(handle[g].writes = TRUE)
  <2>1. \A g \in Handles : handle'[g].name = m => ~(handle'[g].writes = TRUE) BY <1>2
  <2>2. Current(m) = desc[m] BY <1>2, CurrentIs DEF HandlesSound
  <2>3. \A a, b \in Handles : HandlesApart(a, b)' BY DEF HandlesSound
  <2>4. Current(m)' = desc'[m] BY <2>1, <2>3, CurrentIsNext
  <2> QED BY <2>2, <2>4
<1> QED BY <1>1, <1>2

\* A current descriptor is one, and what a file occupies follows from it.
LEMMA CurrentSound ==
  ASSUME FilesInv, NEW n \in Names
  PROVE  Current(n) \in FdRec
<1>1. CASE \E g \in Handles : handle[g].name = n /\ handle[g].writes = TRUE
  BY <1>1, CurrentIs DEF FilesInv, HandlesSound, FileTypes, PathRec
<1>2. CASE \A g \in Handles : handle[g].name = n => ~(handle[g].writes = TRUE)
  BY <1>2, CurrentIs DEF FilesInv, HandlesSound, FileTypes
<1> QED BY <1>1, <1>2

LEMMA SectorsCounted ==
  ASSUME NEW s \in Seq(Sectors), IsInjective(s), NEW x, x \notin Range(s)
  PROVE  Cardinality({x} \cup Range(s)) = 1 + Len(s)
<1>1. PICK n \in Nat : n = Len(s) /\ DOMAIN s = 1..n OBVIOUS
<1>2. IsFiniteSet(1..n) /\ Cardinality(1..n) = n
  <2>1. Cardinality(1..n) = IF 1 > n THEN 0 ELSE n - 1 + 1 BY FS_Interval
  <2>2. IsFiniteSet(1..n) BY FS_Interval
  <2> QED BY <2>1, <2>2
<1>3. s \in Surjection(1..n, Range(s))
  BY <1>1 DEF Surjection, Range
<1>4. s \in Injection(1..n, Range(s))
  BY <1>1 DEF Injection, Range, IsInjective
<1>5. IsFiniteSet(Range(s)) /\ Cardinality(Range(s)) = n BY <1>2, <1>3, <1>4, FS_Surjection
<1>6. Cardinality(Range(s) \cup {x}) = n + 1 BY <1>5, CountOne
<1>7. {x} \cup Range(s) = Range(s) \cup {x} OBVIOUS
<1>8. Cardinality({x} \cup Range(s)) = n + 1 BY <1>6, <1>7, Zenon
<1> QED BY <1>1, <1>8

LEMMA FilesInvSays ==
  ASSUME FilesInv
  PROVE  SectorsHaveOneUse
<1>1. FileTypeOK
  BY DEF FilesInv, FileTypes, FileTypeOK, Marks, FdRec, PathRec
<1>2. ASSUME mount = "yes", NEW n \in Names, entry[n] # 0
      PROVE  /\ Cardinality(Occupied(n)) = 1 + Len(Current(n).secs)
             /\ Occupied(n) \cap Meta = {} /\ Occupied(n) \subseteq bitmap
             /\ "seek" \notin happens => Current(n).size <= Len(Current(n).secs)
  <2>1. VolumeSound BY <1>2 DEF FilesInv, Standing
  <2>2. FdSound(Current(n)) /\ entry[n] \notin Range(Current(n).secs)
    BY <1>2, <2>1 DEF VolumeSound, FileSound
  <2>3. Current(n).secs \in Seq(Sectors) BY CurrentSound DEF FdRec
  <2>4. Cardinality({entry[n]} \cup Range(Current(n).secs)) = 1 + Len(Current(n).secs)
    BY <2>2, <2>3, SectorsCounted DEF FdSound
  <2>5. Occupied(n) = {entry[n]} \cup Range(Current(n).secs) BY <1>2 DEF Occupied
  <2> QED BY <2>1, <2>2, <2>4, <2>5 DEF VolumeSound, FdSound
<1>3. ASSUME mount = "yes" PROVE VolumeSound BY <1>3 DEF FilesInv, Standing
<1> QED BY <1>1, <1>2, <1>3 DEF SectorsHaveOneUse, VolumeSound, FilesApart, Tidy

(***************************************************************************)
(* What a call does to one file, and to the bitmap.                        *)
(***************************************************************************)
OneTouched(n) ==
  /\ \A m \in Names \ {n} :
       entry'[m] = entry[m] /\ desc'[m] = desc[m] /\ Current(m)' = Current(m)
  /\ happens' = happens
  /\ Occupied(n)' \subseteq bitmap' /\ (Occupied(n)' \ Occupied(n)) \cap bitmap = {}
  /\ bitmap \ Occupied(n) \subseteq bitmap'
  /\ happens \cap {"fail", "cut", "half", "tear"} = {} => bitmap' = (bitmap \ Occupied(n)) \cup Occupied(n)'
  /\ FileSound(n)'

LEMMA TouchKeeps ==
  ASSUME VolumeSound, NEW n \in Names, OneTouched(n)
  PROVE  VolumeSound'
<1>1. \A m \in Names \ {n} : Occupied(m)' = Occupied(m) BY DEF OneTouched, Occupied
<1>2. \A m \in Names \ {n} : Occupied(m) \cap Occupied(n) = {}
  BY DEF VolumeSound, FilesApart
<1>3. \A m \in Names : Occupied(m) \cap Meta = {} /\ Occupied(m) \subseteq bitmap
  BY DEF VolumeSound
<1>4. /\ Occupied(n)' \subseteq bitmap' /\ (Occupied(n)' \ Occupied(n)) \cap bitmap = {}
      /\ bitmap \ Occupied(n) \subseteq bitmap' /\ Meta \subseteq bitmap
  BY DEF OneTouched, VolumeSound
<1>5. (Meta \subseteq bitmap)' /\ Meta' = Meta
  <2>1. Meta' = Meta BY DEF Meta, Maps
  <2> QED BY <1>3, <1>4, <2>1
<1>6. ASSUME NEW m \in Names
      PROVE  FileSound(m)' /\ (Occupied(m) \cap Meta = {})' /\ (Occupied(m) \subseteq bitmap)'
  <2>1. CASE m = n
    <3>1. Occupied(n)' \cap Meta = {} BY <1>3, <1>4
    <3>2. FileSound(n)' BY DEF OneTouched
    <3> QED BY <1>4, <1>5, <2>1, <3>1, <3>2
  <2>2. CASE m # n
    <3>1. FileSound(m) BY DEF VolumeSound
    <3>2. FileSound(m)' BY <2>2, <3>1 DEF OneTouched, FileSound, FdSound
    <3> QED BY <1>1, <1>2, <1>3, <1>4, <1>5, <2>2, <3>2
  <2> QED BY <2>1, <2>2
<1>7. ASSUME NEW l \in Names, NEW m \in Names, l # m PROVE Occupied(l)' \cap Occupied(m)' = {}
  <2>1. Occupied(l) \cap Occupied(m) = {} BY <1>7 DEF VolumeSound, FilesApart
  <2>2. CASE l = n BY <1>1, <1>3, <1>4, <1>7, <2>1, <2>2
  <2>3. CASE m = n BY <1>1, <1>3, <1>4, <1>7, <2>1, <2>3
  <2>4. CASE l # n /\ m # n BY <1>1, <2>1, <2>4
  <2> QED BY <2>2, <2>3, <2>4
<1>8. Tidy'
  <2> SUFFICES ASSUME happens \cap {"fail", "cut", "half", "tear"} = {}
               PROVE  bitmap' = Meta \cup UNION {Occupied(m)' : m \in Names}
    BY <1>5 DEF Tidy, OneTouched
  <2>1. bitmap' = (bitmap \ Occupied(n)) \cup Occupied(n)' BY DEF OneTouched
  <2>2. bitmap = Meta \cup UNION {Occupied(m) : m \in Names} BY DEF VolumeSound, Tidy
  <2>3. ASSUME NEW x \in bitmap' PROVE x \in Meta \cup UNION {Occupied(m)' : m \in Names}
    <3>1. CASE x \in Occupied(n)' BY <3>1
    <3>2. CASE x \in bitmap /\ x \notin Occupied(n)
      <4>1. CASE x \in Meta BY <4>1
      <4>2. CASE \E m \in Names : x \in Occupied(m) BY <1>1, <3>2, <4>2
      <4> QED BY <2>2, <3>2, <4>1, <4>2
    <3> QED BY <2>1, <2>3, <3>1, <3>2
  <2>4. ASSUME NEW x \in Meta \cup UNION {Occupied(m)' : m \in Names} PROVE x \in bitmap'
    BY <1>5, <1>6, <2>4
  <2> QED BY <2>3, <2>4
<1> QED BY <1>5, <1>6, <1>7, <1>8 DEF VolumeSound, FilesApart

\* A call on a mounted volume keeps the invariant if it keeps these.
LEMMA CallKeeps ==
  ASSUME FilesInv, mount = "yes", mount' = "yes", NEW n \in Names, OneTouched(n),
         FileTypes', HandlesSound', FdSound(desc[n])'
  PROVE  FilesInv'
<1>1. VolumeSound' BY TouchKeeps DEF FilesInv, Standing
<1>2. FormatSound' BY DEF FormatSound
<1>3. \A m \in Names : FdSound(desc[m])'
  <2> TAKE m \in Names
  <2>1. CASE m = n BY <2>1
  <2>2. CASE m # n
    <3>1. desc'[m] = desc[m] BY <2>2 DEF OneTouched
    <3>2. FdSound(desc[m]) /\ happens' = happens BY DEF FilesInv, OneTouched
    <3> QED BY <3>1, <3>2 DEF FdSound
  <2> QED BY <2>1, <2>2
<1> QED BY <1>1, <1>2, <1>3 DEF FilesInv

(***************************************************************************)
(* Opening and closing.                                                    *)
(***************************************************************************)
LEMMA OpenedIs ==
  ASSUME FilesInv, NEW h \in Handles, NEW n \in Names, NEW fd \in FdRec, NEW d \in BOOLEAN,
         NEW w \in BOOLEAN, Opens(h, n, w), Opened(h, n, fd, d, w), mount' = mount,
         entry'[n] # 0, \A m \in Names \ {n} : entry'[m] = entry[m] /\ desc'[m] = desc[m],
         d = TRUE => w = TRUE, w = TRUE /\ d = FALSE => fd = desc'[n],
         w = FALSE => desc'[n] = desc[n]
  PROVE  /\ HandlesSound' /\ handle' \in [Handles -> PathRec]
         /\ \A m \in Names \ {n} : Current(m)' = Current(m)
         /\ Current(n) = desc[n] /\ Current(n)' = IF w = TRUE THEN fd ELSE desc'[n]
<1>1. PICK r : r = [name |-> n, fd |-> fd, dirty |-> d, writes |-> w] OBVIOUS
<1>2. r \in PathRec /\ r.name = n /\ r.fd = fd /\ r.dirty = d /\ r.writes = w
  BY <1>1 DEF PathRec
<1>3. /\ handle \in [Handles -> PathRec] /\ handle' = [handle EXCEPT ![h] = r]
      /\ handle' \in [Handles -> PathRec]
  BY <1>1, <1>2 DEF FilesInv, FileTypes, Opened
<1>4. /\ handle[h] = Shut /\ handle[h].name = NoName /\ mount = "yes"
      /\ \A g \in Handles : handle[g].name = n => handle[g].writes = FALSE
      /\ w = TRUE => \A g \in Handles : handle[g].name # n
  <2>1. \A g \in Handles : handle[g].writes \in BOOLEAN BY <1>3 DEF PathRec
  <2> QED BY <2>1, ShutIs DEF Opens, Writing, Users
<1>5. handle'[h] = r /\ \A g \in Handles \ {h} : handle'[g] = handle[g] BY <1>3
<1>6. n # NoName BY FileAssumption
<1>7. ASSUME NEW g \in Handles PROVE HandleSound(g)'
  <2>1. CASE g = h
    <3>1. handle'[g] = r BY <1>5, <2>1
    <3> QED BY <1>2, <1>4, <1>6, <3>1 DEF HandleSound
  <2>2. CASE g # h
    <3>1. handle'[g] = handle[g] BY <1>5, <2>2
    <3>2. HandleSound(g) BY DEF FilesInv, HandlesSound
    <3>3. handle[g].name \in Names \cup {NoName} BY <1>3 DEF PathRec
    <3>4. CASE handle[g].name = n
      <4>1. handle[g].writes = FALSE /\ handle[g].dirty \in BOOLEAN BY <1>3, <1>4, <3>4 DEF PathRec
      <4> QED BY <1>4, <1>6, <3>1, <3>2, <3>4, <4>1 DEF HandleSound
    <3>5. CASE handle[g].name = NoName
      <4>1. handle[g] = Shut BY <3>2, <3>5 DEF HandleSound
      <4>2. handle'[g] = Shut BY <3>1, <4>1
      <4>3. Shut' = Shut BY DEF Shut, Empty
      <4> QED BY <4>2, <4>3, ShutIs DEF HandleSound
    <3>6. CASE handle[g].name \in Names \ {n}
      <4>1. entry'[handle[g].name] = entry[handle[g].name] /\ desc'[handle[g].name] = desc[handle[g].name]
        BY <3>6
      <4>2. handle[g].name # NoName BY <3>6, FileAssumption
      <4> QED BY <3>1, <3>2, <4>1, <4>2 DEF HandleSound
    <3> QED BY <3>3, <3>4, <3>5, <3>6
  <2> QED BY <2>1, <2>2
<1>8. ASSUME NEW f \in Handles, NEW g \in Handles PROVE HandlesApart(f, g)'
  <2> SUFFICES ASSUME f # g, handle'[f].name = handle'[g].name, handle'[g].writes = TRUE PROVE FALSE
    BY DEF HandlesApart
  <2>1. CASE f = h
    <3>1. handle[g].name = n /\ handle[g].writes = TRUE BY <1>2, <1>5, <2>1
    <3> QED BY <1>4, <3>1
  <2>2. CASE g = h
    <3>1. handle[f].name = n /\ w = TRUE BY <1>2, <1>5, <2>2
    <3> QED BY <1>4, <3>1
  <2>3. CASE f # h /\ g # h
    <3>1. HandlesApart(f, g) BY DEF FilesInv, HandlesSound
    <3> QED BY <1>5, <2>3, <3>1 DEF HandlesApart
  <2> QED BY <2>1, <2>2, <2>3
<1>9. HandlesSound' BY <1>7, <1>8 DEF HandlesSound
<1>10. ASSUME NEW m \in Names \ {n} PROVE Current(m)' = Current(m)
  <2>1. handle[h].name # m /\ handle'[h].name # m BY <1>2, <1>4, <1>5, FileAssumption
  <2>2. PICK P : P = {h} OBVIOUS
  <2>3. P \subseteq Handles /\ \A g \in P : handle[g].name # m /\ handle'[g].name # m BY <2>1, <2>2
  <2>4. \A g \in Handles \ P : handle'[g] = handle[g] BY <1>5, <2>2
  <2>5. desc'[m] = desc[m] /\ HandlesSound /\ m \in Names BY DEF FilesInv
  <2> QED BY <1>9, <2>3, <2>4, <2>5, OthersStand
<1>11. Current(n) = desc[n]
  <2>1. \A g \in Handles : handle[g].name = n => ~(handle[g].writes = TRUE) BY <1>4
  <2> QED BY <2>1, CurrentIs DEF FilesInv, HandlesSound
<1>12. \A f, g \in Handles : HandlesApart(f, g)' BY <1>8
<1>13. Current(n)' = IF w = TRUE THEN fd ELSE desc'[n]
  <2>1. CASE w = TRUE
    <3>1. handle'[h].name = n /\ handle'[h].writes = TRUE /\ handle'[h].fd = fd BY <1>2, <1>5, <2>1
    <3> QED BY <1>12, <2>1, <3>1, CurrentIsNext
  <2>2. CASE w = FALSE
    <3>1. \A g \in Handles : handle'[g].name = n => ~(handle'[g].writes = TRUE)
      BY <1>2, <1>4, <1>5, <2>2
    <3>2. Current(n)' = desc'[n] BY <1>12, <3>1, CurrentIsNext
    <3> QED BY <2>2, <3>2
  <2> QED BY <2>1, <2>2
<1> QED BY <1>3, <1>9, <1>10, <1>11, <1>13

LEMMA LookupKeeps ==
  ASSUME FilesInv, NEW h \in Handles, NEW n \in Names, NEW w \in BOOLEAN, Lookup(h, n, w)
  PROVE  FilesInv'
<1>1. /\ Opens(h, n, w) /\ entry[n] # 0 /\ mount = "yes" /\ Opened(h, n, desc[n], FALSE, w)
      /\ bitmap' = bitmap /\ entry' = entry /\ desc' = desc /\ ident' = ident /\ hint' = hint
      /\ mount' = mount /\ happens' = happens
  BY DEF Lookup, Opens, medium
<1>2. PICK fd \in FdRec, no \in BOOLEAN : fd = desc[n] /\ no = FALSE BY DEF FilesInv, FileTypes
<1>3. /\ HandlesSound' /\ handle' \in [Handles -> PathRec]
      /\ \A m \in Names \ {n} : Current(m)' = Current(m)
      /\ Current(n) = desc[n] /\ Current(n)' = IF w = TRUE THEN fd ELSE desc'[n]
  <2>1. Opens(h, n, w) /\ Opened(h, n, fd, no, w) /\ mount' = mount BY <1>1, <1>2
  <2>2. entry'[n] # 0 /\ \A m \in Names \ {n} : entry'[m] = entry[m] /\ desc'[m] = desc[m] BY <1>1
  <2>3. /\ no = TRUE => w = TRUE
        /\ w = TRUE /\ no = FALSE => fd = desc'[n]
        /\ w = FALSE => desc'[n] = desc[n]
    BY <1>1, <1>2
  <2> QED BY <2>1, <2>2, <2>3, OpenedIs, ZenonT(60)
<1>4. Current(n)' = Current(n) BY <1>1, <1>2, <1>3
<1>5. Occupied(n)' = Occupied(n) BY <1>1, <1>4 DEF Occupied
<1>6. VolumeSound BY <1>1 DEF FilesInv, Standing
<1>7. Occupied(n) \subseteq bitmap /\ FileSound(n) BY <1>6 DEF VolumeSound
<1>8. FileSound(n)' BY <1>1, <1>4, <1>7 DEF FileSound, FdSound
<1>9. OneTouched(n) BY <1>1, <1>3, <1>5, <1>7, <1>8 DEF OneTouched
<1>10. FileTypes' BY <1>1, <1>3 DEF FilesInv, FileTypes
<1>11. FdSound(desc[n])' BY <1>1 DEF FilesInv, FdSound
<1> QED BY <1>1, <1>3, <1>9, <1>10, <1>11, CallKeeps

LEMMA TruncateKeeps ==
  ASSUME CleanWorlds, FilesInv, NEW h \in Handles, NEW n \in Names, Truncate(h, n)
  PROVE  FilesInv'
<1>1. /\ "truncate" \in happens /\ Opens(h, n, TRUE) /\ entry[n] # 0 /\ mount = "yes"
      /\ Opened(h, n, Empty, TRUE, TRUE) /\ bitmap' \in Cleared(bitmap, Range(desc[n].secs))
      /\ entry' = entry /\ desc' = desc /\ ident' = ident /\ hint' = hint
      /\ mount' = mount /\ happens' = happens
  BY DEF Truncate, Opens
<1>2. PICK fd \in FdRec, yes \in BOOLEAN : fd = Empty /\ yes = TRUE BY ShutIs
<1>3. /\ HandlesSound' /\ handle' \in [Handles -> PathRec]
      /\ \A m \in Names \ {n} : Current(m)' = Current(m)
      /\ Current(n) = desc[n] /\ Current(n)' = IF yes = TRUE THEN fd ELSE desc'[n]
  BY <1>1, <1>2, OpenedIs
<1>4. Current(n)' = Empty BY <1>2, <1>3
<1>5. VolumeSound BY <1>1 DEF FilesInv, Standing
<1>6. Occupied(n) \subseteq bitmap /\ entry[n] \notin Range(desc[n].secs)
  BY <1>1, <1>3, <1>5 DEF VolumeSound, FileSound
<1>7. Occupied(n)' = {entry[n]} /\ Occupied(n) = {entry[n]} \cup Range(desc[n].secs)
  BY <1>1, <1>3, <1>4, ShutIs DEF Occupied
<1>8. happens \cap {"fail", "cut"} = {} BY <1>1 DEF CleanWorlds, FilesInv, FileTypes
<1>9. FileSound(n)'
  <2>1. (Current(n) = Empty)' BY <1>4 DEF Empty
  <2> QED BY <1>1, <1>4, <1>8, ShutIs DEF FileSound, FdSound
<1>13. bitmap' = bitmap \ Range(desc[n].secs) BY <1>1, <1>8 DEF Cleared
<1>10. OneTouched(n) BY <1>1, <1>3, <1>6, <1>7, <1>9, <1>13 DEF OneTouched
<1>11. FileTypes' BY <1>1, <1>3, <1>13 DEF FilesInv, FileTypes
<1>12. FdSound(desc[n])' BY <1>1 DEF FilesInv, FdSound
<1> QED BY <1>1, <1>3, <1>10, <1>11, <1>12, CallKeeps

LEMMA CreateKeeps ==
  ASSUME CleanWorlds, FilesInv, NEW h \in Handles, NEW n \in Names, Create(h, n)
  PROVE  FilesInv'
<1>1. PICK lsn : lsn = Alloc(bitmap, hint) OBVIOUS
<1>2. /\ Opens(h, n, TRUE) /\ entry[n] = 0 /\ mount = "yes" /\ lsn # 0
      /\ bitmap' = bitmap \cup {lsn} /\ hint' = MapOf(lsn)
      /\ ident' = ident /\ mount' = mount /\ happens' = happens
  BY <1>1 DEF Create, Opens
<1>3. lsn \in Sectors /\ lsn \notin bitmap /\ MapOf(lsn) \in Nat
  BY <1>1, <1>2, AllocIs DEF FilesInv, FileTypes
<1>4. Occupied(n) = {} BY <1>2 DEF Occupied
<1>5. /\ bitmap' \in SUBSET Marks /\ hint' \in Nat /\ ident' \in BOOLEAN /\ happens' \in Worlds
      /\ mount' \in {"no", "yes", "bitmap", "root", "ident", "reserve"}
  BY <1>2, <1>3 DEF FilesInv, FileTypes, Marks
<1>6. CASE /\ entry' = [entry EXCEPT ![n] = lsn] /\ desc' = [desc EXCEPT ![n] = Empty]
           /\ Opened(h, n, Empty, TRUE, TRUE)
  <2>1. /\ entry'[n] = lsn /\ desc'[n] = Empty
        /\ \A m \in Names \ {n} : entry'[m] = entry[m] /\ desc'[m] = desc[m]
        /\ entry' \in [Names -> Sectors] /\ desc' \in [Names -> FdRec]
    BY <1>3, <1>6, ShutIs DEF FilesInv, FileTypes
  <2>2. PICK fd \in FdRec, yes \in BOOLEAN : fd = Empty /\ yes = TRUE BY ShutIs
  <2>3. /\ HandlesSound' /\ handle' \in [Handles -> PathRec]
        /\ \A m \in Names \ {n} : Current(m)' = Current(m)
        /\ Current(n)' = IF yes = TRUE THEN fd ELSE desc'[n]
    BY <1>2, <1>6, <2>1, <2>2, OpenedIs
  <2>4. Current(n)' = Empty BY <2>2, <2>3
  <2>5. Occupied(n)' = {lsn} BY <1>2, <2>1, <2>4, ShutIs DEF Occupied
  <2>6. FileSound(n)' BY <2>1, <2>4, ShutIs DEF FileSound, FdSound
  <2>7. OneTouched(n) BY <1>2, <1>3, <1>4, <2>1, <2>3, <2>5, <2>6 DEF OneTouched
  <2>8. FileTypes' BY <1>5, <2>1, <2>3 DEF FileTypes
  <2>9. FdSound(desc[n])'
    <3>1. desc'[n] = Empty BY <2>1
    <3> QED BY <1>2, <3>1, ShutIs DEF FdSound
  <2> QED BY <1>2, <2>3, <2>7, <2>8, <2>9, CallKeeps
<1>7. CASE "fail" \in happens /\ UNCHANGED <<entry, desc, handle>>
  <2>1. entry' = entry /\ desc' = desc /\ handle' = handle BY <1>7
  <2>2. HandlesSound' BY <1>2, <2>1 DEF FilesInv, HandlesSound, HandleSound, HandlesApart
  <2>3. \A m \in Names : Current(m)' = Current(m) BY <2>1 DEF Current, Writing, Users
  <2>4. FileTypes' BY <1>5, <2>1 DEF FilesInv, FileTypes
  <2>5. Occupied(n)' = {} BY <1>2, <2>1 DEF Occupied
  <2>6. FileSound(n)' BY <1>2, <2>1 DEF FileSound
  <2>7. OneTouched(n) BY <1>2, <1>4, <1>7, <2>1, <2>3, <2>5, <2>6 DEF OneTouched
  <2>8. FdSound(desc[n])' BY <1>2, <2>1 DEF FilesInv, FdSound
  <2> QED BY <1>2, <2>2, <2>4, <2>7, <2>8, CallKeeps
<1>8. "tear" \notin happens BY DEF CleanWorlds, FilesInv, FileTypes
<1> QED BY <1>1, <1>6, <1>7, <1>8 DEF Create

LEMMA PathCloseKeeps ==
  ASSUME FilesInv, NEW h \in Handles, CloseFile(h)
  PROVE  FilesInv'
<1>1. /\ mount = "yes" /\ handle[h] # Shut /\ handle' = [handle EXCEPT ![h] = Shut]
      /\ bitmap' = bitmap /\ entry' = entry /\ ident' = ident /\ hint' = hint
      /\ mount' = mount /\ happens' = happens
  BY DEF CloseFile
<1>25. PICK put \in BOOLEAN :
         /\ desc' = IF handle[h].dirty /\ put = TRUE
                    THEN [desc EXCEPT ![handle[h].name] = handle[h].fd] ELSE desc
         /\ put = FALSE => "fail" \in happens
  BY DEF CloseFile
<1>2. /\ handle \in [Handles -> PathRec] /\ desc \in [Names -> FdRec]
      /\ \A g \in Handles : HandleSound(g) /\ \A f \in Handles : HandlesApart(f, g)
  BY DEF FilesInv, FileTypes, HandlesSound
<1>3. PICK n \in Names : n = handle[h].name
  <2>1. handle[h].name # NoName BY <1>1, <1>2 DEF HandleSound
  <2> QED BY <1>2, <2>1 DEF PathRec
<1>4. PICK d \in BOOLEAN, w \in BOOLEAN, fd \in FdRec :
        d = handle[h].dirty /\ w = handle[h].writes /\ fd = handle[h].fd
  BY <1>2 DEF PathRec
<1>5. n # NoName /\ entry[n] # 0 BY <1>2, <1>3, FileAssumption DEF HandleSound
<1>6. /\ d = TRUE => w = TRUE
      /\ w = TRUE /\ d = FALSE => fd = desc[n]
  BY <1>2, <1>3, <1>4 DEF HandleSound
<1>7. /\ desc' \in [Names -> FdRec] /\ desc'[n] = IF d = TRUE /\ put = TRUE THEN fd ELSE desc[n]
      /\ \A m \in Names \ {n} : desc'[m] = desc[m]
  BY <1>1, <1>2, <1>3, <1>4, <1>25
<1>8. handle' \in [Handles -> PathRec] /\ handle'[h] = Shut /\ \A g \in Handles \ {h} : handle'[g] = handle[g]
  BY <1>1, <1>2, ShutIs
<1>9. w = TRUE => \A g \in Handles \ {h} : handle[g].name # n
  BY <1>2, <1>3, <1>4 DEF HandlesApart
<1>10. Current(n) = IF w = TRUE THEN fd ELSE desc[n]
  <2>1. CASE w = TRUE
    <3>1. handle[h].name = n /\ handle[h].writes = TRUE BY <1>3, <1>4, <2>1
    <3> QED BY <1>2, <1>4, <2>1, <3>1, CurrentIs
  <2>2. CASE w = FALSE
    <3>1. \A g \in Handles : handle[g].name = n => ~(handle[g].writes = TRUE)
      BY <1>2, <1>3, <1>4, <2>2 DEF HandlesApart
    <3>2. Current(n) = desc[n] BY <1>2, <3>1, CurrentIs
    <3> QED BY <2>2, <3>2
  <2> QED BY <2>1, <2>2
<1>11. ASSUME NEW g \in Handles PROVE HandleSound(g)'
  <2>1. CASE g = h
    <3>1. handle'[g] = Shut BY <1>8, <2>1
    <3>2. Shut' = Shut BY DEF Shut, Empty
    <3> QED BY <3>1, <3>2, ShutIs DEF HandleSound
  <2>2. CASE g # h
    <3>1. handle'[g] = handle[g] /\ HandleSound(g) BY <1>2, <1>8, <2>2
    <3>2. handle[g].name \in Names \cup {NoName} BY <1>2 DEF PathRec
    <3>3. CASE handle[g].name = NoName
      <4>1. handle'[g] = Shut BY <3>1, <3>3 DEF HandleSound
      <4>2. Shut' = Shut BY DEF Shut, Empty
      <4> QED BY <4>1, <4>2, ShutIs DEF HandleSound
    <3>4. CASE handle[g].name # NoName
      <4>1. desc'[handle[g].name] = desc[handle[g].name]
        <5>1. CASE handle[g].name = n
          <6>1. w = FALSE BY <1>9, <2>2, <5>1
          <6> QED BY <1>6, <1>7, <5>1, <6>1
        <5>2. CASE handle[g].name # n BY <1>7, <3>2, <3>4, <5>2
        <5> QED BY <5>1, <5>2
      <4> QED BY <1>1, <3>1, <3>4, <4>1 DEF HandleSound
    <3> QED BY <3>3, <3>4
  <2> QED BY <2>1, <2>2
<1>12. ASSUME NEW f \in Handles, NEW g \in Handles PROVE HandlesApart(f, g)'
  <2> SUFFICES ASSUME f # g, handle'[f].name = handle'[g].name, handle'[g].writes = TRUE PROVE FALSE
    BY DEF HandlesApart
  <2>1. g # h BY <1>8, ShutIs
  <2>2. handle'[g] = handle[g] /\ handle[g].name # NoName
    BY <1>2, <1>8, <2>1, ShutIs DEF HandleSound
  <2>3. f # h BY <1>8, <2>2, ShutIs
  <2>4. HandlesApart(f, g) BY <1>2
  <2> QED BY <1>8, <2>1, <2>3, <2>4 DEF HandlesApart
<1>13. HandlesSound' BY <1>11, <1>12 DEF HandlesSound
<1>14. Current(n)' = desc'[n]
  <2>1. CASE \E g \in Handles : handle'[g].name = n /\ handle'[g].writes = TRUE
    <3>1. PICK g \in Handles : handle'[g].name = n /\ handle'[g].writes = TRUE BY <2>1
    <3>2. g # h BY <1>5, <1>8, <3>1, ShutIs
    <3>3. handle'[g] = handle[g] BY <1>8, <3>2
    <3>4. HandlesApart(h, g) BY <1>2
    <3>5. FALSE BY <1>3, <3>1, <3>2, <3>3, <3>4 DEF HandlesApart
    <3> QED BY <3>5
  <2>2. CASE \A g \in Handles : handle'[g].name = n => ~(handle'[g].writes = TRUE)
    <3>1. \A f, g \in Handles : HandlesApart(f, g)' BY <1>12
    <3> QED BY <2>2, <3>1, CurrentIsNext
  <2> QED BY <2>1, <2>2
<1>15. ASSUME NEW m \in Names \ {n} PROVE Current(m)' = Current(m)
  <2>1. handle[h].name # m /\ handle'[h].name # m BY <1>3, <1>8, ShutIs, FileAssumption
  <2>2. PICK P : P = {h} OBVIOUS
  <2>3. P \subseteq Handles /\ \A g \in P : handle[g].name # m /\ handle'[g].name # m BY <2>1, <2>2
  <2>4. \A g \in Handles \ P : handle'[g] = handle[g] BY <1>8, <2>2
  <2>5. desc'[m] = desc[m] /\ HandlesSound /\ m \in Names BY <1>7 DEF FilesInv
  <2> QED BY <1>13, <2>3, <2>4, <2>5, OthersStand
<1>17. VolumeSound BY <1>1 DEF FilesInv, Standing
<1>18. Occupied(n) \subseteq bitmap /\ FileSound(n) BY <1>17 DEF VolumeSound
<1>19. desc'[n] = Current(n) \/ (desc'[n] = desc[n] /\ "fail" \in happens)
  BY <1>6, <1>7, <1>10, <1>25
<1>16. /\ Range(desc'[n].secs) \subseteq Range(Current(n).secs)
       /\ "fail" \notin happens => desc'[n] = Current(n)
  BY <1>5, <1>18, <1>19 DEF FileSound
<1>26. /\ Occupied(n)' \subseteq Occupied(n)
       /\ "fail" \notin happens => Occupied(n)' = Occupied(n)
  BY <1>1, <1>14, <1>16 DEF Occupied
<1>23. FdSound(desc'[n])
  <2>1. FdSound(Current(n)) /\ FdSound(desc[n]) BY <1>5, <1>18 DEF FileSound, FilesInv
  <2> QED BY <1>19, <2>1
<1>20. FileSound(n)'
  <2>1. FdSound(Current(n))' BY <1>1, <1>14, <1>23 DEF FdSound
  <2> QED BY <1>1, <1>5, <1>14, <1>16, <1>18, <2>1 DEF FileSound
<1>21. OneTouched(n) BY <1>1, <1>7, <1>15, <1>18, <1>20, <1>26 DEF OneTouched
<1>22. FileTypes' BY <1>1, <1>7, <1>8 DEF FilesInv, FileTypes
<1>24. FdSound(desc[n])' BY <1>1, <1>23 DEF FdSound
<1> QED BY <1>1, <1>13, <1>21, <1>22, <1>24, CallKeeps

(***************************************************************************)
(* Writing and removing.                                                   *)
(***************************************************************************)
LEMMA ExtendKeeps ==
  ASSUME FilesInv, NEW h \in Handles, NEW k \in 0..(MaxLength - 1), Extend(h, k)
  PROVE  FilesInv'
<1>1. PICK fd : fd = handle[h].fd OBVIOUS
<1>37. PICK length \in Nat, put \in BOOLEAN : Written(h, k, length, put)
  <2>1. k + 1 \in Nat /\ 0..(k + 1) \subseteq Nat BY FileAssumption
  <2> QED BY <2>1 DEF Extend
<1>2. PICK v : v = GrownTo(fd, length) OBVIOUS
<1>3. PICK size, pos : /\ size = IF pos > fd.size THEN pos ELSE fd.size
                       /\ pos = IF put /\ Len(v.fd.secs) > k THEN k + 1 ELSE k
  OBVIOUS
<1>38. PICK kept : /\ kept \in IF "fail" \in happens THEN SUBSET v.spare ELSE {{}}
                   /\ bitmap' = v.used \cup kept
  <2>1. \E kept \in IF "fail" \in happens THEN SUBSET GrownTo(handle[h].fd, length).spare ELSE {{}} :
          bitmap' = GrownTo(handle[h].fd, length).used \cup kept
    BY <1>37, Zenon DEF Written
  <2> QED BY <1>1, <1>2, <2>1
<1>4. /\ mount = "yes" /\ handle[h].writes /\ hint' = v.hint
      /\ "seek" \in happens \/ k <= fd.size
      /\ handle' = [handle EXCEPT ![h].fd = [v.fd EXCEPT !.size = size],
                                  ![h].dirty = @ \/ v.fd # fd \/ size # fd.size]
      /\ entry' = entry /\ desc' = desc /\ ident' = ident /\ mount' = mount /\ happens' = happens
  <2>1. /\ hint' = v.hint
        /\ handle' = [handle EXCEPT ![h].fd = [v.fd EXCEPT !.size = size],
                                    ![h].dirty = @ \/ v.fd # fd \/ size # fd.size]
    BY <1>1, <1>2, <1>3, <1>37, Zenon DEF Written
  <2> QED BY <1>1, <2>1 DEF Extend
<1>5. /\ handle \in [Handles -> PathRec] /\ desc \in [Names -> FdRec] /\ bitmap \subseteq Marks /\ hint \in Nat
      /\ \A g \in Handles : HandleSound(g) /\ \A f \in Handles : HandlesApart(f, g)
  BY DEF FilesInv, FileTypes, HandlesSound
<1>6. PICK n \in Names, d \in BOOLEAN, w \in BOOLEAN :
        n = handle[h].name /\ d = handle[h].dirty /\ w = handle[h].writes
  <2>1. handle[h].name # NoName BY <1>4, <1>5, ShutIs DEF HandleSound
  <2> QED BY <1>5, <2>1 DEF PathRec
<1>7. /\ fd \in FdRec /\ handle[h] = [name |-> n, fd |-> fd, dirty |-> d, writes |-> w]
      /\ w = TRUE /\ handle[h].writes = TRUE
  BY <1>1, <1>4, <1>5, <1>6 DEF PathRec
<1>8. n # NoName /\ entry[n] # 0 /\ (d = FALSE => fd = desc[n])
  <2>1. HandleSound(h) /\ n # NoName BY <1>5, FileAssumption
  <2> QED BY <1>1, <1>6, <1>7, <2>1 DEF HandleSound
<1>9. Current(n) = fd
  <2>1. \A g \in Handles, f \in Handles : HandlesApart(g, f) BY <1>5
  <2>2. handle[h].name = n /\ handle[h].fd = fd BY <1>1, <1>6
  <2> QED BY <1>7, <2>1, <2>2, CurrentIs
<1>10. VolumeSound BY <1>4 DEF FilesInv, Standing
<1>11. Occupied(n) \subseteq bitmap /\ FileSound(n) BY <1>10 DEF VolumeSound
<1>12. FdSound(fd) /\ entry[n] \notin Range(fd.secs) BY <1>8, <1>9, <1>11 DEF FileSound
<1>13. Occupied(n) = {entry[n]} \cup Range(fd.secs) BY <1>8, <1>9 DEF Occupied
<1>14. GrownFrom(v, bitmap, fd)
  <2>2. Range(fd.secs) \subseteq bitmap /\ IsInjective(fd.secs) BY <1>11, <1>12, <1>13 DEF FdSound
  <2> QED BY <1>2, <1>5, <1>7, <2>2, GrownToIs
<1>15. /\ v.fd \in FdRec /\ v.used \subseteq Marks /\ v.hint \in Nat /\ v.spare \subseteq Marks
       /\ v.fd.secs \in Seq(Sectors) /\ Len(v.fd.secs) \in Nat /\ Len(fd.secs) \in Nat /\ fd.size \in Nat
  BY <1>7, <1>14 DEF GrownFrom, GrowRec, FdRec
<1>16. size \in Nat /\ ("seek" \notin happens => size <= Len(v.fd.secs))
  <2>1. k \in Nat BY FileAssumption
  <2>2. pos \in Nat /\ (pos = k \/ pos <= Len(v.fd.secs)) BY <1>3, <1>15, <2>1
  <2>3. size \in Nat /\ (size = pos \/ size = fd.size) /\ (size = pos => pos >= fd.size)
    BY <1>3, <1>15, <2>2
  <2>4. ASSUME "seek" \notin happens PROVE fd.size <= Len(v.fd.secs) /\ k <= fd.size
    BY <1>4, <1>12, <1>14, <1>15, <2>4 DEF FdSound, GrownFrom
  <2> QED BY <1>15, <2>1, <2>2, <2>3, <2>4
<1>17. PICK nfd : nfd = [v.fd EXCEPT !.size = size] OBVIOUS
<1>18. nfd \in FdRec /\ nfd.secs = v.fd.secs /\ nfd.size = size BY <1>15, <1>16, <1>17 DEF FdRec
<1>19. PICK e \in BOOLEAN : e = (d \/ v.fd # fd \/ size # fd.size) OBVIOUS
<1>20. PICK r : r = [handle[h] EXCEPT !.fd = nfd, !.dirty = e] OBVIOUS
<1>21. handle' = [handle EXCEPT ![h] = r] BY <1>4, <1>6, <1>17, <1>19, <1>20
<1>22. r \in PathRec /\ r.name = n /\ r.fd = nfd /\ r.dirty = e /\ r.writes = TRUE
  <2>1. PICK o \in PathRec : o = handle[h] /\ o.name = n /\ o.writes = w BY <1>5, <1>6
  <2>2. PICK o1 : o1 = [o EXCEPT !.fd = nfd] OBVIOUS
  <2>3. o1 \in PathRec /\ o1.name = n /\ o1.writes = w /\ o1.fd = nfd BY <1>18, <2>1, <2>2 DEF PathRec
  <2>4. r = [o1 EXCEPT !.dirty = e] BY <1>20, <2>1, <2>2, <2>3 DEF PathRec
  <2> QED BY <1>7, <1>18, <1>19, <2>3, <2>4 DEF PathRec
<1>23. /\ handle' \in [Handles -> PathRec] /\ handle'[h] = r
       /\ \A g \in Handles \ {h} : handle'[g] = handle[g]
  BY <1>5, <1>21, <1>22
<1>24. ASSUME NEW g \in Handles PROVE HandleSound(g)'
  <2>1. CASE g = h
    <3>1. e = FALSE => nfd = desc[n]
      <4>1. ASSUME e = FALSE PROVE v.fd = fd /\ size = fd.size /\ d = FALSE BY <1>19, <4>1
      <4>2. ASSUME v.fd = fd, size = fd.size PROVE nfd = fd BY <1>7, <1>17, <4>2 DEF FdRec
      <4> QED BY <1>8, <4>1, <4>2
    <3> QED BY <1>4, <1>8, <1>22, <1>23, <2>1, <3>1 DEF HandleSound
  <2>2. CASE g # h
    <3>1. handle'[g] = handle[g] /\ HandleSound(g) BY <1>5, <1>23, <2>2
    <3>2. Shut' = Shut BY DEF Shut, Empty
    <3> QED BY <1>4, <3>1, <3>2 DEF HandleSound
  <2> QED BY <2>1, <2>2
<1>25. ASSUME NEW f \in Handles, NEW g \in Handles PROVE HandlesApart(f, g)'
  <2>1. handle'[f].name = handle[f].name /\ handle'[g].name = handle[g].name
    BY <1>6, <1>22, <1>23
  <2>2. handle'[g].writes = TRUE => handle[g].writes = TRUE BY <1>7, <1>22, <1>23
  <2>3. HandlesApart(f, g) BY <1>5
  <2> QED BY <2>1, <2>2, <2>3 DEF HandlesApart
<1>26. HandlesSound' BY <1>24, <1>25 DEF HandlesSound
<1>27. Current(n)' = nfd
  <2>1. \A f, g \in Handles : HandlesApart(f, g)' BY <1>25
  <2>2. handle'[h].name = n /\ handle'[h].writes = TRUE /\ handle'[h].fd = nfd BY <1>22, <1>23
  <2> QED BY <2>1, <2>2, CurrentIsNext
<1>28. ASSUME NEW m \in Names \ {n} PROVE Current(m)' = Current(m)
  <2>1. handle[h].name # m /\ handle'[h].name # m BY <1>6, <1>22, <1>23
  <2>2. PICK P : P = {h} OBVIOUS
  <2>3. P \subseteq Handles /\ \A g \in P : handle[g].name # m /\ handle'[g].name # m BY <2>1, <2>2
  <2>4. \A g \in Handles \ P : handle'[g] = handle[g] BY <1>23, <2>2
  <2>5. desc'[m] = desc[m] /\ HandlesSound /\ m \in Names BY <1>4 DEF FilesInv
  <2> QED BY <1>26, <2>3, <2>4, <2>5, OthersStand
<1>29. /\ bitmap \subseteq bitmap' /\ v.used \subseteq bitmap' /\ bitmap' \subseteq Marks
       /\ Range(nfd.secs) = Range(fd.secs) \cup (v.used \ bitmap)
       /\ "fail" \notin happens => bitmap' = v.used
  BY <1>14, <1>15, <1>18, <1>38 DEF GrownFrom
<1>30. Occupied(n)' = {entry[n]} \cup Range(nfd.secs) BY <1>4, <1>8, <1>27 DEF Occupied
<1>31. FdSound(nfd) BY <1>14, <1>16, <1>18 DEF FdSound, GrownFrom
<1>32. entry[n] \notin Range(nfd.secs) BY <1>11, <1>12, <1>13, <1>29
<1>33. FileSound(n)'
  <2>1. happens \cap {"fail", "cut"} # {} => Range(desc[n].secs) \subseteq Range(nfd.secs)
    BY <1>8, <1>9, <1>11, <1>29 DEF FileSound
  <2>2. FdSound(Current(n))' BY <1>4, <1>27, <1>31 DEF FdSound
  <2> QED BY <1>4, <1>27, <1>32, <2>1, <2>2 DEF FileSound
<1>34. OneTouched(n) BY <1>4, <1>11, <1>13, <1>28, <1>29, <1>30, <1>33 DEF OneTouched
<1>35. FileTypes' BY <1>4, <1>15, <1>23, <1>29 DEF FilesInv, FileTypes
<1>36. FdSound(desc[n])' BY <1>4 DEF FilesInv, FdSound
<1> QED BY <1>4, <1>26, <1>34, <1>35, <1>36, CallKeeps

LEMMA UnlinkKeeps ==
  ASSUME CleanWorlds, FilesInv, NEW n \in Names, Unlink(n)
  PROVE  FilesInv'
<1>1. /\ mount = "yes" /\ entry[n] # 0 /\ \A g \in Handles : handle[g].name # n
      /\ bitmap' \in Cleared(bitmap, {entry[n]} \cup Range(desc[n].secs))
      /\ entry' = [entry EXCEPT ![n] = 0] /\ desc' = [desc EXCEPT ![n] = Empty]
      /\ ident' = ident /\ hint' = hint /\ mount' = mount /\ handle' = handle /\ happens' = happens
  <2>1. "tear" \notin happens BY DEF CleanWorlds, FilesInv, FileTypes
  <2> QED BY <2>1 DEF Unlink, Users
<1>13. bitmap' \subseteq bitmap BY <1>1 DEF Cleared
<1>2. /\ entry' \in [Names -> Sectors] /\ desc' \in [Names -> FdRec] /\ entry'[n] = 0 /\ desc'[n] = Empty
      /\ \A m \in Names \ {n} : entry'[m] = entry[m] /\ desc'[m] = desc[m]
  BY <1>1, ShutIs, VolumeFacts DEF FilesInv, FileTypes
<1>3. FileTypes' BY <1>1, <1>2, <1>13 DEF FilesInv, FileTypes
<1>4. HandlesSound'
  <2>1. ASSUME NEW g \in Handles PROVE HandleSound(g)'
    <3>1. HandleSound(g) /\ handle[g].name \in Names \cup {NoName}
      BY DEF FilesInv, HandlesSound, FileTypes, PathRec
    <3>2. Shut' = Shut /\ handle'[g] = handle[g] /\ handle[g].name # n BY <1>1 DEF Shut, Empty
    <3>3. CASE handle[g].name = NoName
      BY <3>1, <3>2, <3>3, ShutIs DEF HandleSound
    <3>4. CASE handle[g].name \in Names \ {n}
      <4>1. handle[g].name # NoName BY <3>4, FileAssumption
      <4> QED BY <1>1, <1>2, <3>1, <3>2, <3>4, <4>1 DEF HandleSound
    <3> QED BY <3>1, <3>2, <3>3, <3>4
  <2>2. \A f, g \in Handles : HandlesApart(f, g)' BY <1>1 DEF FilesInv, HandlesSound, HandlesApart
  <2> QED BY <2>1, <2>2 DEF HandlesSound
<1>5. ASSUME NEW m \in Names \ {n} PROVE Current(m)' = Current(m)
  <2>1. PICK P : P = {} OBVIOUS
  <2>2. P \subseteq Handles /\ \A g \in P : handle[g].name # m /\ handle'[g].name # m BY <2>1
  <2>3. \A g \in Handles \ P : handle'[g] = handle[g] BY <1>1
  <2>4. desc'[m] = desc[m] /\ HandlesSound /\ m \in Names BY <1>2 DEF FilesInv
  <2> QED BY <1>4, <2>2, <2>3, <2>4, OthersStand
<1>6. Current(n) = desc[n]
  <2>1. \A g \in Handles : handle[g].name = n => ~(handle[g].writes = TRUE) BY <1>1
  <2> QED BY <2>1, CurrentIs DEF FilesInv, HandlesSound
<1>7. Occupied(n) = {entry[n]} \cup Range(desc[n].secs) BY <1>1, <1>6 DEF Occupied
<1>12. /\ bitmap' \subseteq bitmap /\ bitmap \ Occupied(n) \subseteq bitmap'
       /\ "fail" \notin happens => bitmap' = bitmap \ Occupied(n)
  BY <1>1, <1>7 DEF Cleared
<1>8. Occupied(n)' = {} BY <1>2 DEF Occupied
<1>9. FileSound(n)' BY <1>2 DEF FileSound
<1>10. OneTouched(n) BY <1>1, <1>2, <1>5, <1>8, <1>9, <1>12 DEF OneTouched
<1>11. FdSound(desc[n])'
  <2>1. desc'[n] = Empty BY <1>2
  <2> QED BY <1>1, <2>1, ShutIs DEF FdSound
<1> QED BY <1>1, <1>3, <1>4, <1>10, <1>11, CallKeeps

(***************************************************************************)
(* Mounting, formatting and the loss of power.                             *)
(***************************************************************************)
LEMMA PathsNone ==
  ASSUME HandlesSound, \A h \in Handles : handle[h].name = NoName
  PROVE  \A h \in Handles : handle[h] = Shut
BY DEF HandlesSound, HandleSound

LEMMA PathsAllShut ==
  ASSUME \A h \in Handles : handle'[h] = Shut
  PROVE  HandlesSound'
<1>1. Shut' = Shut BY DEF Shut, Empty
<1> QED BY <1>1, ShutIs DEF HandlesSound, HandleSound, HandlesApart

\* With no path, what is current is what is on the medium.
LEMMA MediumIs ==
  ASSUME \A h \in Handles : handle[h] = Shut, NEW n \in Names
  PROVE  Current(n) = desc[n]
<1>1. \A g, h \in Handles : HandlesApart(g, h) BY ShutIs DEF HandlesApart
<1>2. \A h \in Handles : handle[h].name = n => ~(handle[h].writes = TRUE) BY ShutIs
<1> QED BY <1>1, <1>2, CurrentIs

LEMMA MountKeeps ==
  ASSUME FilesInv, Mount
  PROVE  FilesInv'
<1>1. /\ mount = "no" /\ mount' = IF ident THEN "yes" ELSE "bitmap"
      /\ bitmap' = bitmap /\ entry' = entry /\ desc' = desc /\ ident' = ident /\ hint' = hint
      /\ handle' = handle /\ happens' = happens
  BY DEF Mount, medium
<1>2. \A h \in Handles : handle[h] = Shut
  BY <1>1, PathsNone DEF FilesInv, HandlesSound, HandleSound
<1>3. HandlesSound' BY <1>1, <1>2, PathsAllShut
<1>4. FileTypes' BY <1>1 DEF FilesInv, FileTypes
<1>5. FormatSound' BY <1>1 DEF FormatSound
<1>6. \A n \in Names : FdSound(desc[n])' BY <1>1 DEF FilesInv, FdSound
<1>7. ASSUME Standing' PROVE VolumeSound'
  <2>1. Standing BY <1>1, <1>7 DEF Standing
  <2>2. VolumeSound BY <2>1 DEF FilesInv
  <2>3. \A n \in Names : Current(n)' = Current(n) BY <1>1 DEF Current, Writing, Users
  <2>4. \A n \in Names : Occupied(n)' = Occupied(n) BY <1>1, <2>3 DEF Occupied
  <2>5. \A n \in Names : FileSound(n)' BY <1>1, <2>2, <2>3 DEF VolumeSound, FileSound, FdSound
  <2>6. Tidy' BY <1>1, <2>2, <2>4 DEF VolumeSound, Tidy
  <2>7. Meta' = Meta BY DEF Meta, Maps
  <2> QED BY <1>1, <2>2, <2>4, <2>5, <2>6, <2>7 DEF VolumeSound, FilesApart
<1> QED BY <1>3, <1>4, <1>5, <1>6, <1>7 DEF FilesInv

\* A step of a format leaves no path open, and the volume is not used yet.
LEMMA FormatKeeps ==
  ASSUME FilesInv, Reformat \/ ZeroBitmap \/ ZeroRoot \/ WriteIdent \/ ReserveOne
  PROVE  FilesInv'
<1>1. \A h \in Handles : handle[h] = Shut
  <2>1. \A h \in Handles : handle[h].name = NoName
    <3>1. CASE mount = "yes"
      <4>1. \A n \in Names, h \in Handles : handle[h].name # n
        BY <3>1 DEF Reformat, ZeroBitmap, ZeroRoot, WriteIdent, ReserveOne, Users
      <4> QED BY <4>1 DEF FilesInv, FileTypes, PathRec
    <3>2. CASE mount # "yes" BY <3>2 DEF FilesInv, HandlesSound, HandleSound
    <3> QED BY <3>1, <3>2
  <2> QED BY <2>1, PathsNone DEF FilesInv
<1>2. handle' = handle /\ happens' = happens /\ mount' \in {"bitmap", "root", "ident", "reserve"}
  BY DEF Reformat, ZeroBitmap, ZeroRoot, WriteIdent, ReserveOne, medium
<1>3. HandlesSound' BY <1>1, <1>2, PathsAllShut
<1>4. ~Standing' BY <1>2 DEF Standing
<1>5. ASSUME ReserveOne PROVE Min(Meta \ bitmap) \in Meta
  <2>1. IsFiniteSet(Meta)
    <3>1. Maps + RootSectors \in Nat BY VolumeFacts, FileAssumption
    <3> QED BY <3>1, FS_Interval DEF Meta
  <2>2. IsFiniteSet(Meta \ bitmap) /\ Meta \ bitmap \subseteq Nat BY <2>1, VolumeFacts, FS_Subset
  <2>3. Meta \ bitmap # {} BY <1>5 DEF ReserveOne
  <2> QED BY <2>2, <2>3, LeastExists
<1>6. /\ bitmap' \in SUBSET Marks /\ ident' \in BOOLEAN /\ hint' \in Nat
  <2>1. CASE ReserveOne BY <1>5, <2>1 DEF ReserveOne, FilesInv, FileTypes, Marks
  <2>2. CASE Reformat \/ ZeroBitmap \/ ZeroRoot \/ WriteIdent
    <3>1. bitmap \in SUBSET Marks /\ ident \in BOOLEAN /\ hint \in Nat /\ 0 \in Nat /\ TRUE \in BOOLEAN
      BY DEF FilesInv, FileTypes
    <3>2. CASE Reformat BY <3>1, <3>2 DEF Reformat, medium
    <3>3. CASE ZeroBitmap BY <3>1, <3>3 DEF ZeroBitmap
    <3>4. CASE ZeroRoot BY <3>1, <3>4 DEF ZeroRoot
    <3>5. CASE WriteIdent BY <3>1, <3>5 DEF WriteIdent
    <3> QED BY <2>2, <3>2, <3>3, <3>4, <3>5
  <2> QED BY <2>1, <2>2
<1>7. entry' \in [Names -> Sectors] /\ desc' \in [Names -> FdRec] /\ \A n \in Names : FdSound(desc'[n])
  <2>1. CASE ZeroRoot BY <2>1, ShutIs, VolumeFacts DEF ZeroRoot, FdSound
  <2>2. CASE Reformat \/ ZeroBitmap \/ WriteIdent \/ ReserveOne
    BY <2>2 DEF Reformat, ZeroBitmap, ReserveOne, WriteIdent, medium, FilesInv, FileTypes
  <2> QED BY <2>1, <2>2
<1>8. FileTypes' BY <1>2, <1>6, <1>7 DEF FilesInv, FileTypes
<1>9. FormatSound'
  <2>1. CASE ReserveOne BY <1>5, <2>1 DEF ReserveOne, FilesInv, FormatSound, Meta, Maps
  <2>2. CASE Reformat \/ ZeroBitmap BY <2>2 DEF Reformat, ZeroBitmap, FormatSound, Meta, Maps
  <2>3. CASE ZeroRoot \/ WriteIdent
    BY <2>3 DEF ZeroRoot, WriteIdent, FilesInv, FormatSound, Meta, Maps
  <2> QED BY <2>1, <2>2, <2>3
<1>10. \A n \in Names : FdSound(desc[n])' BY <1>2, <1>7 DEF FdSound
<1> QED BY <1>3, <1>4, <1>8, <1>9, <1>10 DEF FilesInv

LEMMA FormattedKeeps ==
  ASSUME FilesInv, Formatted
  PROVE  FilesInv'
<1>1. /\ mount = "reserve" /\ Meta \subseteq bitmap /\ mount' = "yes"
      /\ bitmap' = bitmap /\ entry' = entry /\ desc' = desc /\ ident' = ident /\ hint' = hint
      /\ handle' = handle /\ happens' = happens
  BY DEF Formatted, medium
<1>2. \A h \in Handles : handle[h] = Shut
  BY <1>1, PathsNone DEF FilesInv, HandlesSound, HandleSound
<1>3. HandlesSound' BY <1>1, <1>2, PathsAllShut
<1>4. FileTypes' BY <1>1 DEF FilesInv, FileTypes
<1>5. FormatSound' BY <1>1 DEF FormatSound
<1>6. \A n \in Names : FdSound(desc[n])' BY <1>1 DEF FilesInv, FdSound
<1>7. bitmap = Meta /\ \A n \in Names : entry[n] = 0 BY <1>1 DEF FilesInv, FormatSound
<1>8. \A n \in Names : Occupied(n)' = {} BY <1>1, <1>7 DEF Occupied
<1>9. Meta' = Meta BY DEF Meta, Maps
<1>10. Tidy' BY <1>1, <1>7, <1>8, <1>9 DEF Tidy
<1>11. \A n \in Names : FileSound(n)' BY <1>1, <1>7 DEF FileSound
<1>12. VolumeSound' BY <1>1, <1>8, <1>9, <1>10, <1>11 DEF VolumeSound, FilesApart
<1> QED BY <1>3, <1>4, <1>5, <1>6, <1>12 DEF FilesInv

LEMMA CutKeeps ==
  ASSUME CleanWorlds, FilesInv, CutPower
  PROVE  FilesInv'
<1>1. /\ (IF mount = "yes" THEN "cut" ELSE "half") \in happens
      /\ mount' = "no" /\ hint' = 0 /\ handle' = [h \in Handles |-> Shut]
      /\ bitmap' = bitmap /\ entry' = entry /\ desc' = desc /\ ident' = ident
      /\ happens' = happens
  BY DEF CutPower, medium
<1>2. mount = "yes" /\ "cut" \in happens BY <1>1 DEF CleanWorlds, FilesInv, FileTypes
<1>3. handle' \in [Handles -> PathRec] /\ \A h \in Handles : handle'[h] = Shut BY <1>1, ShutIs
<1>4. HandlesSound' BY <1>3, PathsAllShut
<1>5. FileTypes' BY <1>1, <1>3 DEF FilesInv, FileTypes
<1>6. FormatSound' BY <1>1 DEF FormatSound
<1>7. \A n \in Names : FdSound(desc[n])' BY <1>1 DEF FilesInv, FdSound
<1>8. VolumeSound BY <1>2 DEF FilesInv, Standing
<1>9. ASSUME NEW n \in Names PROVE Current(n)' = desc[n]
  <2>1. \A g, h \in Handles : HandlesApart(g, h)' BY <1>3, ShutIs DEF HandlesApart
  <2>2. \A h \in Handles : handle'[h].name = n => ~(handle'[h].writes = TRUE) BY <1>3, ShutIs
  <2> QED BY <1>1, <2>1, <2>2, CurrentIsNext
<1>10. ASSUME NEW n \in Names PROVE Occupied(n)' \subseteq Occupied(n) /\ FileSound(n)'
  <2>1. FileSound(n) /\ FdSound(desc[n]) BY <1>8 DEF VolumeSound, FilesInv
  <2>2. CASE entry[n] = 0 BY <1>1, <2>2 DEF Occupied, FileSound
  <2>3. CASE entry[n] # 0
    <3>1. Range(desc[n].secs) \subseteq Range(Current(n).secs) BY <1>2, <2>1, <2>3 DEF FileSound
    <3>2. FdSound(Current(n))' BY <1>1, <1>9, <2>1 DEF FdSound
    <3> QED BY <1>1, <1>9, <2>1, <2>3, <3>1, <3>2 DEF Occupied, FileSound
  <2> QED BY <2>2, <2>3
<1>11. Tidy' BY <1>1, <1>2 DEF Tidy
<1>12. Meta' = Meta BY DEF Meta, Maps
<1>13. VolumeSound'
  BY <1>1, <1>8, <1>10, <1>11, <1>12 DEF VolumeSound, FilesApart
<1> QED BY <1>4, <1>5, <1>6, <1>7, <1>13 DEF FilesInv

LEMMA FilesStart ==
  ASSUME FileInit
  PROVE  FilesInv
<1>1. FileTypes /\ (\A h \in Handles : handle[h] = Shut) /\ ~Standing
  BY ShutIs, VolumeFacts DEF FileInit, FileTypes, Standing
<1>2. HandlesSound BY <1>1, ShutIs DEF HandlesSound, HandleSound, HandlesApart
<1>3. FormatSound /\ \A n \in Names : FdSound(desc[n]) BY ShutIs DEF FileInit, FormatSound, FdSound
<1> QED BY <1>1, <1>2, <1>3 DEF FilesInv

LEMMA FilesStutter ==
  ASSUME FilesInv, UNCHANGED fileVars
  PROVE  FilesInv'
<1>1. /\ bitmap' = bitmap /\ entry' = entry /\ desc' = desc /\ ident' = ident /\ hint' = hint
      /\ mount' = mount /\ handle' = handle /\ happens' = happens
  BY DEF fileVars
<1>2. FileTypes' BY <1>1 DEF FilesInv, FileTypes
<1>3. HandlesSound'
  <2>1. Shut' = Shut BY DEF Shut, Empty
  <2> QED BY <1>1, <2>1 DEF FilesInv, HandlesSound, HandleSound, HandlesApart
<1>4. Meta' = Meta BY DEF Meta, Maps
<1>5. FormatSound' /\ \A n \in Names : FdSound(desc[n])'
  BY <1>1, <1>4 DEF FilesInv, FormatSound, FdSound
<1>6. \A n \in Names : Current(n)' = Current(n) BY <1>1 DEF Current, Writing, Users
<1>7. \A n \in Names : Occupied(n)' = Occupied(n) BY <1>1, <1>6 DEF Occupied
<1>8. ASSUME Standing' PROVE VolumeSound'
  <2>1. VolumeSound BY <1>1, <1>8 DEF FilesInv, Standing
  <2>2. \A n \in Names : FileSound(n)' BY <1>1, <1>6, <2>1 DEF VolumeSound, FileSound, FdSound
  <2>3. Tidy' BY <1>1, <1>4, <1>7, <2>1 DEF VolumeSound, Tidy
  <2> QED BY <1>1, <1>4, <1>7, <2>1, <2>2, <2>3 DEF VolumeSound, FilesApart
<1> QED BY <1>2, <1>3, <1>5, <1>8 DEF FilesInv

\* No sector is in two files, or in a file and the volume's own, and none that a
\* file or the volume has is clear in the bitmap; where nothing fails none is
\* lost (rbf_open, rbf_write, rbf_seek, rbf_close, rbf_remove, rbf_mount), for any
\* volume, names and paths, where the power goes between calls and where reads
\* and writes of bits, data, a new entry and a closed descriptor fail; but not
\* with a truncation beside these, nor a failure between an entry and its
\* descriptor or in a format: the code loses the property there.
THEOREM FilesKept ==
  ASSUME CleanWorlds
  PROVE  FileSpec => []SectorsHaveOneUse
<1>1. FileInit => FilesInv BY FilesStart
<1>2. FilesInv /\ [FileNext]_fileVars => FilesInv'
  <2> SUFFICES ASSUME FilesInv, [FileNext]_fileVars PROVE FilesInv' OBVIOUS
  <2>1. CASE UNCHANGED fileVars BY <2>1, FilesStutter
  <2>2. CASE FileNext
    BY <2>2, MountKeeps, FormatKeeps, FormattedKeeps, CutKeeps, PathCloseKeeps, ExtendKeeps, LookupKeeps,
       TruncateKeeps, CreateKeeps, UnlinkKeeps DEF FileNext
  <2> QED BY <2>1, <2>2
<1>3. FilesInv => SectorsHaveOneUse BY FilesInvSays
<1> QED BY <1>1, <1>2, <1>3, PTL DEF FileSpec

(***************************************************************************)
(* The flash disk is a disk, however the flash fails and the power goes.   *)
(* What makes it so is that a block has one slot, that a slot that is not  *)
(* dirty is what the flash holds, and that a block is erased only under a  *)
(* slot that stays dirty.                                                  *)
(***************************************************************************)
OneSlot ==
  \A i, j \in Slots : slot[i].block # NoBlock /\ slot[i].block = slot[j].block => i = j

CleanIsPutBack ==
  \A i \in Slots : slot[i].block # NoBlock /\ ~slot[i].dirty => slot[i].data = flash[slot[i].block]

ErasedIsDirty ==
  erased # 0 => /\ slot[erased].block # NoBlock /\ slot[erased].dirty
                /\ flash[slot[erased].block] = AllOnes

Stands ==
  /\ \A b \in Blocks : (\A i \in Slots : slot[i].block # b) => flash[b] = written[b]
  /\ \A i \in Slots : slot[i].block # NoBlock => slot[i].data = written[slot[i].block]

WantsWhatIsNotThere ==
  wants # NoWant => \A i \in Slots : slot[i].block # wants.block

FlashInv ==
  /\ FlashTypeOK /\ OneSlot /\ CleanIsPutBack /\ ErasedIsDirty /\ Stands /\ WantsWhatIsNotThere
  /\ OnlyFreshAtRisk

LEMMA FlashInvInit == FlashInit => FlashInv
<1> SUFFICES ASSUME FlashInit PROVE FlashInv OBVIOUS
<1> USE FlashAssumption DEF FlashInit
<1>1. AllOnes \in [Parts -> Value] BY DEF AllOnes, Value
<1>2. FlashTypeOK BY <1>1 DEF FlashTypeOK, NoSlot
<1>3. OneSlot /\ CleanIsPutBack BY DEF OneSlot, CleanIsPutBack, NoSlot
<1>4. ErasedIsDirty /\ Stands /\ WantsWhatIsNotThere
  BY DEF ErasedIsDirty, Stands, WantsWhatIsNotThere, NoSlot
<1>5. OnlyFreshAtRisk BY DEF OnlyFreshAtRisk
<1> QED BY <1>2, <1>3, <1>4, <1>5 DEF FlashInv

\* A slot that may be put back, and what putting it back needs.
LEMMA Burning ==
  ASSUME FlashInv, NEW i \in Slots, MayBurn(i)
  PROVE  /\ slot[i].block \in Blocks /\ slot[i].dirty
         /\ \A s \in Parts : slot[i].data[s] \subseteq flash[slot[i].block][s]
         /\ slot[i].data = written[slot[i].block]
         /\ erased \in {0, i}
<1> USE DEF FlashInv, FlashTypeOK
<1>1. slot[i].block \in Blocks \cup {NoBlock} /\ slot[i].data \in [Parts -> Value] OBVIOUS
<1>2. CASE erased = i
  <2>1. slot[i].block # NoBlock /\ slot[i].dirty /\ flash[slot[i].block] = AllOnes
    BY <1>2, FlashAssumption DEF ErasedIsDirty
  <2>2. \A s \in Parts : AllOnes[s] = Bits BY DEF AllOnes
  <2>3. \A s \in Parts : slot[i].data[s] \subseteq Bits BY <1>1 DEF Value
  <2> QED BY <1>1, <1>2, <2>1, <2>2, <2>3 DEF Stands
<1>3. CASE MayFlush(i) /\ ClearsOnly(i)
  BY <1>1, <1>3 DEF MayFlush, ClearsOnly, Stands
<1> QED BY <1>2, <1>3 DEF MayBurn

\* What a write of the flash leaves: of a block that only loses bits, some of
\* the sectors become those of the data, the others stay.
LEMMA Burns ==
  ASSUME FlashInv, NEW b \in Blocks, NEW data \in [Parts -> Value], NEW some \in SUBSET Parts,
         \A s \in Parts : data[s] \subseteq flash[b][s]
  PROVE  /\ Burnt(b, data, some) \in [Blocks -> [Parts -> Value]]
         /\ \A c \in Blocks : c # b => Burnt(b, data, some)[c] = flash[c]
         /\ \A s \in Parts : Burnt(b, data, some)[b][s] = (IF s \in some THEN data[s] ELSE flash[b][s])
         /\ some = Parts => Burnt(b, data, some)[b] = data
<1> USE DEF FlashInv, FlashTypeOK
<1> DEFINE new == [s \in Parts |-> IF s \in some THEN flash[b][s] \cap data[s] ELSE flash[b][s]]
<1>1. Burnt(b, data, some) = [flash EXCEPT ![b] = new] BY DEF Burnt
<1>2. new \in [Parts -> Value] BY DEF Value
<1>3. \A s \in Parts : new[s] = (IF s \in some THEN data[s] ELSE flash[b][s])
  <2> SUFFICES ASSUME NEW s \in Parts PROVE new[s] = (IF s \in some THEN data[s] ELSE flash[b][s])
    OBVIOUS
  <2>1. flash[b][s] \cap data[s] = data[s] OBVIOUS
  <2> QED BY <2>1
<1>4. some = Parts => new = data BY <1>2, <1>3
<1> HIDE DEF new
<1> QED BY <1>1, <1>2, <1>3, <1>4

LEMMA FlashInvStep == FlashInv /\ [FlashNext]_flashVars => FlashInv'
<1> SUFFICES ASSUME FlashInv, [FlashNext]_flashVars PROVE FlashInv' OBVIOUS
<1> USE FlashAssumption
<1>0. AllOnes \in [Parts -> Value] BY DEF AllOnes, Value
<1>1. ASSUME NEW i \in Slots, Erase(i) PROVE FlashInv'
  <2>1. slot[i].block \in Blocks /\ slot[i].dirty /\ i # 0
    BY <1>1 DEF Erase, MayFlush, FlashInv, FlashTypeOK
  <2> DEFINE b == slot[i].block
  <2>2. /\ erased' = i /\ flash' = [flash EXCEPT ![b] = AllOnes] /\ torn' = torn \cup {b}
        /\ UNCHANGED <<slot, wants, written, fresh, cuts>>
    BY <1>1 DEF Erase
  <2>3. FlashTypeOK' BY <1>0, <2>1, <2>2 DEF FlashInv, FlashTypeOK
  <2>4. OneSlot' /\ WantsWhatIsNotThere' BY <2>2 DEF FlashInv, OneSlot, WantsWhatIsNotThere
  <2>5. CleanIsPutBack'
    <3> SUFFICES ASSUME NEW j \in Slots, slot[j].block # NoBlock, ~slot[j].dirty
                 PROVE slot[j].data = flash'[slot[j].block]
      BY <2>2 DEF CleanIsPutBack
    <3>1. slot[j].block # b BY <2>1 DEF FlashInv, OneSlot
    <3>2. flash'[slot[j].block] = flash[slot[j].block]
      BY <2>1, <2>2, <3>1 DEF FlashInv, FlashTypeOK
    <3> QED BY <3>2 DEF FlashInv, CleanIsPutBack
  <2>6. ErasedIsDirty' BY <2>1, <2>2 DEF FlashInv, FlashTypeOK, ErasedIsDirty
  <2>7. Stands' BY <2>1, <2>2 DEF FlashInv, FlashTypeOK, Stands
  <2>8. OnlyFreshAtRisk'
    <3> SUFFICES ASSUME NEW c \in Blocks, NEW s \in Parts, <<c, s>> \notin fresh, c \notin torn', c # b
                 PROVE flash'[c][s] = written[c][s]
      BY <2>2 DEF OnlyFreshAtRisk
    <3> QED BY <2>1, <2>2 DEF FlashInv, FlashTypeOK, OnlyFreshAtRisk
  <2> QED BY <2>3, <2>4, <2>5, <2>6, <2>7, <2>8 DEF FlashInv
<1>2. ASSUME NEW i \in Slots, PutBack(i) PROVE FlashInv'
  <2> DEFINE b == slot[i].block
  <2>1. /\ b \in Blocks /\ b # NoBlock /\ slot[i].dirty /\ slot[i].data = written[b]
        /\ slot[i].data \in [Parts -> Value]
        /\ \A s \in Parts : slot[i].data[s] \subseteq flash[b][s]
    BY <1>2, Burning DEF PutBack, FlashInv, FlashTypeOK
  <2>2. /\ flash' \in [Blocks -> [Parts -> Value]]
        /\ \A c \in Blocks : c # b => flash'[c] = flash[c]
        /\ flash'[b] = slot[i].data
    BY <1>2, <2>1, Burns DEF PutBack
  <2>3. /\ slot' = [slot EXCEPT ![i].dirty = FALSE] /\ erased' = 0
        /\ fresh' = fresh \ ({b} \X Parts) /\ torn' = torn \ {b}
        /\ UNCHANGED <<wants, written, cuts>>
    BY <1>2 DEF PutBack
  <2>4. FlashTypeOK' BY <2>2, <2>3 DEF FlashInv, FlashTypeOK
  <2>5. /\ \A j \in Slots : slot'[j].block = slot[j].block /\ slot'[j].data = slot[j].data
        /\ \A j \in Slots : j # i => slot'[j] = slot[j]
    BY <2>3 DEF FlashInv, FlashTypeOK
  <2>6. OneSlot' /\ WantsWhatIsNotThere' /\ ErasedIsDirty'
    BY <2>3, <2>5 DEF FlashInv, OneSlot, WantsWhatIsNotThere, ErasedIsDirty
  <2>7. CleanIsPutBack'
    <3> SUFFICES ASSUME NEW j \in Slots, slot'[j].block # NoBlock, ~slot'[j].dirty
                 PROVE slot'[j].data = flash'[slot'[j].block]
      BY DEF CleanIsPutBack
    <3>1. CASE j = i BY <2>2, <2>5, <3>1
    <3>2. CASE j # i
      <4>1. slot'[j] = slot[j] BY <2>5, <3>2
      <4>2. slot[j].block # b /\ slot[j].block \in Blocks
        BY <2>1, <3>2, <4>1 DEF FlashInv, OneSlot, FlashTypeOK
      <4> QED BY <2>2, <4>1, <4>2 DEF FlashInv, CleanIsPutBack
    <3> QED BY <3>1, <3>2
  <2>8. Stands'
    <3>1. \A c \in Blocks : (\A j \in Slots : slot'[j].block # c) => flash'[c] = written'[c]
      BY <2>2, <2>3, <2>5 DEF FlashInv, Stands
    <3>2. \A j \in Slots : slot'[j].block # NoBlock => slot'[j].data = written'[slot'[j].block]
      BY <2>3, <2>5 DEF FlashInv, Stands
    <3> QED BY <3>1, <3>2 DEF Stands
  <2>9. OnlyFreshAtRisk'
    <3> SUFFICES ASSUME NEW c \in Blocks, NEW s \in Parts, <<c, s>> \notin fresh', c \notin torn'
                 PROVE flash'[c][s] = written[c][s]
      BY <2>3 DEF OnlyFreshAtRisk
    <3>1. CASE c = b BY <2>1, <2>2, <3>1
    <3>2. CASE c # b BY <2>2, <2>3, <3>2 DEF FlashInv, OnlyFreshAtRisk
    <3> QED BY <3>1, <3>2
  <2> QED BY <2>4, <2>6, <2>7, <2>8, <2>9 DEF FlashInv
<1>3. ASSUME NEW i \in Slots, PutBackFails(i) PROVE FlashInv'
  <2>0. CASE UNCHANGED flash
    <3>1. erased' = 0 /\ wants' = NoWant /\ UNCHANGED <<flash, slot, written, fresh, torn, cuts>>
      BY <1>3, <2>0 DEF PutBackFails
    <3>2. FlashTypeOK' BY <3>1 DEF FlashInv, FlashTypeOK
    <3> QED BY <3>1, <3>2
        DEF FlashInv, OneSlot, CleanIsPutBack, ErasedIsDirty, Stands, WantsWhatIsNotThere, OnlyFreshAtRisk
  <2> SUFFICES ASSUME ~UNCHANGED flash PROVE FlashInv' BY <2>0
  <2> DEFINE b == slot[i].block
  <2>1. /\ b \in Blocks /\ b # NoBlock /\ slot[i].dirty /\ slot[i].data = written[b]
        /\ slot[i].data \in [Parts -> Value]
        /\ \A s \in Parts : slot[i].data[s] \subseteq flash[b][s]
    BY <1>3, Burning DEF PutBackFails, FlashInv, FlashTypeOK
  <2>2. PICK some \in SUBSET Parts : flash' = Burnt(b, slot[i].data, some)
    BY <1>3 DEF PutBackFails
  <2>3. /\ flash' \in [Blocks -> [Parts -> Value]]
        /\ \A c \in Blocks : c # b => flash'[c] = flash[c]
        /\ \A s \in Parts : flash'[b][s] = (IF s \in some THEN written[b][s] ELSE flash[b][s])
    BY <2>1, <2>2, Burns
  <2>4. erased' = 0 /\ wants' = NoWant /\ UNCHANGED <<slot, written, fresh, torn, cuts>>
    BY <1>3 DEF PutBackFails
  <2>5. FlashTypeOK' BY <2>3, <2>4 DEF FlashInv, FlashTypeOK
  <2>6. OneSlot' /\ WantsWhatIsNotThere' /\ ErasedIsDirty'
    BY <2>4 DEF FlashInv, OneSlot, WantsWhatIsNotThere, ErasedIsDirty
  <2>7. CleanIsPutBack'
    <3> SUFFICES ASSUME NEW j \in Slots, slot[j].block # NoBlock, ~slot[j].dirty
                 PROVE slot[j].data = flash'[slot[j].block]
      BY <2>4 DEF CleanIsPutBack
    <3>1. slot[j].block # b /\ slot[j].block \in Blocks
      BY <2>1 DEF FlashInv, OneSlot, FlashTypeOK
    <3> QED BY <2>3, <3>1 DEF FlashInv, CleanIsPutBack
  <2>8. Stands' BY <2>3, <2>4 DEF FlashInv, Stands
  <2>9. OnlyFreshAtRisk'
    <3> SUFFICES ASSUME NEW c \in Blocks, NEW s \in Parts, <<c, s>> \notin fresh, c \notin torn
                 PROVE flash'[c][s] = written[c][s]
      BY <2>4 DEF OnlyFreshAtRisk
    <3>1. flash[c][s] = written[c][s] BY DEF FlashInv, OnlyFreshAtRisk
    <3> QED BY <2>3, <3>1
  <2> QED BY <2>5, <2>6, <2>7, <2>8, <2>9 DEF FlashInv
<1>4. ASSUME NEW b \in Blocks, NEW s \in Parts, NEW v \in Value, WriteCached(b, s, v) PROVE FlashInv'
  <2>1. PICK i \in SlotsOf(b) : slot' = [slot EXCEPT ![i].data[s] = v, ![i].dirty = TRUE]
    BY <1>4 DEF WriteCached
  <2>2. /\ erased = 0 /\ wants = NoWant /\ written' = [written EXCEPT ![b][s] = v]
        /\ fresh' = fresh \cup {<<b, s>>} /\ UNCHANGED <<flash, erased, wants, torn, cuts>>
    BY <1>4 DEF WriteCached, Patched
  <2>3. i \in Slots /\ slot[i].block = b /\ b # NoBlock BY <2>1 DEF SlotsOf
  <2>4. /\ \A j \in Slots : slot'[j].block = slot[j].block
        /\ \A j \in Slots : j # i => slot'[j] = slot[j]
        /\ slot'[i].dirty = TRUE /\ slot'[i].data = [slot[i].data EXCEPT ![s] = v]
    BY <2>1, <2>3 DEF FlashInv, FlashTypeOK
  <2>5. slot[i].data \in [Parts -> Value] /\ slot[i].data = written[b]
    BY <2>3 DEF FlashInv, FlashTypeOK, Stands
  <2>6. /\ written'[b] = [written[b] EXCEPT ![s] = v]
        /\ \A c \in Blocks : c # b => written'[c] = written[c]
    BY <2>2 DEF FlashInv, FlashTypeOK
  <2>7. FlashTypeOK'
    <3>1. slot' \in [Slots -> [block : Blocks \cup {NoBlock}, dirty : BOOLEAN, data : [Parts -> Value]]]
      <4> DEFINE r == [slot[i] EXCEPT !.data[s] = v, !.dirty = TRUE]
      <4>1. slot[i] \in [block : Blocks \cup {NoBlock}, dirty : BOOLEAN, data : [Parts -> Value]]
        BY <2>3 DEF FlashInv, FlashTypeOK
      <4>2. r \in [block : Blocks \cup {NoBlock}, dirty : BOOLEAN, data : [Parts -> Value]]
        BY ZenonT(40), <4>1
      <4>3. slot' = [slot EXCEPT ![i] = r] BY <2>1, <2>3 DEF FlashInv, FlashTypeOK
      <4> QED BY <2>3, <4>2, <4>3 DEF FlashInv, FlashTypeOK
    <3> QED BY <2>2, <3>1 DEF FlashInv, FlashTypeOK
  <2>8. OneSlot' /\ WantsWhatIsNotThere' /\ ErasedIsDirty'
    BY <2>2, <2>4 DEF FlashInv, OneSlot, WantsWhatIsNotThere, ErasedIsDirty
  <2>9. CleanIsPutBack' BY <2>2, <2>4 DEF FlashInv, CleanIsPutBack
  <2>10. Stands'
    <3>1. \A c \in Blocks : (\A j \in Slots : slot'[j].block # c) => flash'[c] = written'[c]
      BY <2>2, <2>3, <2>4, <2>6 DEF FlashInv, Stands
    <3>2. ASSUME NEW j \in Slots, slot'[j].block # NoBlock
          PROVE slot'[j].data = written'[slot'[j].block]
      <4>1. CASE j = i BY <2>3, <2>4, <2>5, <2>6, <4>1
      <4>2. CASE j # i
        <5>1. slot[j].block # b /\ slot[j].block \in Blocks /\ slot'[j] = slot[j]
          BY <2>3, <2>4, <3>2, <4>2 DEF FlashInv, OneSlot, FlashTypeOK
        <5> QED BY <2>6, <3>2, <5>1 DEF FlashInv, Stands
      <4> QED BY <4>1, <4>2
    <3> QED BY <3>1, <3>2 DEF Stands
  <2>11. OnlyFreshAtRisk'
    <3> SUFFICES ASSUME NEW c \in Blocks, NEW t \in Parts, <<c, t>> \notin fresh', c \notin torn
                 PROVE flash[c][t] = written'[c][t]
      BY <2>2 DEF OnlyFreshAtRisk
    <3>1. <<c, t>> \notin fresh /\ <<c, t>> # <<b, s>> BY <2>2
    <3>2. flash[c][t] = written[c][t] BY <3>1 DEF FlashInv, OnlyFreshAtRisk
    <3>3. written'[c][t] = written[c][t] BY <2>2, <3>1 DEF FlashInv, FlashTypeOK
    <3> QED BY <3>2, <3>3
  <2> QED BY <2>7, <2>8, <2>9, <2>10, <2>11 DEF FlashInv
<1>5. ASSUME NEW b \in Blocks, NEW s \in Parts, NEW v \in Value, Miss(b, s, v) PROVE FlashInv'
  <2>1. PICK i \in Slots : wants' = [block |-> b, part |-> s, value |-> v, slot |-> i]
    BY <1>5 DEF Miss
  <2>2. SlotsOf(b) = {} /\ UNCHANGED <<flash, slot, erased, written, fresh, torn, cuts>>
    BY <1>5 DEF Miss
  <2>3. FlashTypeOK' BY <2>1, <2>2 DEF FlashInv, FlashTypeOK
  <2>4. WantsWhatIsNotThere' BY <2>1, <2>2 DEF WantsWhatIsNotThere, SlotsOf
  <2> QED BY <2>2, <2>3, <2>4
      DEF FlashInv, OneSlot, CleanIsPutBack, ErasedIsDirty, Stands, OnlyFreshAtRisk
<1>6. ASSUME Fill PROVE FlashInv'
  <2> DEFINE b == wants.block
             i == wants.slot
             s == wants.part
             v == wants.value
  <2>1. b \in Blocks /\ s \in Parts /\ v \in Value /\ i \in Slots /\ b # NoBlock
    <3>1. wants # NoWant BY <1>6 DEF Fill, Evictable
    <3>2. wants \in [block : Blocks, part : Parts, value : Value, slot : Slots]
      BY <3>1 DEF FlashInv, FlashTypeOK
    <3> QED BY <3>2
  <2>2. /\ ~slot[i].dirty /\ erased = 0 /\ wants' = NoWant
        /\ written' = [written EXCEPT ![b][s] = v] /\ fresh' = fresh \cup {<<b, s>>}
        /\ slot' = [slot EXCEPT ![i] = [block |-> b, dirty |-> TRUE,
                                        data |-> [flash[b] EXCEPT ![s] = v]]]
        /\ UNCHANGED <<flash, erased, torn, cuts>>
    BY <1>6 DEF Fill, Evictable, Patched
  <2>3. \A j \in Slots : slot[j].block # b
    BY <1>6 DEF Fill, Evictable, FlashInv, WantsWhatIsNotThere
  <2>4. flash[b] = written[b] /\ flash[b] \in [Parts -> Value]
    BY <2>1, <2>3 DEF FlashInv, FlashTypeOK, Stands
  <2>5. /\ slot'[i].block = b /\ slot'[i].dirty = TRUE /\ slot'[i].data = [flash[b] EXCEPT ![s] = v]
        /\ \A j \in Slots : j # i => slot'[j] = slot[j]
    BY <2>1, <2>2 DEF FlashInv, FlashTypeOK
  <2>6. /\ written'[b] = [written[b] EXCEPT ![s] = v]
        /\ \A c \in Blocks : c # b => written'[c] = written[c]
    BY <2>1, <2>2 DEF FlashInv, FlashTypeOK
  <2>7. FlashTypeOK'
    <3>1. [flash[b] EXCEPT ![s] = v] \in [Parts -> Value] BY <2>1, <2>4
    <3>2. slot' \in [Slots -> [block : Blocks \cup {NoBlock}, dirty : BOOLEAN, data : [Parts -> Value]]]
      BY <2>1, <2>2, <3>1 DEF FlashInv, FlashTypeOK
    <3>3. written' \in [Blocks -> [Parts -> Value]] BY <2>1, <2>2 DEF FlashInv, FlashTypeOK
    <3> QED BY <2>1, <2>2, <3>2, <3>3 DEF FlashInv, FlashTypeOK
  <2>8. OneSlot' BY <2>3, <2>5 DEF FlashInv, OneSlot
  <2>9. CleanIsPutBack' BY <2>2, <2>5 DEF FlashInv, CleanIsPutBack
  <2>10. ErasedIsDirty' /\ WantsWhatIsNotThere' BY <2>2 DEF ErasedIsDirty, WantsWhatIsNotThere
  <2>11. Stands'
    <3>1. ASSUME NEW c \in Blocks, \A j \in Slots : slot'[j].block # c
          PROVE flash'[c] = written'[c]
      <4>1. c # b BY <2>1, <2>5, <3>1
      <4>2. CASE slot[i].block = c
        <5>1. slot[i].data = flash[c] /\ slot[i].data = written[c]
          BY <2>1, <2>2, <4>2 DEF FlashInv, CleanIsPutBack, Stands
        <5> QED BY <2>2, <2>6, <4>1, <5>1
      <4>3. CASE slot[i].block # c
        <5>1. \A j \in Slots : slot[j].block # c BY <2>5, <3>1, <4>3
        <5>2. flash[c] = written[c] BY <5>1 DEF FlashInv, Stands
        <5> QED BY <2>2, <2>6, <4>1, <5>2
      <4> QED BY <4>2, <4>3
    <3>2. ASSUME NEW j \in Slots, slot'[j].block # NoBlock
          PROVE slot'[j].data = written'[slot'[j].block]
      <4>1. CASE j = i BY <2>4, <2>5, <2>6, <4>1
      <4>2. CASE j # i
        <5>1. slot[j].block # b /\ slot[j].block \in Blocks /\ slot'[j] = slot[j]
          BY <2>3, <2>5, <3>2, <4>2 DEF FlashInv, FlashTypeOK
        <5> QED BY <2>6, <3>2, <5>1 DEF FlashInv, Stands
      <4> QED BY <4>1, <4>2
    <3> QED BY <3>1, <3>2 DEF Stands
  <2>12. OnlyFreshAtRisk'
    <3> SUFFICES ASSUME NEW c \in Blocks, NEW t \in Parts, <<c, t>> \notin fresh', c \notin torn
                 PROVE flash[c][t] = written'[c][t]
      BY <2>2 DEF OnlyFreshAtRisk
    <3>1. <<c, t>> \notin fresh /\ <<c, t>> # <<b, s>> BY <2>2
    <3>2. flash[c][t] = written[c][t] BY <3>1 DEF FlashInv, OnlyFreshAtRisk
    <3>3. written'[c][t] = written[c][t] BY <2>1, <2>2, <3>1 DEF FlashInv, FlashTypeOK
    <3> QED BY <3>2, <3>3
  <2> QED BY <2>7, <2>8, <2>9, <2>10, <2>11, <2>12 DEF FlashInv
<1>7. ASSUME FillFails PROVE FlashInv'
  <2> DEFINE i == wants.slot
  <2>1. i \in Slots
    <3>1. wants # NoWant BY <1>7 DEF FillFails, Evictable
    <3>2. wants \in [block : Blocks, part : Parts, value : Value, slot : Slots]
      BY <3>1 DEF FlashInv, FlashTypeOK
    <3> QED BY <3>2
  <2>2. /\ ~slot[i].dirty /\ erased = 0 /\ wants' = NoWant /\ slot' = [slot EXCEPT ![i] = NoSlot]
        /\ UNCHANGED <<flash, erased, written, fresh, torn, cuts>>
    BY <1>7 DEF FillFails, Evictable
  <2>3. /\ slot'[i].block = NoBlock /\ \A j \in Slots : j # i => slot'[j] = slot[j]
        /\ slot' \in [Slots -> [block : Blocks \cup {NoBlock}, dirty : BOOLEAN, data : [Parts -> Value]]]
    BY <1>0, <2>1, <2>2 DEF FlashInv, FlashTypeOK, NoSlot
  <2>4. FlashTypeOK' BY <2>2, <2>3 DEF FlashInv, FlashTypeOK
  <2>5. OneSlot' /\ CleanIsPutBack' BY <2>2, <2>3 DEF FlashInv, OneSlot, CleanIsPutBack
  <2>6. ErasedIsDirty' /\ WantsWhatIsNotThere' BY <2>2 DEF ErasedIsDirty, WantsWhatIsNotThere
  <2>7. Stands'
    <3>1. ASSUME NEW c \in Blocks, \A j \in Slots : slot'[j].block # c
          PROVE flash[c] = written[c]
      <4>1. CASE slot[i].block = c
        BY <2>1, <2>2, <4>1 DEF FlashInv, CleanIsPutBack, Stands
      <4>2. CASE slot[i].block # c BY <2>3, <3>1, <4>2 DEF FlashInv, Stands
      <4> QED BY <4>1, <4>2
    <3>2. \A j \in Slots : slot'[j].block # NoBlock => slot'[j].data = written[slot'[j].block]
      BY <2>3 DEF FlashInv, Stands
    <3> QED BY <2>2, <3>1, <3>2 DEF Stands
  <2>8. OnlyFreshAtRisk' BY <2>2 DEF FlashInv, OnlyFreshAtRisk
  <2> QED BY <2>4, <2>5, <2>6, <2>7, <2>8 DEF FlashInv
<1>8. ASSUME PowerFails PROVE FlashInv'
  <2>1. /\ slot' = [i \in Slots |-> NoSlot] /\ erased' = 0 /\ wants' = NoWant /\ written' = flash
        /\ fresh' = {} /\ torn' = {} /\ cuts' = cuts + 1 /\ flash' = flash
    BY <1>8 DEF PowerFails
  <2>2. FlashTypeOK' BY <1>0, <2>1 DEF FlashInv, FlashTypeOK, NoSlot
  <2>3. OneSlot' /\ CleanIsPutBack' /\ ErasedIsDirty' /\ WantsWhatIsNotThere'
    BY <2>1 DEF OneSlot, CleanIsPutBack, ErasedIsDirty, WantsWhatIsNotThere, NoSlot
  <2>4. Stands' /\ OnlyFreshAtRisk' BY <2>1 DEF Stands, OnlyFreshAtRisk, NoSlot
  <2> QED BY <2>2, <2>3, <2>4 DEF FlashInv
<1>9. ASSUME UNCHANGED flashVars PROVE FlashInv'
  BY <1>9 DEF flashVars, FlashInv, FlashTypeOK, OneSlot, CleanIsPutBack, ErasedIsDirty, Stands,
              WantsWhatIsNotThere, OnlyFreshAtRisk
<1> QED BY <1>1, <1>2, <1>3, <1>4, <1>5, <1>6, <1>7, <1>8, <1>9 DEF FlashNext

\* What the invariant says of a read.
LEMMA FlashInvReads == FlashInv => ReadsWhatWasWritten
<1> SUFFICES ASSUME FlashInv, NEW b \in Blocks
             PROVE Cardinality(SlotsOf(b)) <= 1 /\ Seen(b) = written[b]
  BY DEF ReadsWhatWasWritten
<1>1. CASE SlotsOf(b) = {}
  <2>1. Cardinality(SlotsOf(b)) = 0 BY <1>1, FS_EmptySet
  <2>2. Seen(b) = flash[b] BY <1>1 DEF Seen
  <2>3. flash[b] = written[b] BY <1>1 DEF SlotsOf, FlashInv, Stands
  <2> QED BY <2>1, <2>2, <2>3
<1>2. CASE SlotsOf(b) # {}
  <2>1. PICK i \in SlotsOf(b) : TRUE BY <1>2
  <2>2. i \in Slots /\ slot[i].block = b /\ b # NoBlock BY <2>1, FlashAssumption DEF SlotsOf
  <2>3. SlotsOf(b) = {i} BY <2>2 DEF SlotsOf, FlashInv, OneSlot
  <2>4. Cardinality(SlotsOf(b)) = 1 BY <2>3, FS_Singleton
  <2>5. Seen(b) = slot[i].data BY <2>3 DEF Seen
  <2>6. slot[i].data = written[b] BY <2>2 DEF FlashInv, Stands
  <2> QED BY <2>4, <2>5, <2>6
<1> QED BY <1>1, <1>2

\* The flash disk's inductive invariant (drv_flashdisk.c, flush_slot and get_slot).
THEOREM FlashInvHolds == FlashSpec => []FlashInv
<1>1. FlashInit => FlashInv BY FlashInvInit
<1>2. FlashInv /\ [FlashNext]_flashVars => FlashInv' BY FlashInvStep
<1> QED BY <1>1, <1>2, PTL DEF FlashSpec

\* A read finds what was last written, and a block has one slot at most.
THEOREM FlashReads == FlashSpec => []ReadsWhatWasWritten
<1>1. FlashInv => ReadsWhatWasWritten BY FlashInvReads
<1> QED BY <1>1, FlashInvHolds, PTL

\* Power that goes takes what was written since its block was put back, and
\* blocks erased and not yet written, and nothing else.
THEOREM FlashRisks == FlashSpec => []OnlyFreshAtRisk
<1>1. FlashInv => OnlyFreshAtRisk BY DEF FlashInv
<1> QED BY <1>1, FlashInvHolds, PTL

(***************************************************************************)
(* The log's hand-off: its ring.                                           *)
(***************************************************************************)
LEMMA Wraps ==
  ASSUME NEW a \in 0..(DeferLines - 1), NEW b \in 0..(DeferLines - 1)
  PROVE  /\ (a + 1) % DeferLines = IF a = DeferLines - 1 THEN 0 ELSE a + 1
         /\ (a + b) % DeferLines = IF a + b < DeferLines THEN a + b ELSE a + b - DeferLines
         /\ (a + DeferLines - b) % DeferLines = IF a >= b THEN a - b ELSE a + DeferLines - b
<1>1. DeferLines \in Nat \ {0, 1} BY LogAssumption
<1>2. ASSUME NEW x \in Nat, x < DeferLines PROVE x % DeferLines = x BY <1>1, <1>2
<1>3. ASSUME NEW x \in Nat, x < DeferLines PROVE (x + DeferLines) % DeferLines = x BY <1>1, <1>3
<1>4. (a + 1) % DeferLines = IF a = DeferLines - 1 THEN 0 ELSE a + 1
  <2>1. CASE a = DeferLines - 1
    <3>1. a + 1 = 0 + DeferLines BY <1>1, <2>1
    <3>2. (0 + DeferLines) % DeferLines = 0 BY <1>1, <1>3
    <3> QED BY <2>1, <3>1, <3>2
  <2>2. CASE a # DeferLines - 1
    <3>1. a + 1 \in Nat /\ a + 1 < DeferLines BY <1>1, <2>2
    <3> QED BY <1>2, <2>2, <3>1
  <2> QED BY <2>1, <2>2
<1>5. (a + b) % DeferLines = IF a + b < DeferLines THEN a + b ELSE a + b - DeferLines
  <2>1. CASE a + b < DeferLines
    <3>1. a + b \in Nat BY <1>1
    <3> QED BY <1>2, <2>1, <3>1
  <2>2. CASE ~(a + b < DeferLines)
    <3>1. PICK c \in Nat : c = a + b - DeferLines /\ c < DeferLines BY <1>1, <2>2
    <3>2. a + b = c + DeferLines BY <1>1, <3>1
    <3> QED BY <1>3, <2>2, <3>1, <3>2
  <2> QED BY <2>1, <2>2
<1>6. (a + DeferLines - b) % DeferLines = IF a >= b THEN a - b ELSE a + DeferLines - b
  <2>1. CASE a >= b
    <3>1. PICK c \in Nat : c = a - b /\ c < DeferLines BY <1>1, <2>1
    <3>2. a + DeferLines - b = c + DeferLines BY <1>1, <3>1
    <3> QED BY <1>3, <2>1, <3>1, <3>2
  <2>2. CASE ~(a >= b)
    <3>1. a + DeferLines - b \in Nat /\ a + DeferLines - b < DeferLines BY <1>1, <2>2
    <3> QED BY <1>2, <2>2, <3>1
  <2> QED BY <2>1, <2>2
<1> QED BY <1>4, <1>5, <1>6

RingLine(i) == deferred[(deferTail + i - 1) % DeferLines]
Indices == deferHead \in 0..(DeferLines - 1) /\ deferTail \in 0..(DeferLines - 1)

LEMMA RingIs ==
  ASSUME Indices
  PROVE  /\ Waiting \in 0..(DeferLines - 1)
         /\ Waiting = IF deferHead >= deferTail THEN deferHead - deferTail
                      ELSE deferHead + DeferLines - deferTail
         /\ \A i \in 1..Waiting :
              (deferTail + i - 1) % DeferLines
                = IF deferTail + i - 1 < DeferLines THEN deferTail + i - 1
                  ELSE deferTail + i - 1 - DeferLines
<1>1. DeferLines \in Nat \ {0, 1} BY LogAssumption
<1>2. Waiting = IF deferHead >= deferTail THEN deferHead - deferTail
                ELSE deferHead + DeferLines - deferTail
  BY Wraps DEF Waiting, Indices
<1>3. Waiting \in 0..(DeferLines - 1) BY <1>1, <1>2 DEF Indices
<1>4. ASSUME NEW i \in 1..Waiting
      PROVE  (deferTail + i - 1) % DeferLines
                = IF deferTail + i - 1 < DeferLines THEN deferTail + i - 1
                  ELSE deferTail + i - 1 - DeferLines
  <2>1. PICK j \in 0..(DeferLines - 1) : j = i - 1 BY <1>1, <1>3
  <2>2. deferTail + i - 1 = deferTail + j BY <1>1, <1>3, <2>1 DEF Indices
  <2>3. deferTail \in 0..(DeferLines - 1) BY DEF Indices
  <2> QED BY <2>2, <2>3, Wraps
<1> QED BY <1>2, <1>3, <1>4

\* A line that is put comes last.
LEMMA PutLast ==
  ASSUME Indices, Room, NEW x, NEW w \in Nat, w = Waiting, deferTail' = deferTail,
         deferred \in [0..(DeferLines - 1) -> Nat \cup {NoLine}],
         deferred' = [deferred EXCEPT ![deferHead] = x],
         deferHead' = (deferHead + 1) % DeferLines
  PROVE  /\ Indices' /\ Waiting' = w + 1 /\ RingLine(w + 1)' = x
         /\ \A i \in 1..w : RingLine(i)' = RingLine(i)
<1>1. DeferLines \in Nat \ {0, 1} BY LogAssumption
<1>2. deferHead' = IF deferHead = DeferLines - 1 THEN 0 ELSE deferHead + 1 BY Wraps DEF Indices
<1>3. Indices' BY <1>1, <1>2 DEF Indices
<1>4. w \in 0..(DeferLines - 1) /\ w = Waiting BY RingIs
<1>5. w # DeferLines - 1 BY <1>4 DEF Room
<1>6. w = IF deferHead >= deferTail THEN deferHead - deferTail ELSE deferHead + DeferLines - deferTail
  BY <1>4, RingIs
<1>7. Waiting' = IF deferHead' >= deferTail' THEN deferHead' - deferTail'
                 ELSE deferHead' + DeferLines - deferTail'
  BY <1>3, Wraps DEF Waiting, Indices
<1>8. Waiting' = w + 1 BY <1>1, <1>2, <1>5, <1>6, <1>7 DEF Indices
<1>9. ASSUME NEW i \in 1..(w + 1)
      PROVE  (deferTail + i - 1) % DeferLines
                = IF deferTail + i - 1 < DeferLines THEN deferTail + i - 1
                  ELSE deferTail + i - 1 - DeferLines
  <2>1. PICK j \in 0..(DeferLines - 1) : j = i - 1 BY <1>1, <1>4, <1>5
  <2>2. PICK t \in 0..(DeferLines - 1) : t = deferTail BY DEF Indices
  <2>3. (t + j) % DeferLines = IF t + j < DeferLines THEN t + j ELSE t + j - DeferLines BY Wraps
  <2>4. t + i - 1 = t + j BY <1>1, <1>4, <2>1, <2>2
  <2> QED BY <2>2, <2>3, <2>4
<1>10. (deferTail + (w + 1) - 1) % DeferLines = deferHead
  <2>1. w + 1 \in 1..(w + 1) BY <1>1
  <2> QED BY <1>1, <1>6, <1>9, <2>1 DEF Indices
<1>11. RingLine(w + 1)' = x
  <2>1. deferHead \in 0..(DeferLines - 1) BY DEF Indices
  <2> QED BY <1>10, <2>1 DEF RingLine
<1>12. ASSUME NEW i \in 1..w PROVE RingLine(i)' = RingLine(i)
  <2>1. PICK s : s = (deferTail + i - 1) % DeferLines OBVIOUS
  <2>2. s = IF deferTail + i - 1 < DeferLines THEN deferTail + i - 1 ELSE deferTail + i - 1 - DeferLines
    BY <1>1, <1>9, <2>1
  <2>3. s # deferHead /\ s \in 0..(DeferLines - 1) BY <1>1, <1>5, <1>6, <2>2 DEF Indices
  <2> QED BY <2>1, <2>3 DEF RingLine
<1> QED BY <1>3, <1>4, <1>8, <1>11, <1>12

\* A line that is taken was the first.
LEMMA TakeFirst ==
  ASSUME Indices, NEW w \in Nat, w = Waiting, w > 0, deferred' = deferred, deferHead' = deferHead,
         deferTail' = (deferTail + 1) % DeferLines
  PROVE  /\ Indices' /\ Waiting' = w - 1 /\ RingLine(1) = deferred[deferTail]
         /\ \A i \in 1..(w - 1) : RingLine(i)' = RingLine(i + 1)
<1>1. DeferLines \in Nat \ {0, 1} BY LogAssumption
<1>2. deferTail' = IF deferTail = DeferLines - 1 THEN 0 ELSE deferTail + 1 BY Wraps DEF Indices
<1>3. Indices' BY <1>1, <1>2 DEF Indices
<1>4. w \in 0..(DeferLines - 1) /\ w = Waiting BY RingIs
<1>5. w > 0 OBVIOUS
<1>6. w = IF deferHead >= deferTail THEN deferHead - deferTail ELSE deferHead + DeferLines - deferTail
  BY <1>4, RingIs
<1>7. Waiting' = IF deferHead' >= deferTail' THEN deferHead' - deferTail'
                 ELSE deferHead' + DeferLines - deferTail'
  BY <1>3, Wraps DEF Waiting, Indices
<1>8. Waiting' = w - 1 BY <1>1, <1>2, <1>5, <1>6, <1>7 DEF Indices
<1>9. RingLine(1) = deferred[deferTail]
  <2>1. 1 \in 1..Waiting BY <1>1, <1>4, <1>5
  <2>2. (deferTail + 1 - 1) % DeferLines = IF deferTail + 1 - 1 < DeferLines THEN deferTail + 1 - 1
                  ELSE deferTail + 1 - 1 - DeferLines
    BY <2>1, RingIs
  <2>3. (deferTail + 1 - 1) % DeferLines = deferTail BY <1>1, <2>2 DEF Indices
  <2> QED BY <2>3 DEF RingLine
<1>10. ASSUME NEW i \in 1..(w - 1) PROVE RingLine(i)' = RingLine(i + 1)
  <2>1. i + 1 \in 1..Waiting BY <1>1, <1>4
  <2>2. (deferTail + (i + 1) - 1) % DeferLines
          = IF deferTail + (i + 1) - 1 < DeferLines THEN deferTail + (i + 1) - 1
            ELSE deferTail + (i + 1) - 1 - DeferLines
    BY <2>1, RingIs
  <2>3. PICK j \in 0..(DeferLines - 1) : j = i - 1 BY <1>1, <1>4
  <2>4. PICK t \in 0..(DeferLines - 1) : t = deferTail' BY <1>3 DEF Indices
  <2>5. (t + j) % DeferLines = IF t + j < DeferLines THEN t + j ELSE t + j - DeferLines BY Wraps
  <2>6. t + i - 1 = t + j BY <1>1, <2>3, <2>4
  <2>7. (t + i - 1) % DeferLines = (deferTail + (i + 1) - 1) % DeferLines
    BY <1>1, <1>2, <2>2, <2>3, <2>4, <2>5, <2>6 DEF Indices
  <2> QED BY <2>4, <2>7 DEF RingLine
<1> QED BY <1>3, <1>4, <1>8, <1>9, <1>10

(***************************************************************************)
(* The log's hand-off: where a line is.                                    *)
(***************************************************************************)
Places == {"idle", "test", "set", "take", "send", "tell", "clear"}
LogTypes ==
  /\ Indices /\ deferred \in [0..(DeferLines - 1) -> Nat \cup {NoLine}]
  /\ lost \in Nat /\ told \in Nat /\ logged \in Nat /\ port \in Seq(Nat)
  /\ doing \in [Loggers -> Places] /\ tally \in [Loggers -> Nat]
  /\ line \in [Loggers -> Nat \cup {NoLine}]

\* What is held back is in order, and elsewhere nowhere.
RingInOrder ==
  /\ \A i \in 1..Waiting : RingLine(i) \in 1..logged
  /\ \A i, j \in 1..Waiting : i < j => RingLine(i) < RingLine(j)
InHandOf(k) ==
  /\ line[k] # NoLine => /\ doing[k] = "send" /\ line[k] \in 1..logged
                         /\ \A i \in 1..Waiting : RingLine(i) # line[k]
                         /\ \A i \in DOMAIN port : port[i] # line[k]
  /\ doing[k] = "send" => line[k] # NoLine
  /\ doing[k] # "tell" => tally[k] = 0
HandsApart(k, l) == line[k] = line[l] /\ line[k] # NoLine => k = l
AtPort ==
  /\ \A i \in DOMAIN port : port[i] \in 1..logged /\ \A j \in 1..Waiting : RingLine(j) # port[i]
  /\ \A i, j \in DOMAIN port : i # j => port[i] # port[j]
AllTold ==
  Waiting + Cardinality(InHand) + Len(port) + lost + told + SumFunctionOnSet(tally, Loggers) = logged

LogInv ==
  /\ LogTypes /\ RingInOrder /\ AtPort /\ AllTold
  /\ \A k \in Loggers : InHandOf(k)
  /\ \A k, l \in Loggers : HandsApart(k, l)

LEMMA RingStands ==
  ASSUME deferHead' = deferHead, deferTail' = deferTail, deferred' = deferred
  PROVE  Waiting' = Waiting /\ \A i : RingLine(i)' = RingLine(i)
  BY DEF Waiting, RingLine

LEMMA HandsFinite ==
  ASSUME LogInv
  PROVE  /\ IsFiniteSet(InHand) /\ Cardinality(InHand) \in Nat /\ Waiting \in Nat /\ Len(port) \in Nat
         /\ SumFunctionOnSet(tally, Loggers) \in Nat /\ IsFiniteSet(Loggers)
<1>1. InHand \subseteq 1..logged BY DEF LogInv, InHandOf, InHand
<1>2. logged \in Nat /\ LogTypes BY DEF LogInv, LogTypes
<1>3. IsFiniteSet(1..logged) BY <1>2, FS_Interval
<1>4. IsFiniteSet(InHand) /\ Cardinality(InHand) \in Nat BY <1>1, <1>3, FS_Subset, FS_CardinalityType
<1>5. Waiting \in Nat BY <1>2, RingIs, LogAssumption DEF LogTypes
<1>6. IsFiniteSet(Loggers) BY LogAssumption
<1>7. SumFunctionOnSet(tally, Loggers) \in Nat BY <1>2, <1>6, SumOne DEF LogTypes
<1>8. Len(port) \in Nat BY <1>2 DEF LogTypes
<1> QED BY <1>4, <1>5, <1>6, <1>7, <1>8

\* What is where, as numbers.
LEMMA Tallies ==
  ASSUME LogInv
  PROVE  \E w \in Nat, c \in Nat, n \in Nat, s \in Nat :
           /\ w = Waiting /\ c = Cardinality(InHand) /\ n = Len(port)
           /\ s = SumFunctionOnSet(tally, Loggers)
           /\ lost \in Nat /\ told \in Nat /\ logged \in Nat
           /\ w + c + n + lost + told + s = logged
<1>1. PICK w \in Nat, c \in Nat, n \in Nat, s \in Nat :
        /\ w = Waiting /\ c = Cardinality(InHand) /\ n = Len(port)
        /\ s = SumFunctionOnSet(tally, Loggers)
  BY HandsFinite
<1>2. lost \in Nat /\ told \in Nat /\ logged \in Nat BY DEF LogInv, LogTypes
<1>3. w + c + n + lost + told + s = logged BY <1>1 DEF LogInv, AllTold
<1> QED BY <1>1, <1>2, <1>3

\* What one step moves from one place to another, the sum stands.
LEMMA Regroup ==
  ASSUME NEW a \in Nat, NEW b \in Nat, NEW c \in Nat, NEW d \in Nat, NEW e \in Nat, NEW f \in Nat,
         NEW g \in Nat, NEW h \in Nat, a + b + c + d + e + f = g
  PROVE  /\ (a + 1) + b + c + d + e + f = g + 1
         /\ a + b + c + (d + 1) + e + f = g + 1
         /\ (a - 1) + (b + 1) + c + d + e + f = g
         /\ a + (b - 1) + (c + 1) + d + e + f = g
         /\ a + b + c + 0 + e + (f + d) = g
         /\ a + b + c + d + (e + h) + (f - h) = g
  OBVIOUS

LEMMA LogStarts == LogInit => LogInv
<1> SUFFICES ASSUME LogInit PROVE LogInv OBVIOUS
<1>1. DeferLines \in Nat \ {0, 1} /\ IsFiniteSet(Loggers) BY LogAssumption
<1>2. LogTypes BY <1>1 DEF LogInit, LogTypes, Indices, Places
<1>3. Waiting = 0 BY <1>1, <1>2, RingIs DEF LogTypes, LogInit
<1>4. InHand = {} BY DEF LogInit, InHand
<1>5. \A k \in Loggers : InHandOf(k) BY DEF LogInit, InHandOf
<1>6. SumFunctionOnSet(tally, Loggers) = 0
  <2>1. \A k \in Loggers : tally[k] \in Nat /\ tally[k] = 0 BY DEF LogInit
  <2> QED BY <1>1, <2>1, SumZero
<1>7. Len(port) = 0 /\ DOMAIN port = {} BY DEF LogInit
<1>8. AllTold BY <1>3, <1>4, <1>6, <1>7, FS_EmptySet DEF AllTold, LogInit
<1>9. RingInOrder /\ AtPort BY <1>3, <1>7 DEF RingInOrder, AtPort
<1>10. \A k, l \in Loggers : HandsApart(k, l) BY DEF LogInit, HandsApart
<1> QED BY <1>2, <1>5, <1>8, <1>9, <1>10 DEF LogInv

\* Steps that only move a logger about.
LEMMA MoveKeeps ==
  ASSUME LogInv, NEW k \in Loggers, NEW to \in Places \ {"send"}, doing[k] # "send", doing[k] # "tell",
         doing' = [doing EXCEPT ![k] = to], UNCHANGED <<handoff, line, tally, wire>>
  PROVE  LogInv'
<1>1. /\ deferHead' = deferHead /\ deferTail' = deferTail /\ deferred' = deferred /\ lost' = lost
      /\ line' = line /\ tally' = tally /\ logged' = logged /\ port' = port /\ told' = told
  BY DEF handoff, wire
<1>2. Waiting' = Waiting /\ \A i : RingLine(i)' = RingLine(i) BY <1>1, RingStands
<1>3. LogTypes' BY <1>1 DEF LogInv, LogTypes, Indices
<1>4. RingInOrder' /\ AtPort' BY <1>1, <1>2 DEF LogInv, RingInOrder, AtPort
<1>5. InHand' = InHand BY <1>1 DEF InHand
<1>6. AllTold' BY <1>1, <1>2, <1>5 DEF LogInv, AllTold
<1>7. ASSUME NEW l \in Loggers PROVE InHandOf(l)'
  <2>1. InHandOf(l) BY DEF LogInv
  <2>2. doing'[l] = IF l = k THEN to ELSE doing[l] BY DEF LogInv, LogTypes
  <2> QED BY <1>1, <1>2, <2>1, <2>2 DEF InHandOf
<1>8. \A i, l \in Loggers : HandsApart(i, l)' BY <1>1 DEF LogInv, HandsApart
<1> QED BY <1>3, <1>4, <1>6, <1>7, <1>8 DEF LogInv

LEMMA DeferKeeps == ASSUME LogInv, Defer PROVE LogInv'
<1>1. /\ logged' = logged + 1 /\ deferTail' = deferTail /\ line' = line /\ tally' = tally
      /\ port' = port /\ told' = told /\ doing' = doing
  BY DEF Defer
<1>2. PICK x : x = logged + 1 OBVIOUS
<1>3. x \in Nat /\ x \notin 1..logged /\ logged \in Nat /\ x \in 1..x /\ \A y \in 1..logged : y \in 1..x /\ y < x
  BY <1>2 DEF LogInv, LogTypes
<1>4. PICK w \in Nat : w = Waiting BY HandsFinite
<1>5. InHand' = InHand BY <1>1 DEF InHand
<1>6. \A k, l \in Loggers : HandsApart(k, l)' BY <1>1 DEF LogInv, HandsApart
<1>7. CASE Room
  <2>1. deferred' = [deferred EXCEPT ![deferHead] = x] /\ deferHead' = (deferHead + 1) % DeferLines
        /\ lost' = lost
    BY <1>2, <1>7 DEF Defer
  <2>2. /\ Indices' /\ Waiting' = w + 1 /\ RingLine(w + 1)' = x /\ \A i \in 1..w : RingLine(i)' = RingLine(i)
    BY <1>1, <1>4, <1>7, <2>1, PutLast DEF LogInv, LogTypes
  <2>3. \A i \in 1..(w + 1) : i = w + 1 \/ i \in 1..w OBVIOUS
  <2>4. \A i \in 1..w : RingLine(i) \in 1..logged BY <1>4 DEF LogInv, RingInOrder
  <2>5. LogTypes' BY <1>1, <1>2, <1>3, <2>1, <2>2 DEF LogInv, LogTypes
  <2>6. RingInOrder'
    <3>1. \A i \in 1..(w + 1) : RingLine(i)' \in 1..x BY <1>3, <2>2, <2>3, <2>4
    <3>2. ASSUME NEW i \in 1..(w + 1), NEW j \in 1..(w + 1), i < j PROVE RingLine(i)' < RingLine(j)'
      <4>1. i \in 1..w BY <3>2
      <4>2. CASE j = w + 1 BY <1>3, <2>2, <2>4, <4>1, <4>2
      <4>3. CASE j \in 1..w BY <1>4, <2>2, <3>2, <4>1, <4>3 DEF LogInv, RingInOrder
      <4> QED BY <2>3, <4>2, <4>3
    <3> QED BY <1>1, <1>2, <2>2, <3>1, <3>2 DEF RingInOrder
  <2>7. AtPort' BY <1>1, <1>2, <1>3, <1>4, <2>2, <2>3 DEF LogInv, AtPort
  <2>8. ASSUME NEW k \in Loggers PROVE InHandOf(k)'
    <3>1. InHandOf(k) BY DEF LogInv
    <3> QED BY <1>1, <1>2, <1>3, <1>4, <2>2, <2>3, <3>1 DEF InHandOf
  <2>9. AllTold'
    <3>1. PICK v \in Nat, c \in Nat, n \in Nat, s \in Nat :
            /\ v = Waiting /\ c = Cardinality(InHand) /\ n = Len(port)
            /\ s = SumFunctionOnSet(tally, Loggers)
            /\ lost \in Nat /\ told \in Nat /\ logged \in Nat
            /\ v + c + n + lost + told + s = logged
      BY Tallies
    <3>2. lost \in Nat /\ told \in Nat /\ logged \in Nat BY <3>1
    <3>3. v + c + n + lost + told + s = logged BY <3>1
    <3>4. (v + 1) + c + n + lost + told + s = logged + 1 BY <3>2, <3>3, Regroup
    <3>5. /\ Waiting' = v + 1 /\ Cardinality(InHand)' = c /\ Len(port)' = n /\ lost' = lost
          /\ told' = told /\ SumFunctionOnSet(tally, Loggers)' = s /\ logged' = logged + 1
      BY <1>1, <1>4, <1>5, <2>1, <2>2, <3>1
    <3> QED BY <3>4, <3>5 DEF AllTold
  <2> QED BY <1>6, <2>5, <2>6, <2>7, <2>8, <2>9 DEF LogInv
<1>8. CASE ~Room
  <2>1. deferred' = deferred /\ deferHead' = deferHead /\ lost' = lost + 1 BY <1>8 DEF Defer
  <2>2. Waiting' = Waiting /\ \A i : RingLine(i)' = RingLine(i) BY <1>1, <2>1, RingStands
  <2>3. LogTypes' BY <1>1, <2>1 DEF LogInv, LogTypes, Indices
  <2>4. RingInOrder' BY <1>1, <1>2, <1>3, <2>2 DEF LogInv, RingInOrder
  <2>5. AtPort' BY <1>1, <1>2, <1>3, <2>2 DEF LogInv, AtPort
  <2>6. ASSUME NEW k \in Loggers PROVE InHandOf(k)'
    <3>1. InHandOf(k) BY DEF LogInv
    <3> QED BY <1>1, <1>2, <1>3, <2>2, <3>1 DEF InHandOf
  <2>7. AllTold'
    <3>1. PICK v \in Nat, c \in Nat, n \in Nat, s \in Nat :
            /\ v = Waiting /\ c = Cardinality(InHand) /\ n = Len(port)
            /\ s = SumFunctionOnSet(tally, Loggers)
            /\ lost \in Nat /\ told \in Nat /\ logged \in Nat
            /\ v + c + n + lost + told + s = logged
      BY Tallies
    <3>2. lost \in Nat /\ told \in Nat /\ logged \in Nat BY <3>1
    <3>3. v + c + n + lost + told + s = logged BY <3>1
    <3>4. v + c + n + (lost + 1) + told + s = logged + 1 BY <3>2, <3>3, Regroup
    <3>5. /\ Waiting' = v /\ Cardinality(InHand)' = c /\ Len(port)' = n /\ lost' = lost + 1
          /\ told' = told /\ SumFunctionOnSet(tally, Loggers)' = s /\ logged' = logged + 1
      BY <1>1, <1>5, <2>1, <2>2, <3>1
    <3> QED BY <3>4, <3>5 DEF AllTold
  <2> QED BY <1>6, <2>3, <2>4, <2>5, <2>6, <2>7 DEF LogInv
<1> QED BY <1>7, <1>8

LEMMA TakeLineKeeps == ASSUME LogInv, NEW k \in Loggers, TakeLine(k) PROVE LogInv'
<1>1. /\ doing[k] = "take" /\ doing' = [doing EXCEPT ![k] = "send"] /\ Waiting > 0
      /\ deferTail' = (deferTail + 1) % DeferLines /\ deferHead' = deferHead /\ deferred' = deferred
      /\ lost' = lost /\ tally' = tally /\ logged' = logged /\ port' = port /\ told' = told
  BY DEF TakeLine, Goes, wire
<1>2. PICK w \in Nat : w = Waiting BY HandsFinite
<1>3. /\ Indices' /\ Waiting' = w - 1 /\ RingLine(1) = deferred[deferTail] /\ w \in Nat \ {0} /\ w - 1 \in Nat
      /\ \A i \in 1..(w - 1) : RingLine(i)' = RingLine(i + 1)
  BY <1>1, <1>2, TakeFirst DEF LogInv, LogTypes
<1>4. PICK x : x = RingLine(1) OBVIOUS
<1>5. line' = [line EXCEPT ![k] = x] BY <1>3, <1>4 DEF TakeLine
<1>6. 1 \in 1..w /\ x \in 1..logged /\ x \in Nat /\ logged \in Nat /\ x # NoLine
  <2>1. 1 \in 1..w BY <1>3
  <2>2. x \in 1..logged /\ logged \in Nat BY <1>2, <1>4, <2>1 DEF LogInv, RingInOrder, LogTypes
  <2> QED BY <2>1, <2>2, LogAssumption
<1>7. \A i \in 1..(w - 1) : i + 1 \in 1..w /\ 1 < i + 1 BY <1>3
<1>8. \A i \in 1..(w - 1) : RingLine(i + 1) \in 1..logged /\ RingLine(i + 1) # x
  <2> TAKE i \in 1..(w - 1)
  <2>1. RingLine(1) < RingLine(i + 1) /\ RingLine(i + 1) \in 1..logged
    BY <1>2, <1>6, <1>7 DEF LogInv, RingInOrder
  <2> QED BY <1>4, <1>6, <2>1
<1>9. LogTypes' BY <1>1, <1>3, <1>5, <1>6 DEF LogInv, LogTypes, Places
<1>10. RingInOrder'
  <2>1. ASSUME NEW i \in 1..(w - 1), NEW j \in 1..(w - 1), i < j PROVE RingLine(i + 1) < RingLine(j + 1)
    <3>1. i + 1 < j + 1 BY <2>1
    <3> QED BY <1>2, <1>7, <3>1 DEF LogInv, RingInOrder
  <2> QED BY <1>1, <1>3, <1>8, <2>1 DEF RingInOrder
<1>11. AtPort' BY <1>1, <1>2, <1>3, <1>7 DEF LogInv, AtPort
<1>12. \A l \in Loggers : line'[l] = IF l = k THEN x ELSE line[l] BY <1>5 DEF LogInv, LogTypes
<1>13. \A l \in Loggers : doing'[l] = IF l = k THEN "send" ELSE doing[l] BY <1>1 DEF LogInv, LogTypes
<1>14. ASSUME NEW l \in Loggers PROVE line[l] # x
  <2>1. InHandOf(l) BY DEF LogInv
  <2> QED BY <1>2, <1>4, <1>6, <2>1 DEF InHandOf
<1>15. ASSUME NEW l \in Loggers PROVE InHandOf(l)'
  <2>1. InHandOf(l) BY DEF LogInv
  <2>2. CASE l = k
    <3>1. \A i \in DOMAIN port : port[i] # x BY <1>2, <1>4, <1>6 DEF LogInv, AtPort
    <3> QED BY <1>1, <1>3, <1>6, <1>8, <1>12, <1>13, <2>1, <2>2, <3>1 DEF InHandOf
  <2>3. CASE l # k BY <1>1, <1>2, <1>3, <1>7, <1>12, <1>13, <2>1, <2>3 DEF InHandOf
  <2> QED BY <2>2, <2>3
<1>16. ASSUME NEW l \in Loggers, NEW m \in Loggers PROVE HandsApart(l, m)'
  <2>1. HandsApart(l, m) BY DEF LogInv
  <2> QED BY <1>12, <1>14, <2>1 DEF HandsApart
<1>17. line[k] = NoLine
  <2>1. InHandOf(k) BY DEF LogInv
  <2> QED BY <1>1, <2>1 DEF InHandOf
<1>18. InHand' = InHand \cup {x} /\ x \notin InHand BY <1>6, <1>12, <1>14, <1>17 DEF InHand
<1>19. Cardinality(InHand') = Cardinality(InHand) + 1 BY <1>18, HandsFinite, CountOne
<1>20. AllTold'
  <2>1. PICK v \in Nat, c \in Nat, n \in Nat, s \in Nat :
          /\ v = Waiting /\ c = Cardinality(InHand) /\ n = Len(port)
          /\ s = SumFunctionOnSet(tally, Loggers)
          /\ lost \in Nat /\ told \in Nat /\ logged \in Nat
          /\ v + c + n + lost + told + s = logged
    BY Tallies
  <2>2. (v - 1) + (c + 1) + n + lost + told + s = logged BY <2>1
  <2>3. /\ Waiting' = v - 1 /\ Cardinality(InHand)' = c + 1 /\ Len(port)' = n /\ lost' = lost
        /\ told' = told /\ SumFunctionOnSet(tally, Loggers)' = s /\ logged' = logged
    BY <1>1, <1>2, <1>3, <1>19, <2>1
  <2> QED BY <2>2, <2>3 DEF AllTold
<1> QED BY <1>9, <1>10, <1>11, <1>15, <1>16, <1>20 DEF LogInv

LEMMA TakeCountKeeps == ASSUME LogInv, NEW k \in Loggers, TakeCount(k) PROVE LogInv'
<1>1. /\ doing[k] = "take" /\ doing' = [doing EXCEPT ![k] = "tell"] /\ deferTail' = deferTail
      /\ deferHead' = deferHead /\ deferred' = deferred /\ line' = line /\ logged' = logged
      /\ port' = port /\ told' = told /\ tally' = [tally EXCEPT ![k] = lost] /\ lost' = 0
  BY DEF TakeCount, Goes, wire
<1>2. Waiting' = Waiting /\ \A i : RingLine(i)' = RingLine(i) BY <1>1, RingStands
<1>3. LogTypes' BY <1>1 DEF LogInv, LogTypes, Indices, Places
<1>4. RingInOrder' /\ AtPort' BY <1>1, <1>2 DEF LogInv, RingInOrder, AtPort
<1>5. InHand' = InHand BY <1>1 DEF InHand
<1>6. tally[k] = 0 /\ line[k] = NoLine
  <2>1. InHandOf(k) BY DEF LogInv
  <2> QED BY <1>1, <2>1 DEF InHandOf
<1>7. SumFunctionOnSet(tally', Loggers) = SumFunctionOnSet(tally, Loggers) + lost
  <2>1. /\ \A l \in Loggers : tally[l] \in Nat /\ lost \in Nat
        /\ tally'[k] = lost /\ \A l \in Loggers \ {k} : tally'[l] = tally[l]
    BY <1>1 DEF LogInv, LogTypes
  <2>2. SumFunctionOnSet(tally', Loggers) = SumFunctionOnSet(tally, Loggers) - tally[k] + tally'[k]
    BY <2>1, HandsFinite, SumChange
  <2> QED BY <1>6, <2>1, <2>2, HandsFinite
<1>8. AllTold'
  <2>1. PICK v \in Nat, c \in Nat, n \in Nat, s \in Nat :
          /\ v = Waiting /\ c = Cardinality(InHand) /\ n = Len(port)
          /\ s = SumFunctionOnSet(tally, Loggers)
          /\ lost \in Nat /\ told \in Nat /\ logged \in Nat
          /\ v + c + n + lost + told + s = logged
    BY Tallies
  <2>2. v + c + n + 0 + told + (s + lost) = logged BY <2>1
  <2>3. /\ Waiting' = v /\ Cardinality(InHand)' = c /\ Len(port)' = n /\ lost' = 0
        /\ told' = told /\ SumFunctionOnSet(tally, Loggers)' = s + lost /\ logged' = logged
    BY <1>1, <1>2, <1>5, <1>7, <2>1
  <2> QED BY <2>2, <2>3 DEF AllTold
<1>9. ASSUME NEW l \in Loggers PROVE InHandOf(l)'
  <2>1. InHandOf(l) BY DEF LogInv
  <2>2. /\ doing'[l] = IF l = k THEN "tell" ELSE doing[l]
        /\ tally'[l] = IF l = k THEN lost ELSE tally[l]
    BY <1>1 DEF LogInv, LogTypes
  <2> QED BY <1>1, <1>2, <1>6, <2>1, <2>2 DEF InHandOf
<1>10. \A i, l \in Loggers : HandsApart(i, l)' BY <1>1 DEF LogInv, HandsApart
<1> QED BY <1>3, <1>4, <1>8, <1>9, <1>10 DEF LogInv

LEMMA SendLineKeeps == ASSUME LogInv, NEW k \in Loggers, SendLine(k) PROVE LogInv'
<1>1. /\ doing[k] = "send" /\ doing' = [doing EXCEPT ![k] = "take"] /\ deferTail' = deferTail
      /\ deferHead' = deferHead /\ deferred' = deferred /\ line' = [line EXCEPT ![k] = NoLine]
      /\ logged' = logged /\ port' = Append(port, line[k]) /\ told' = told /\ tally' = tally
      /\ lost' = lost
  BY DEF SendLine, Goes, handoff
<1>2. Waiting' = Waiting /\ \A i : RingLine(i)' = RingLine(i) BY <1>1, RingStands
<1>3. InHandOf(k) BY DEF LogInv
<1>4. PICK x : x = line[k] OBVIOUS
<1>5. /\ x # NoLine /\ x \in 1..logged /\ x \in Nat /\ logged \in Nat
      /\ \A i \in 1..Waiting : RingLine(i) # x
      /\ \A i \in DOMAIN port : port[i] # x
  BY <1>1, <1>3, <1>4 DEF InHandOf, LogInv, LogTypes
<1>6. /\ port \in Seq(Nat) /\ Len(port) \in Nat /\ DOMAIN port = 1..Len(port)
      /\ port' \in Seq(Nat) /\ Len(port') = Len(port) + 1 /\ DOMAIN port' = 1..(Len(port) + 1)
      /\ port'[Len(port) + 1] = x /\ \A i \in 1..Len(port) : port'[i] = port[i]
      /\ \A i \in 1..(Len(port) + 1) : i = Len(port) + 1 \/ i \in 1..Len(port)
  BY <1>1, <1>4, <1>5 DEF LogInv, LogTypes
<1>7. LogTypes' BY <1>1, <1>6 DEF LogInv, LogTypes, Indices, Places
<1>8. RingInOrder' BY <1>1, <1>2 DEF LogInv, RingInOrder
<1>9. AtPort'
  <2>1. \A i \in DOMAIN port : port[i] \in 1..logged /\ \A j \in 1..Waiting : RingLine(j) # port[i]
    BY DEF LogInv, AtPort
  <2>2. \A i \in DOMAIN port' : port'[i] \in 1..logged /\ \A j \in 1..Waiting : RingLine(j) # port'[i]
    BY <1>5, <1>6, <2>1
  <2>3. ASSUME NEW i \in DOMAIN port', NEW j \in DOMAIN port', i # j PROVE port'[i] # port'[j]
    <3>1. \A a, b \in DOMAIN port : a # b => port[a] # port[b] BY DEF LogInv, AtPort
    <3> QED BY <1>5, <1>6, <2>3, <3>1
  <2> QED BY <1>1, <1>2, <2>2, <2>3 DEF AtPort
<1>10. \A l \in Loggers : line'[l] = IF l = k THEN NoLine ELSE line[l] BY <1>1 DEF LogInv, LogTypes
<1>11. \A l \in Loggers : doing'[l] = IF l = k THEN "take" ELSE doing[l] BY <1>1 DEF LogInv, LogTypes
<1>12. \A l \in Loggers \ {k} : line[l] # x BY <1>4, <1>5 DEF LogInv, HandsApart
<1>13. InHand' = InHand \ {x} /\ x \in InHand BY <1>4, <1>5, <1>10, <1>12 DEF InHand
<1>14. Cardinality(InHand') = Cardinality(InHand) - 1 /\ Cardinality(InHand) > 0
  BY <1>13, HandsFinite, CountOne
<1>15. AllTold'
  <2>1. PICK v \in Nat, c \in Nat, n \in Nat, s \in Nat :
          /\ v = Waiting /\ c = Cardinality(InHand) /\ n = Len(port)
          /\ s = SumFunctionOnSet(tally, Loggers)
          /\ lost \in Nat /\ told \in Nat /\ logged \in Nat
          /\ v + c + n + lost + told + s = logged
    BY Tallies
  <2>2. lost \in Nat /\ told \in Nat /\ logged \in Nat BY <2>1
  <2>3. v + c + n + lost + told + s = logged BY <2>1
  <2>4. v + (c - 1) + (n + 1) + lost + told + s = logged BY <2>2, <2>3, Regroup
  <2>5. /\ Waiting' = v /\ Cardinality(InHand)' = c - 1 /\ Len(port)' = n + 1 /\ lost' = lost
        /\ told' = told /\ SumFunctionOnSet(tally, Loggers)' = s /\ logged' = logged
    BY <1>1, <1>2, <1>6, <1>14, <2>1
  <2> QED BY <2>4, <2>5 DEF AllTold
<1>16. ASSUME NEW l \in Loggers PROVE InHandOf(l)'
  <2>1. InHandOf(l) BY DEF LogInv
  <2>2. CASE l = k BY <1>1, <1>10, <1>11, <2>1, <2>2 DEF InHandOf
  <2>3. CASE l # k
    <3>1. line'[l] = line[l] /\ doing'[l] = doing[l] /\ line[l] # x BY <1>10, <1>11, <1>12, <2>3
    <3> QED BY <1>1, <1>2, <1>6, <2>1, <3>1 DEF InHandOf
  <2> QED BY <2>2, <2>3
<1>17. \A l, m \in Loggers : HandsApart(l, m)' BY <1>10 DEF LogInv, HandsApart
<1> QED BY <1>7, <1>8, <1>9, <1>15, <1>16, <1>17 DEF LogInv

LEMMA TellKeeps == ASSUME LogInv, NEW k \in Loggers, Tell(k) PROVE LogInv'
<1>1. /\ doing[k] = "tell" /\ doing' = [doing EXCEPT ![k] = "clear"] /\ deferTail' = deferTail
      /\ deferHead' = deferHead /\ deferred' = deferred /\ line' = line /\ logged' = logged
      /\ port' = port /\ told' = told + tally[k] /\ tally' = [tally EXCEPT ![k] = 0] /\ lost' = lost
  BY DEF Tell, Goes, handoff
<1>2. Waiting' = Waiting /\ \A i : RingLine(i)' = RingLine(i) BY <1>1, RingStands
<1>3. LogTypes' BY <1>1 DEF LogInv, LogTypes, Indices, Places
<1>4. RingInOrder' /\ AtPort' BY <1>1, <1>2 DEF LogInv, RingInOrder, AtPort
<1>5. InHand' = InHand BY <1>1 DEF InHand
<1>6. /\ SumFunctionOnSet(tally', Loggers) = SumFunctionOnSet(tally, Loggers) - tally[k]
      /\ SumFunctionOnSet(tally', Loggers) \in Nat /\ tally[k] \in Nat
  <2>1. /\ \A l \in Loggers : tally[l] \in Nat /\ tally'[l] \in Nat
        /\ tally'[k] = 0 /\ \A l \in Loggers \ {k} : tally'[l] = tally[l]
    BY <1>1 DEF LogInv, LogTypes
  <2>2. SumFunctionOnSet(tally', Loggers) = SumFunctionOnSet(tally, Loggers) - tally[k] + tally'[k]
    BY <2>1, HandsFinite, SumChange
  <2>3. SumFunctionOnSet(tally', Loggers) \in Nat BY <2>1, HandsFinite, SumOne
  <2> QED BY <2>1, <2>2, <2>3, HandsFinite
<1>7. AllTold'
  <2>1. PICK v \in Nat, c \in Nat, n \in Nat, s \in Nat :
          /\ v = Waiting /\ c = Cardinality(InHand) /\ n = Len(port)
          /\ s = SumFunctionOnSet(tally, Loggers)
          /\ lost \in Nat /\ told \in Nat /\ logged \in Nat
          /\ v + c + n + lost + told + s = logged
    BY Tallies
  <2>2. lost \in Nat /\ told \in Nat /\ logged \in Nat BY <2>1
  <2>3. v + c + n + lost + told + s = logged BY <2>1
  <2>4. v + c + n + lost + (told + tally[k]) + (s - tally[k]) = logged BY <2>2, <2>3, <1>6, Regroup
  <2>5. /\ Waiting' = v /\ Cardinality(InHand)' = c /\ Len(port)' = n /\ lost' = lost
        /\ told' = told + tally[k] /\ SumFunctionOnSet(tally, Loggers)' = s - tally[k]
        /\ logged' = logged
    BY <1>1, <1>2, <1>5, <1>6, <2>1
  <2> QED BY <2>4, <2>5 DEF AllTold
<1>8. ASSUME NEW l \in Loggers PROVE InHandOf(l)'
  <2>1. InHandOf(l) BY DEF LogInv
  <2>2. /\ doing'[l] = IF l = k THEN "clear" ELSE doing[l]
        /\ tally'[l] = IF l = k THEN 0 ELSE tally[l]
    BY <1>1 DEF LogInv, LogTypes
  <2> QED BY <1>1, <1>2, <2>1, <2>2 DEF InHandOf
<1>9. \A i, l \in Loggers : HandsApart(i, l)' BY <1>1 DEF LogInv, HandsApart
<1> QED BY <1>3, <1>4, <1>7, <1>8, <1>9 DEF LogInv

LEMMA LogStep == LogInv /\ [LogNext]_logVars => LogInv'
<1> SUFFICES ASSUME LogInv, [LogNext]_logVars PROVE LogInv' OBVIOUS
<1>1. CASE UNCHANGED logVars
  <2>1. /\ deferHead' = deferHead /\ deferTail' = deferTail /\ deferred' = deferred /\ lost' = lost
        /\ line' = line /\ tally' = tally /\ logged' = logged /\ port' = port /\ told' = told
        /\ doing' = doing
    BY <1>1 DEF logVars
  <2>2. Waiting' = Waiting /\ \A i : RingLine(i)' = RingLine(i) BY <2>1, RingStands
  <2>3. LogTypes' BY <2>1 DEF LogInv, LogTypes, Indices
  <2>4. RingInOrder' /\ AtPort' BY <2>1, <2>2 DEF LogInv, RingInOrder, AtPort
  <2>5. InHand' = InHand BY <2>1 DEF InHand
  <2>6. AllTold' BY <2>1, <2>2, <2>5 DEF LogInv, AllTold
  <2>7. \A k \in Loggers : InHandOf(k)' BY <2>1, <2>2 DEF LogInv, InHandOf
  <2>8. \A k, l \in Loggers : HandsApart(k, l)' BY <2>1 DEF LogInv, HandsApart
  <2> QED BY <2>3, <2>4, <2>6, <2>7, <2>8 DEF LogInv
<1>2. CASE Defer BY <1>2, DeferKeeps
<1>3. ASSUME NEW k \in Loggers, LookBack(k) \/ TestFlushing(k) \/ SetFlushing(k) \/ ClearFlushing(k)
      PROVE  LogInv'
  <2>1. /\ UNCHANGED <<handoff, line, tally, wire>> /\ doing[k] # "send" /\ doing[k] # "tell"
        /\ \E to \in Places \ {"send"} : doing' = [doing EXCEPT ![k] = to]
    BY <1>3 DEF LookBack, TestFlushing, SetFlushing, ClearFlushing, Goes, Places
  <2> QED BY <2>1, MoveKeeps
<1> QED
  BY <1>1, <1>2, <1>3, TakeLineKeeps, TakeCountKeeps, SendLineKeeps, TellKeeps DEF LogNext

\* No line from real-time context is lost without a word or sent twice, and what is
\* held back is in order (defer_put, defer_take and rv9_log_flush of logring.c),
\* for any number of tasks that flush at once and a ring of any length.
THEOREM NeverLostSilently == LogSpec => []NeverSilent
<1>1. LogInit => LogInv BY LogStarts
<1>2. LogInv /\ [LogNext]_logVars => LogInv' BY LogStep
<1>3. LogInv => NeverSilent
  <2> SUFFICES ASSUME LogInv PROVE NeverSilent OBVIOUS
  <2>1. PICK w \in Nat : w = Waiting BY HandsFinite
  <2>2. InRing = [i \in 1..w |-> RingLine(i)] BY <2>1 DEF InRing, RingLine
  <2>3. PICK r : r = InRing OBVIOUS
  <2>4. \A i \in 1..w : RingLine(i) \in Nat BY <2>1 DEF LogInv, RingInOrder, LogTypes
  <2>5. r \in Seq(Nat) /\ DOMAIN r = 1..w /\ Len(r) = w /\ \A i \in 1..w : r[i] = RingLine(i)
    BY <2>2, <2>3, <2>4
  <2>6. \A i, j \in DOMAIN r : i < j => r[i] < r[j] BY <2>1, <2>5 DEF LogInv, RingInOrder
  <2>7. Range(r) = {RingLine(i) : i \in 1..w} BY <2>5 DEF Range
  <2>8. Range(r) \cap (InHand \cup Range(port)) = {} /\ InHand \cap Range(port) = {}
    <3>1. Range(port) = {port[i] : i \in DOMAIN port} BY DEF Range
    <3> QED BY <2>1, <2>7, <3>1 DEF LogInv, InHandOf, AtPort, InHand
  <2>9. DOMAIN tally = Loggers BY DEF LogInv, LogTypes
  <2>10. CountedLost = lost + told + SumFunctionOnSet(tally, Loggers) BY <2>9 DEF CountedLost, SumFunction
  <2>11. Len(r) + Cardinality(InHand) + Len(port) + CountedLost = logged
    BY <2>1, <2>5, <2>10, HandsFinite DEF LogInv, AllTold, LogTypes
  <2>12. \A i, j \in DOMAIN port : i # j => port[i] # port[j] BY DEF LogInv, AtPort
  <2> QED BY <2>3, <2>6, <2>8, <2>11, <2>12 DEF NeverSilent
<1> QED BY <1>1, <1>2, <1>3, PTL DEF LogSpec

(***************************************************************************)
(* Locks.  None is ever left with a holder that was stopped, and a loan of *)
(* priority lasts as long as what it was made for, for any threads, host   *)
(* tasks and locks.                                                        *)
(***************************************************************************)
LEMMA NoneApart == None \notin Actors /\ \A t \in Threads : t \in Actors /\ t # None
  BY LockAssumption DEF Actors

LEMMA InitTypeOK == Init => TypeOK
  BY LockAssumption DEF Init, TypeOK, Points

LEMMA StepTypeOK == TypeOK /\ [Next]_vars => TypeOK'
<1> SUFFICES ASSUME TypeOK, [Next]_vars PROVE TypeOK'
  OBVIOUS
<1> USE NoneApart DEF TypeOK, Points, Actors, Go
<1>1. ASSUME NEW a \in Actors, NEW l \in Locks, TryTake(a, l) PROVE TypeOK'
  BY <1>1 DEF TryTake
<1>2. ASSUME NEW a \in Actors, Own(a) PROVE TypeOK'
  BY <1>2 DEF Own, Noted
<1>3. ASSUME NEW a \in Actors, Contend(a) PROVE TypeOK'
  BY <1>3 DEF Contend
<1>4. ASSUME NEW a \in Actors, Boost(a) PROVE TypeOK'
  BY <1>4 DEF Boost, Lent
<1>5. ASSUME NEW a \in Actors, Get(a) PROVE TypeOK'
  BY <1>5 DEF Get
<1>6. ASSUME NEW a \in Actors, NEW l \in Locks, Release(a, l) PROVE TypeOK'
  <2>1. holds' \in [Threads -> Nat] /\ holder' \in [Locks -> Threads \cup {None}]
    BY <1>6 DEF Release, Forgotten
  <2> QED BY <1>6, <2>1 DEF Release, At
<1>7. ASSUME NEW a \in Actors, Unboost(a) PROVE TypeOK'
  BY <1>7 DEF Unboost, Returned
<1>8. ASSUME NEW a \in Actors, GiveMux(a) PROVE TypeOK'
  BY <1>8 DEF GiveMux
<1>9. ASSUME NEW t \in Threads, Scheduling(t) PROVE TypeOK'
  BY <1>9 DEF Scheduling, Switch, Stop
<1>10. CASE UNCHANGED vars
  BY <1>10 DEF vars
<1> QED
  BY <1>1, <1>2, <1>3, <1>4, <1>5, <1>6, <1>7, <1>8, <1>9, <1>10 DEF Next, Acquiring, Releasing

\* Every variable keeps its type.
THEOREM LockTypes == Spec => []TypeOK
  BY InitTypeOK, StepTypeOK, PTL DEF Spec

-----------------------------------------------------------------------------
\* The count follows the notes.
HeldBy(t) == {l \in Locks : holder[l] = t}

LEMMA HeldByFinite ==
  ASSUME NEW t PROVE IsFiniteSet(HeldBy(t)) /\ Cardinality(HeldBy(t)) \in Nat
<1>1. HeldBy(t) \subseteq Locks
  BY DEF HeldBy
<1> QED BY <1>1, LockAssumption, FS_Subset, FS_CardinalityType

LEMMA NotedCounted ==
  ASSUME TypeOK, HoldsCounted, NEW a \in Actors, NEW l \in Locks, Noted(a, l), holder[l] = None
  PROVE  HoldsCounted'
<1> SUFFICES ASSUME NEW t \in Threads PROVE holds'[t] = Cardinality(HeldBy(t)')
  BY DEF HoldsCounted, HeldBy
<1>1. holds[t] = Cardinality(HeldBy(t))
  BY DEF HoldsCounted, HeldBy
<1>2. CASE t = a
  <2>1. HeldBy(t)' = HeldBy(t) \cup {l} /\ l \notin HeldBy(t)
    BY <1>2, NoneApart DEF Noted, HeldBy, TypeOK
  <2>2. holds'[t] = holds[t] + 1
    BY <1>2 DEF Noted
  <2> QED BY <1>1, <2>1, <2>2, HeldByFinite, FS_AddElement
<1>3. CASE t # a
  <2>1. HeldBy(t)' = HeldBy(t)
    BY <1>3, NoneApart DEF Noted, HeldBy, TypeOK
  <2> QED BY <1>1, <1>3, <2>1 DEF Noted
<1> QED BY <1>2, <1>3

LEMMA ForgottenCounted ==
  ASSUME TypeOK, HoldsCounted, NEW l \in Locks, Forgotten(l)
  PROVE  HoldsCounted'
<1> SUFFICES ASSUME NEW t \in Threads PROVE holds'[t] = Cardinality(HeldBy(t)')
  BY DEF HoldsCounted, HeldBy
<1>1. holds[t] = Cardinality(HeldBy(t))
  BY DEF HoldsCounted, HeldBy
<1>2. CASE t = holder[l]
  <2>1. HeldBy(t)' = HeldBy(t) \ {l} /\ l \in HeldBy(t)
    BY <1>2, NoneApart DEF Forgotten, HeldBy, TypeOK
  <2>2. Cardinality(HeldBy(t)') = Cardinality(HeldBy(t)) - 1
    BY <2>1, HeldByFinite, FS_RemoveElement
  <2>3. HeldBy(t) # {}
    BY <2>1
  <2>4. Cardinality(HeldBy(t)) # 0
    BY <2>3, HeldByFinite, FS_EmptySet
  <2>5. holds'[t] = holds[t] - 1
    BY <1>1, <1>2, <2>4, HeldByFinite DEF Forgotten
  <2> QED BY <1>1, <2>2, <2>5
<1>3. CASE t # holder[l]
  <2>1. HeldBy(t)' = HeldBy(t)
    BY <1>3, NoneApart DEF Forgotten, HeldBy, TypeOK
  <2> QED BY <1>1, <1>3, <2>1 DEF Forgotten
<1> QED BY <1>2, <1>3

-----------------------------------------------------------------------------
LEMMA InitLockInv == Init => LockInv
<1> SUFFICES ASSUME Init PROVE LockInv
  OBVIOUS
<1>1. ASSUME NEW t \in Threads PROVE holds[t] = Cardinality({l \in Locks : holder[l] = t})
  <2>1. {l \in Locks : holder[l] = t} = {}
    BY NoneApart DEF Init
  <2> QED BY <2>1, FS_EmptySet DEF Init
<1>2. HoldsCounted
  BY <1>1 DEF HoldsCounted
<1> QED
  BY <1>2, NoneApart DEF Init, LockInv, HolderOwns, Working, OffCpu, NoOrphanLock, Changing

\* Steps that touch neither the mutex nor the notes, and change no actor's part
\* in acquire or release but to or from the parts where it has no lock.
LEMMA QuietLockInv ==
  ASSUME TypeOK, LockInv, NEW a \in Actors, pc[a] \in {"idle", "contend", "boost", "wait"},
         pc' = [pc EXCEPT ![a] = pc'[a]], pc'[a] \in {"idle", "contend", "boost", "wait"},
         a \in Threads => cpu = a,
         \A x \in Actors : x # a => lock'[x] = lock[x],
         UNCHANGED <<mux, holder, holds, cpu, alive>>
  PROVE  LockInv'
<1> USE DEF TypeOK, LockInv
<1>1. \A x \in Actors : x # a => pc'[x] = pc[x] /\ lock'[x] = lock[x]
  OBVIOUS
<1>2. \A x \in Actors, l \in Locks : Changing(x, l)' <=> Changing(x, l)
  BY <1>1 DEF Changing
<1>3. HolderOwns' /\ Working'
  <2>1. HolderOwns'
    BY <1>2, NoneApart DEF HolderOwns
  <2>2. ASSUME NEW x \in Actors, Changing(x, lock[x])' PROVE mux'[lock'[x]] = x /\ holder'[lock'[x]] = None
    BY <1>1, <2>2 DEF Working, Changing
  <2> QED BY <2>1, <2>2 DEF Working
<1>4. OffCpu'
  BY <1>1, NoneApart DEF OffCpu
<1> QED BY <1>3, <1>4 DEF HoldsCounted, NoOrphanLock

\* The mutex is taken: by an acquire that found it free, or one that waited.
LEMMA TakenLockInv ==
  ASSUME TypeOK, LockInv, NEW a \in Actors, NEW l \in Locks, mux[l] = None,
         pc[a] \in {"idle", "wait"}, a \in Threads => cpu = a,
         mux' = [mux EXCEPT ![l] = a], pc' = [pc EXCEPT ![a] = "own"],
         lock' = [lock EXCEPT ![a] = l], UNCHANGED <<holder, holds, cpu, alive>>
  PROVE  LockInv'
<1> USE DEF TypeOK, LockInv
<1>1. holder[l] = None
  BY DEF HolderOwns
<1>2. \A x \in Actors : x # a => pc'[x] = pc[x] /\ lock'[x] = lock[x]
  OBVIOUS
<1>3. pc'[a] = "own" /\ lock'[a] = l /\ mux'[l] = a /\ \A k \in Locks : k # l => mux'[k] = mux[k]
  OBVIOUS
<1>4. HolderOwns'
  <2>1. ASSUME NEW k \in Locks, holder[k] # None PROVE mux'[k] = holder[k] /\ ~Changing(holder[k], k)'
    <3>1. k # l /\ mux[k] = holder[k] /\ ~Changing(holder[k], k) /\ holder[k] \in Actors
      BY <1>1, <2>1, NoneApart DEF HolderOwns
    <3> QED BY <1>2, <1>3, <3>1 DEF Changing
  <2>2. ASSUME NEW k \in Locks, NEW t \in Threads, mux'[k] = t, ~Changing(t, k)'
        PROVE  holder[k] = t
    <3>1. k # l
      BY <1>3, <2>2 DEF Changing
    <3>2. mux[k] = t /\ ~Changing(t, k)
      BY <1>2, <1>3, <2>2, <3>1 DEF Changing
    <3> QED BY <3>2 DEF HolderOwns
  <2> QED BY <2>1, <2>2 DEF HolderOwns
<1>5. Working'
  <2> SUFFICES ASSUME NEW x \in Actors, Changing(x, lock[x])'
               PROVE  mux'[lock'[x]] = x /\ holder'[lock'[x]] = None
    BY DEF Working
  <2>1. CASE x = a
    BY <1>1, <1>3, <2>1
  <2>2. CASE x # a
    <3>1. mux[lock[x]] = x /\ holder[lock[x]] = None
      BY <1>2, <2>2 DEF Working, Changing
    <3>2. lock[x] # l
      BY <3>1, NoneApart
    <3> QED BY <1>2, <1>3, <2>2, <3>1, <3>2
  <2> QED BY <2>1, <2>2
<1>6. OffCpu' /\ NoOrphanLock'
  <2>1. OffCpu'
    BY <1>2, NoneApart DEF OffCpu
  <2>2. NoOrphanLock'
    BY <1>3 DEF NoOrphanLock, OffCpu
  <2> QED BY <2>1, <2>2
<1> QED BY <1>4, <1>5, <1>6 DEF HoldsCounted

LEMMA OwnLockInv ==
  ASSUME TypeOK, LockInv, NEW a \in Actors, Own(a)
  PROVE  LockInv'
<1> USE DEF TypeOK, LockInv
<1> DEFINE l == lock[a]
<1>1. /\ pc[a] = "own" /\ mux[l] = a /\ holder[l] = None /\ (a \in Threads => cpu = a)
      /\ l \in Locks /\ Changing(a, l)
  BY DEF Own, At, Working, Changing
<1>2. /\ \A x \in Actors : x # a => pc'[x] = pc[x]
      /\ pc'[a] = "idle" /\ UNCHANGED <<lock, mux, cpu, alive>>
  BY DEF Own, Go
<1>3. /\ holder'[l] = IF a \in Threads THEN a ELSE None
      /\ \A k \in Locks : k # l => holder'[k] = holder[k]
  BY <1>1 DEF Own, Noted
<1>4. HoldsCounted'
  BY <1>1, NotedCounted DEF Own
<1> HIDE DEF l
<1>5. HolderOwns'
  <2>1. ASSUME NEW k \in Locks, holder'[k] # None
        PROVE  mux[k] = holder'[k] /\ ~Changing(holder[k], k)'
    <3>1. CASE k = l
      BY <1>1, <1>2, <1>3, <2>1, <3>1 DEF Changing
    <3>2. CASE k # l
      <4>1. mux[k] = holder[k] /\ ~Changing(holder[k], k) /\ holder'[k] = holder[k] /\ holder[k] \in Actors
        BY <1>3, <2>1, <3>2, NoneApart DEF HolderOwns
      <4> QED BY <1>2, <4>1 DEF Changing
    <3> QED BY <3>1, <3>2
  <2>2. ASSUME NEW k \in Locks, NEW t \in Threads, mux[k] = t, ~Changing(t, k)'
        PROVE  holder'[k] = t
    <3>1. CASE k = l
      BY <1>1, <1>3, <2>2, <3>1
    <3>2. CASE k # l
      <4>1. ~Changing(t, k)
        BY <1>2, <2>2, <3>2, NoneApart DEF Changing, l
      <4> QED BY <1>3, <2>2, <3>2, <4>1 DEF HolderOwns
    <3> QED BY <3>1, <3>2
  <2> QED BY <1>2, <2>1, <2>2 DEF HolderOwns
<1>6. Working'
  <2> SUFFICES ASSUME NEW x \in Actors, Changing(x, lock[x])'
               PROVE  mux'[lock'[x]] = x /\ holder'[lock'[x]] = None
    BY DEF Working
  <2>1. x # a
    BY <1>2 DEF Changing
  <2>2. mux[lock[x]] = x /\ holder[lock[x]] = None
    BY <1>2, <2>1 DEF Working, Changing
  <2>3. lock[x] # l
    BY <1>1, <2>1, <2>2
  <2> QED BY <1>2, <1>3, <2>2, <2>3
<1>7. OffCpu' /\ NoOrphanLock'
  BY <1>2, NoneApart DEF OffCpu, NoOrphanLock
<1> QED BY <1>4, <1>5, <1>6, <1>7

LEMMA ReleaseLockInv ==
  ASSUME TypeOK, LockInv, NEW a \in Actors, NEW l \in Locks, Release(a, l)
  PROVE  LockInv'
<1> USE DEF TypeOK, LockInv
<1>1. pc[a] = "idle" /\ mux[l] = a /\ (a \in Threads => cpu = a) /\ ~Changing(a, l)
  BY DEF Release, At, Changing
<1>2. /\ \A x \in Actors : x # a => pc'[x] = pc[x] /\ lock'[x] = lock[x]
      /\ pc'[a] = "unboost" /\ lock'[a] = l /\ UNCHANGED <<mux, cpu, alive>>
  BY DEF Release, Go
<1>3. holder'[l] = None /\ \A k \in Locks : k # l => holder'[k] = holder[k]
  BY DEF Release, Forgotten
<1>4. HoldsCounted'
  BY ForgottenCounted DEF Release
<1>5. HolderOwns'
  <2>1. ASSUME NEW k \in Locks, holder'[k] # None
        PROVE  mux[k] = holder'[k] /\ ~Changing(holder[k], k)'
    <3>1. /\ k # l /\ holder'[k] = holder[k] /\ mux[k] = holder[k]
          /\ ~Changing(holder[k], k) /\ holder[k] \in Actors
      BY <1>3, <2>1, NoneApart DEF HolderOwns
    <3> QED BY <1>2, <3>1 DEF Changing
  <2>2. ASSUME NEW k \in Locks, NEW t \in Threads, mux[k] = t, ~Changing(t, k)'
        PROVE  holder'[k] = t
    <3>1. k # l
      BY <1>1, <1>2, <2>2 DEF Changing
    <3>2. ~Changing(t, k)
      BY <1>1, <1>2, <2>2, <3>1, NoneApart DEF Changing
    <3> QED BY <1>3, <2>2, <3>1, <3>2 DEF HolderOwns
  <2> QED BY <1>2, <2>1, <2>2 DEF HolderOwns
<1>6. Working'
  <2> SUFFICES ASSUME NEW x \in Actors, Changing(x, lock[x])'
               PROVE  mux'[lock'[x]] = x /\ holder'[lock'[x]] = None
    BY DEF Working
  <2>1. CASE x = a
    BY <1>1, <1>2, <1>3, <2>1
  <2>2. CASE x # a
    <3>1. mux[lock[x]] = x /\ holder[lock[x]] = None
      BY <1>2, <2>2 DEF Working, Changing
    <3> QED BY <1>2, <1>3, <2>2, <3>1
  <2> QED BY <2>1, <2>2
<1>7. OffCpu' /\ NoOrphanLock'
  BY <1>1, <1>2, NoneApart DEF OffCpu, NoOrphanLock
<1> QED BY <1>4, <1>5, <1>6, <1>7

LEMMA GivingLockInv ==
  ASSUME TypeOK, LockInv, NEW a \in Actors, Unboost(a) \/ GiveMux(a)
  PROVE  LockInv'
<1> USE DEF TypeOK, LockInv
<1>1. /\ pc[a] \in {"unboost", "give"} /\ mux[lock[a]] = a /\ holder[lock[a]] = None
      /\ (a \in Threads => cpu = a)
  BY DEF Unboost, GiveMux, At, Working, Changing
<1>2. UNCHANGED <<lock, holder, holds, cpu, alive>> /\ \A x \in Actors : x # a => pc'[x] = pc[x]
  BY DEF Unboost, GiveMux, Go
<1>3. \/ pc'[a] = "give" /\ UNCHANGED mux
      \/ pc'[a] = "idle" /\ mux' = [mux EXCEPT ![lock[a]] = None]
  BY DEF Unboost, GiveMux, Go
<1>4. \A k \in Locks : k # lock[a] => mux'[k] = mux[k]
  BY <1>3
<1>5. HolderOwns'
  <2>1. ASSUME NEW k \in Locks, holder[k] # None PROVE mux'[k] = holder[k] /\ ~Changing(holder[k], k)'
    <3>1. k # lock[a] /\ mux[k] = holder[k] /\ ~Changing(holder[k], k) /\ holder[k] \in Actors
      BY <1>1, <2>1, NoneApart DEF HolderOwns
    <3> QED BY <1>2, <1>4, <3>1 DEF Changing
  <2>2. ASSUME NEW k \in Locks, NEW t \in Threads, mux'[k] = t, ~Changing(t, k)'
        PROVE  holder[k] = t
    <3>1. k # lock[a]
      BY <1>1, <1>2, <1>3, <2>2, NoneApart DEF Changing
    <3>2. mux[k] = t /\ ~Changing(t, k)
      BY <1>1, <1>2, <1>4, <2>2, <3>1, NoneApart DEF Changing
    <3> QED BY <3>2 DEF HolderOwns
  <2> QED BY <1>2, <2>1, <2>2 DEF HolderOwns
<1>6. Working'
  <2> SUFFICES ASSUME NEW x \in Actors, Changing(x, lock[x])'
               PROVE  mux'[lock'[x]] = x /\ holder'[lock'[x]] = None
    BY DEF Working
  <2>1. CASE x = a
    BY <1>1, <1>2, <1>3, <2>1 DEF Changing
  <2>2. CASE x # a
    <3>1. mux[lock[x]] = x /\ holder[lock[x]] = None
      BY <1>2, <2>2 DEF Working, Changing
    <3>2. lock[x] # lock[a]
      BY <1>1, <2>2, <3>1
    <3> QED BY <1>2, <1>4, <3>1, <3>2
  <2> QED BY <2>1, <2>2
<1>7. OffCpu' /\ NoOrphanLock'
  <2>1. OffCpu'
    BY <1>1, <1>2, NoneApart DEF OffCpu
  <2>2. NoOrphanLock'
    BY <1>2, <1>3, NoneApart DEF NoOrphanLock
  <2> QED BY <2>1, <2>2
<1> QED BY <1>2, <1>5, <1>6, <1>7 DEF HoldsCounted

LEMMA SchedulingLockInv ==
  ASSUME TypeOK, LockInv, NEW t \in Threads, Scheduling(t)
  PROVE  LockInv'
<1> USE DEF TypeOK, LockInv
<1>1. UNCHANGED <<mux, holder, holds, pc, lock>>
  BY DEF Scheduling, Switch, Stop
<1>2. HolderOwns' /\ Working' /\ HoldsCounted'
  BY <1>1 DEF HolderOwns, Working, HoldsCounted, Changing
<1>3. CASE Switch(t)
  BY <1>1, <1>2, <1>3 DEF Switch, OffCpu, NoOrphanLock
<1>4. CASE Stop(t)
  <2>1. cpu' = cpu /\ t # cpu /\ holds[t] = 0 /\ alive' = alive \ {t}
    BY <1>4 DEF Stop, MayStop
  <2>2. ASSUME NEW l \in Locks PROVE mux[l] # t
    <3>1. l \notin HeldBy(t)
      <4>1. Cardinality(HeldBy(t)) = 0
        BY <2>1 DEF HoldsCounted, HeldBy
      <4> QED BY <4>1, HeldByFinite, FS_EmptySet
    <3>2. holder[l] # t
      BY <3>1 DEF HeldBy
    <3>3. ~Changing(t, l)
      BY <2>1 DEF OffCpu, Changing
    <3> QED BY <3>2, <3>3 DEF HolderOwns
  <2>3. NoOrphanLock'
    BY <1>1, <2>1, <2>2 DEF NoOrphanLock
  <2>4. OffCpu'
    BY <1>1, <2>1 DEF OffCpu
  <2> QED BY <1>2, <2>3, <2>4
<1> QED BY <1>3, <1>4 DEF Scheduling

LEMMA StepLockInv ==
  ASSUME TypeOK, LockInv, [Next]_vars
  PROVE  LockInv'
<1> USE DEF TypeOK
<1>1. ASSUME NEW a \in Actors, NEW l \in Locks, TryTake(a, l) PROVE LockInv'
  <2>1. CASE mux[l] = None /\ mux' = [mux EXCEPT ![l] = a] /\ Go(a, "own")
    BY <1>1, <2>1, TakenLockInv DEF TryTake, At, Go
  <2>2. CASE Go(a, "contend") /\ UNCHANGED mux
    BY <1>1, <2>2, QuietLockInv DEF TryTake, At, Go
  <2> QED BY <1>1, <2>1, <2>2 DEF TryTake
<1>2. ASSUME NEW a \in Actors, Get(a) PROVE LockInv'
  <2>1. lock[a] \in Locks /\ lock' = [lock EXCEPT ![a] = lock[a]]
    BY <1>2 DEF Get
  <2> QED BY <1>2, <2>1, TakenLockInv DEF Get, At, Go
<1>3. ASSUME NEW a \in Actors, Contend(a) \/ Boost(a) PROVE LockInv'
  <2>1. pc[a] \in {"contend", "boost"} /\ (a \in Threads => cpu = a)
    BY <1>3 DEF Contend, Boost, At
  <2>2. pc' = [pc EXCEPT ![a] = pc'[a]] /\ pc'[a] \in {"boost", "wait"}
    BY <1>3 DEF Contend, Boost, Go
  <2>3. UNCHANGED <<lock, mux, holder, holds, cpu, alive>>
    BY <1>3 DEF Contend, Boost
  <2> QED BY <2>1, <2>2, <2>3, QuietLockInv
<1>4. ASSUME NEW a \in Actors, Acquiring(a) PROVE LockInv'
  BY <1>1, <1>2, <1>3, <1>4, OwnLockInv DEF Acquiring
<1>5. ASSUME NEW a \in Actors, Releasing(a) PROVE LockInv'
  BY <1>5, ReleaseLockInv, GivingLockInv DEF Releasing
<1>6. CASE UNCHANGED vars
  BY <1>6 DEF vars, LockInv, HolderOwns, Working, OffCpu, HoldsCounted, NoOrphanLock, Changing
<1> QED BY <1>4, <1>5, <1>6, SchedulingLockInv DEF Next

\* The notes and the counts agree with the mutexes at every step of every
\* acquire and release, however threads and host tasks interleave.
THEOREM LockInvHolds == Spec => []LockInv
<1>1. TypeOK /\ LockInv /\ [Next]_vars => LockInv'
  BY StepLockInv
<1> QED BY <1>1, InitLockInv, LockTypes, PTL DEF Spec

\* Nothing stops a thread while it has a lock: no lock is ever orphaned.
THEOREM NoLockOrphaned == Spec => []NoOrphanLock
<1>1. LockInv => NoOrphanLock
  BY DEF LockInv
<1> QED BY <1>1, LockInvHolds, PTL

(***************************************************************************)
(* What is lent.                                                           *)
(***************************************************************************)
\* Only threads take part: no host task is in a call, or has a mutex.
ThreadsOnly == \A a \in Actors \ Threads : pc[a] = "idle" /\ \A l \in Locks : mux[l] # a

\* Whoever is about to lend does so to the thread that has the lock now.
Lends == \A a \in Actors : pc[a] = "boost" => holder[lock[a]] = seen[a] /\ boosted[lock[a]]
BorrowInv == Lends /\ BorrowedOnlyWhileHeld

LEMMA StepBorrow ==
  ASSUME TypeOK, LockInv, ThreadsOnly, BorrowInv, [Next]_vars, ThreadsOnly'
  PROVE  BorrowInv'
<1> USE NoneApart DEF TypeOK, BorrowInv, Lends, BorrowedOnlyWhileHeld, At, Go
<1>0. ASSUME NEW a \in Actors, pc[a] # "idle" \/ pc'[a] # "idle"
      PROVE  a \in Threads /\ \A t \in Threads : t # cpu => pc[t] \in {"idle", "wait"}
  BY <1>0 DEF ThreadsOnly, LockInv, OffCpu
<1>1. ASSUME NEW a \in Actors, NEW l \in Locks, TryTake(a, l) PROVE BorrowInv'
  <2>1. a \in Threads /\ a = cpu BY <1>0, <1>1 DEF TryTake
  <2> QED BY <1>0, <1>1, <2>1 DEF TryTake
<1>2. ASSUME NEW a \in Actors, Own(a) PROVE BorrowInv'
  <2>1. a \in Threads /\ a = cpu BY <1>0, <1>2 DEF Own
  <2>2. holder[lock[a]] = None BY <1>2 DEF Own, LockInv, Working, Changing
  <2> QED BY <1>0, <1>2, <2>1, <2>2 DEF Own, Noted
<1>3. ASSUME NEW a \in Actors, Contend(a) PROVE BorrowInv'
  <2>1. a \in Threads /\ a = cpu BY <1>0, <1>3 DEF Contend
  <2> QED BY <1>0, <1>3, <2>1 DEF Contend
<1>4. ASSUME NEW a \in Actors, Boost(a) PROVE BorrowInv'
  <2>1. a \in Threads /\ a = cpu BY <1>0, <1>4 DEF Boost
  <2> QED BY <1>0, <1>4, <2>1 DEF Boost, Lent
<1>5. ASSUME NEW a \in Actors, Get(a) PROVE BorrowInv'
  <2>1. a \in Threads /\ a = cpu BY <1>0, <1>5 DEF Get
  <2> QED BY <1>0, <1>5, <2>1 DEF Get
<1>6. ASSUME NEW a \in Actors, NEW l \in Locks, Release(a, l) PROVE BorrowInv'
  <2>1. a \in Threads /\ a = cpu BY <1>0, <1>6 DEF Release
  <2>2. holder[l] = a BY <1>6, <2>1 DEF Release, LockInv, HolderOwns, Changing
  <2> QED BY <1>0, <1>6, <2>1, <2>2 DEF Release, Forgotten
<1>7. ASSUME NEW a \in Actors, Unboost(a) PROVE BorrowInv'
  <2>1. a \in Threads /\ a = cpu BY <1>0, <1>7 DEF Unboost
  <2>2. /\ boost' = Returned(seen[a]) /\ UNCHANGED <<holder, boosted, lock>>
        /\ pc' = [pc EXCEPT ![a] = "give"] /\ seen' = [seen EXCEPT ![a] = None]
    BY <1>7 DEF Unboost
  <2>3. ASSUME NEW t \in Threads, boost'[t] PROVE \E l \in Locks : holder'[l] = t /\ boosted'[l]
    <3>1. boost[t] /\ t # seen[a] BY <2>2, <2>3 DEF Returned
    <3>2. pc[t] = "unboost" => t = a BY <1>0, <2>1
    <3> QED BY <2>2, <3>1, <3>2
  <2>4. Lends' BY <2>2
  <2> QED BY <2>3, <2>4
<1>8. ASSUME NEW a \in Actors, GiveMux(a) PROVE BorrowInv'
  <2>1. a \in Threads /\ a = cpu BY <1>0, <1>8 DEF GiveMux
  <2>2. /\ pc' = [pc EXCEPT ![a] = "idle"] /\ pc[a] = "give"
        /\ UNCHANGED <<holder, boosted, boost, lock, seen>>
    BY <1>8 DEF GiveMux
  <2>3. Lends' BY <2>2
  <2>4. BorrowedOnlyWhileHeld' BY <2>1, <2>2
  <2> QED BY <2>3, <2>4
<1>9. ASSUME NEW t \in Threads, Scheduling(t) PROVE BorrowInv'
  BY <1>9 DEF Scheduling, Switch, Stop
<1>10. CASE UNCHANGED vars BY <1>10 DEF vars
<1> QED
  BY <1>1, <1>2, <1>3, <1>4, <1>5, <1>6, <1>7, <1>8, <1>9, <1>10 DEF Next, Acquiring, Releasing

\* No actor has two locks at once.
Single == \A k, l \in Locks : mux[k] = mux[l] /\ mux[k] # None => k = l

\* A lock has lent only to a thread it names, and a release takes back from itself.
Owes == /\ \A l \in Locks : boosted[l] => holder[l] # None
        /\ \A a \in Actors : pc[a] = "unboost" => seen[a] \in {a, None}
LentInv == Owes /\ LentStays

LEMMA StepLent ==
  ASSUME TypeOK, LockInv, Single, LentInv, [Next]_vars
  PROVE  LentInv'
<1> USE NoneApart DEF TypeOK, LentInv, Owes, LentStays, At, Go
<1>1. ASSUME NEW a \in Actors, NEW l \in Locks, TryTake(a, l) PROVE LentInv'
  BY <1>1 DEF TryTake
<1>2. ASSUME NEW a \in Actors, Own(a) PROVE LentInv'
  <2>1. holder[lock[a]] = None /\ ~boosted[lock[a]]
    BY <1>2 DEF Own, LockInv, Working, Changing
  <2> QED BY <1>2, <2>1 DEF Own, Noted
<1>3. ASSUME NEW a \in Actors, Contend(a) PROVE LentInv'
  BY <1>3 DEF Contend
<1>4. ASSUME NEW a \in Actors, Boost(a) PROVE LentInv'
  BY <1>4 DEF Boost, Lent
<1>5. ASSUME NEW a \in Actors, Get(a) PROVE LentInv'
  BY <1>5 DEF Get
<1>6. ASSUME NEW a \in Actors, NEW l \in Locks, Release(a, l) PROVE LentInv'
  <2>1. holder[l] \in {a, None} BY <1>6 DEF Release, LockInv, HolderOwns
  <2> QED BY <1>6, <2>1 DEF Release, Forgotten
<1>7. ASSUME NEW a \in Actors, Unboost(a) PROVE LentInv'
  <2>1. mux[lock[a]] = a /\ holder[lock[a]] = None /\ seen[a] \in {a, None}
    BY <1>7 DEF Unboost, LockInv, Working, Changing
  <2>2. \A l \in Locks : holder[l] # None => holder[l] # seen[a]
    BY <2>1 DEF LockInv, HolderOwns, Single
  <2> QED BY <1>7, <2>1, <2>2 DEF Unboost, Returned
<1>8. ASSUME NEW a \in Actors, GiveMux(a) PROVE LentInv'
  BY <1>8 DEF GiveMux
<1>9. ASSUME NEW t \in Threads, Scheduling(t) PROVE LentInv'
  BY <1>9 DEF Scheduling, Switch, Stop
<1>10. CASE UNCHANGED vars BY <1>10 DEF vars
<1> QED
  BY <1>1, <1>2, <1>3, <1>4, <1>5, <1>6, <1>7, <1>8, <1>9, <1>10 DEF Next, Acquiring, Releasing

\* Where no lock is taken inside another, a waiter has none.
NeverNested == Single /\ \A a \in Actors : pc[a] \in {"contend", "boost", "wait"} =>
                           \A l \in Locks : mux[l] # a

LEMMA StepNeverNested ==
  ASSUME Before = {}, TypeOK, LockInv, NeverNested, [Next]_vars
  PROVE  NeverNested'
<1> USE NoneApart DEF TypeOK, NeverNested, Single, At, Go
<1>1. ASSUME NEW a \in Actors, NEW l \in Locks, TryTake(a, l) PROVE NeverNested'
  <2>1. \A k \in Locks : mux[k] # a BY <1>1 DEF TryTake, Held
  <2> QED BY <1>1, <2>1 DEF TryTake
<1>2. ASSUME NEW a \in Actors, Own(a) \/ Contend(a) \/ Boost(a) \/ Unboost(a) PROVE NeverNested'
  BY <1>2 DEF Own, Contend, Boost, Unboost
<1>3. ASSUME NEW a \in Actors, Get(a) PROVE NeverNested'
  BY <1>3 DEF Get
<1>4. ASSUME NEW a \in Actors, NEW l \in Locks, Release(a, l) PROVE NeverNested'
  BY <1>4 DEF Release
<1>5. ASSUME NEW a \in Actors, GiveMux(a) PROVE NeverNested'
  BY <1>5 DEF GiveMux
<1>6. ASSUME NEW t \in Threads, Scheduling(t) PROVE NeverNested'
  BY <1>6 DEF Scheduling, Switch, Stop
<1>7. CASE UNCHANGED vars BY <1>7 DEF vars
<1> QED BY <1>1, <1>2, <1>3, <1>4, <1>5, <1>6, <1>7 DEF Next, Acquiring, Releasing

LEMMA InitLoans ==
  ASSUME Init
  PROVE  ThreadsOnly /\ BorrowInv /\ LentInv /\ NeverNested
BY NoneApart
   DEF Init, ThreadsOnly, BorrowInv, Lends, BorrowedOnlyWhileHeld, LentInv, Owes, LentStays,
       NeverNested, Single

\* Between RV-9 threads, a borrowed priority is given back when the lock that
\* lent it is let go (rv9_lock_release), whatever is nested in what.
THEOREM LoansReturned ==
  ASSUME Tasks = {}
  PROVE  Spec => []BorrowedOnlyWhileHeld
<1>1. ThreadsOnly /\ ThreadsOnly' BY DEF ThreadsOnly, Actors
<1>2. Init => BorrowInv BY InitLoans
<1>3. TypeOK /\ LockInv /\ BorrowInv /\ [Next]_vars => BorrowInv' BY <1>1, StepBorrow
<1>4. BorrowInv => BorrowedOnlyWhileHeld BY DEF BorrowInv
<1> QED BY <1>2, <1>3, <1>4, LockTypes, LockInvHolds, PTL DEF Spec

\* Where no lock is taken inside another, a holder that was lent a priority keeps
\* it until it lets go, whichever threads and host tasks contend (rv9_lock_acquire).
THEOREM LoansStay ==
  ASSUME Before = {}
  PROVE  Spec => []LentStays
<1>1. Init => LentInv /\ NeverNested BY InitLoans
<1>2. TypeOK /\ LockInv /\ LentInv /\ NeverNested /\ [Next]_vars => LentInv' /\ NeverNested'
  BY StepLent, StepNeverNested DEF NeverNested
<1>3. LentInv => LentStays BY DEF LentInv
<1> QED BY <1>1, <1>2, <1>3, LockTypes, LockInvHolds, PTL DEF Spec

(***************************************************************************)
(* The casts of the run.                                                   *)
(***************************************************************************)
CastInv ==
  /\ cast.plays \subseteq Threads => ThreadsOnly /\ BorrowInv
  /\ ~cast.nests => Single /\ LentInv

LEMMA CastThreadsOnly ==
  ASSUME TypeOK, LockInv, ThreadsOnly, cast.plays \subseteq Threads, CastNext
  PROVE  ThreadsOnly'
<1> USE NoneApart DEF TypeOK, ThreadsOnly, At, Go
<1>1. \A a \in Actors \ Threads : pc'[a] = "idle" BY LockAssumption DEF CastNext, Actors
<1>2. ASSUME NEW a \in Actors, NEW l \in Locks, TryTake(a, l) PROVE ThreadsOnly'
  BY <1>1, <1>2 DEF TryTake
<1>3. ASSUME NEW a \in Actors, Own(a) \/ Contend(a) \/ Boost(a) \/ Unboost(a) PROVE ThreadsOnly'
  BY <1>1, <1>3 DEF Own, Contend, Boost, Unboost
<1>4. ASSUME NEW a \in Actors, Get(a) PROVE ThreadsOnly'
  BY <1>1, <1>4 DEF Get
<1>5. ASSUME NEW a \in Actors, NEW l \in Locks, Release(a, l) PROVE ThreadsOnly'
  BY <1>1, <1>5 DEF Release
<1>6. ASSUME NEW a \in Actors, GiveMux(a) PROVE ThreadsOnly'
  BY <1>1, <1>6 DEF GiveMux
<1>7. ASSUME NEW t \in Threads, Scheduling(t) PROVE ThreadsOnly'
  BY <1>1, <1>7 DEF Scheduling, Switch, Stop
<1>8. Next BY DEF CastNext
<1> QED BY <1>2, <1>3, <1>4, <1>5, <1>6, <1>7, <1>8 DEF Next, Acquiring, Releasing

LEMMA OneHeldEach ==
  ASSUME TypeOK', \A x \in Actors : Cardinality({l \in Locks : mux'[l] = x}) <= 1
  PROVE  Single'
<1> SUFFICES ASSUME NEW k \in Locks, NEW l \in Locks, mux'[k] = mux'[l], mux'[k] # None, k # l
             PROVE  FALSE
  BY DEF Single
<1>1. PICK x \in Actors : x = mux'[k] BY DEF TypeOK
<1>2. PICK S : S = {j \in Locks : mux'[j] = x} OBVIOUS
<1>3. IsFiniteSet(S) /\ Cardinality(S) <= 1 BY <1>1, <1>2, LockAssumption, FS_Subset
<1>4. IsFiniteSet({k}) /\ Cardinality({k}) = 1 BY FS_Singleton
<1>5. Cardinality({k, l}) = 2
  <2>1. l \notin {k} /\ {k, l} = {k} \cup {l} OBVIOUS
  <2>2. Cardinality({k} \cup {l}) = Cardinality({k}) + 1 BY <1>4, <2>1, FS_AddElement
  <2> QED BY <1>4, <2>1, <2>2
<1>6. Cardinality({k, l}) <= Cardinality(S) /\ Cardinality(S) \in Nat
  BY <1>1, <1>2, <1>3, FS_Subset, FS_CardinalityType
<1> QED BY <1>3, <1>5, <1>6

\* The same of every cast of the run: the two rest on who plays and on whether
\* locks are nested, and on nothing else.
THEOREM LoansLastInCasts == CastSpec => []LoansLast
<1>1. CastSpec => Spec
  <2>1. CastInit => Init BY DEF CastInit
  <2>2. [CastNext]_<<vars, cast>> => [Next]_vars BY DEF CastNext
  <2> QED BY <2>1, <2>2, PTL DEF CastSpec, Spec
<1>2. CastInit => CastInv BY InitLoans DEF CastInit, CastInv, NeverNested
<1>3. TypeOK /\ LockInv /\ TypeOK' /\ CastInv /\ [CastNext]_<<vars, cast>> => CastInv'
  <2> SUFFICES ASSUME TypeOK, LockInv, TypeOK', CastInv, [CastNext]_<<vars, cast>> PROVE CastInv'
    OBVIOUS
  <2>1. CASE UNCHANGED <<vars, cast>>
    BY <2>1 DEF vars, CastInv, ThreadsOnly, BorrowInv, Lends, BorrowedOnlyWhileHeld, LentInv, Owes,
                LentStays, Single
  <2>2. CASE CastNext
    <3>1. cast' = cast /\ [Next]_vars BY <2>2 DEF CastNext
    <3>2. ASSUME cast.plays \subseteq Threads PROVE ThreadsOnly' /\ BorrowInv'
      <4>1. ThreadsOnly /\ BorrowInv BY <3>2 DEF CastInv
      <4>2. ThreadsOnly' BY <2>2, <3>2, <4>1, CastThreadsOnly
      <4>3. BorrowInv' BY <3>1, <4>1, <4>2, StepBorrow
      <4> QED BY <4>2, <4>3
    <3>3. ASSUME ~cast.nests PROVE Single' /\ LentInv'
      <4>1. Single /\ LentInv BY <3>3 DEF CastInv
      <4>2. Single' BY <2>2, <3>3, OneHeldEach DEF CastNext
      <4>3. LentInv' BY <3>1, <4>1, StepLent
      <4> QED BY <4>2, <4>3
    <3>4. /\ cast.plays \subseteq Threads => ThreadsOnly' /\ BorrowInv'
          /\ ~cast.nests => Single' /\ LentInv'
      BY <3>2, <3>3
    <3> QED BY <3>1, <3>4 DEF CastInv
  <2> QED BY <2>1, <2>2
<1>4. CastInv => LoansLast BY DEF CastInv, LoansLast, BorrowInv, LentInv
<1> QED BY <1>1, <1>2, <1>3, <1>4, LockTypes, LockInvHolds, PTL DEF CastSpec

=============================================================================
