-------------------------------- MODULE RvFlash -------------------------------
(***************************************************************************)
(* The flash disk: components/rv9_io/src/drv_flashdisk.c.                  *)
(*                                                                         *)
(* Sectors are read and written; the flash below is erased a block at a    *)
(* time, and writing it clears bits and sets none.  A few blocks are held  *)
(* in memory and put back when idle or evicted.  The flash may refuse an   *)
(* erase, a write or a read, and the power may go.                         *)
(***************************************************************************)
EXTENDS Naturals, FiniteSets

CONSTANTS
  Blocks,   \* erase blocks
  Parts,    \* sectors of a block
  Bits,     \* bits of a sector: a value is the set of those that are ones
  Slots,    \* CACHE_SLOTS
  NoBlock,
  MaxCuts   \* bound: how often the power goes

ASSUME FlashAssumption == NoBlock \notin Blocks /\ 0 \notin Slots /\ MaxCuts \in Nat

VARIABLES
  flash,    \* what the flash holds, by block and sector
  slot,     \* [block, dirty, data]; block is NoBlock where it is not valid
  erased,   \* the slot whose block has been erased to be written, or 0
  wants,    \* a write that evicts: what, where, and the slot it takes
  written,  \* what a write that succeeded put in each sector last
  fresh,    \* sectors written since their block was last put back
  torn,     \* blocks erased, and not written since
  cuts

flashVars == <<flash, slot, erased, wants, written, fresh, torn, cuts>>

Value == SUBSET Bits
AllOnes == [s \in Parts |-> Bits]
NoWant == [block |-> NoBlock, part |-> 0, value |-> {}, slot |-> 0]
NoSlot == [block |-> NoBlock, dirty |-> FALSE, data |-> AllOnes]

FlashInit ==
  /\ flash = [b \in Blocks |-> AllOnes] /\ slot = [i \in Slots |-> NoSlot]
  /\ erased = 0 /\ wants = NoWant /\ written = flash /\ fresh = {} /\ torn = {} /\ cuts = 0

SlotsOf(b) == {i \in Slots : slot[i].block = b}

\* What a read of the disk finds: a cached block stands in for the flash.
Seen(b) == IF SlotsOf(b) = {} THEN flash[b] ELSE slot[CHOOSE i \in SlotsOf(b) : TRUE].data

(***************************************************************************)
(* flush_slot, by the flusher or for an eviction, under the lock of either.*)
(***************************************************************************)
ClearsOnly(i) == \A s \in Parts : slot[i].data[s] \subseteq flash[slot[i].block][s]

MayFlush(i) ==
  /\ erased = 0 /\ slot[i].block # NoBlock /\ slot[i].dirty
  /\ wants = NoWant \/ wants.slot = i

\* An erase, where the write would set bits, or the flash cannot be read to see.
Erase(i) ==
  /\ MayFlush(i) /\ erased' = i
  /\ flash' = [flash EXCEPT ![slot[i].block] = AllOnes]
  /\ torn' = torn \cup {slot[i].block}
  /\ UNCHANGED <<slot, wants, written, fresh, cuts>>

\* esp_partition_write of some of the sectors: a bit once cleared stays so.
Burnt(b, data, some) ==
  [flash EXCEPT ![b] = [s \in Parts |-> IF s \in some THEN @[s] \cap data[s] ELSE @[s]]]

MayBurn(i) == erased = i \/ (MayFlush(i) /\ ClearsOnly(i))

PutBack(i) ==
  LET b == slot[i].block IN
  /\ MayBurn(i) /\ flash' = Burnt(b, slot[i].data, Parts)
  /\ slot' = [slot EXCEPT ![i].dirty = FALSE] /\ erased' = 0
  /\ fresh' = fresh \ ({b} \X Parts) /\ torn' = torn \ {b}
  /\ UNCHANGED <<wants, written, cuts>>

\* Bug: a block that could not be written back is done with.
PutBackFailsClean(i) ==
  /\ MayBurn(i) /\ flash' = Burnt(slot[i].block, slot[i].data, {})
  /\ slot' = [slot EXCEPT ![i].dirty = FALSE]
  /\ erased' = 0 /\ wants' = NoWant /\ UNCHANGED <<written, fresh, torn, cuts>>

\* The erase is refused, or the write fails part of the way; the slot stays
\* dirty, and a write that wanted it fails too.
PutBackFails(i) ==
  /\ \/ MayFlush(i) /\ UNCHANGED flash
     \/ /\ MayBurn(i)
        /\ \E some \in SUBSET Parts : flash' = Burnt(slot[i].block, slot[i].data, some)
  /\ erased' = 0 /\ wants' = NoWant /\ UNCHANGED <<slot, written, fresh, torn, cuts>>

(***************************************************************************)
(* A write of one sector: get_slot, and the copy into the slot.            *)
(***************************************************************************)
Patched(b, s, v) ==
  /\ written' = [written EXCEPT ![b][s] = v] /\ fresh' = fresh \cup {<<b, s>>}

WriteCached(b, s, v) ==
  /\ erased = 0 /\ wants = NoWant /\ Patched(b, s, v)
  /\ \E i \in SlotsOf(b) : slot' = [slot EXCEPT ![i].data[s] = v, ![i].dirty = TRUE]
  /\ UNCHANGED <<flash, erased, wants, torn, cuts>>

\* A slot that is not valid, or else the least recently used: among those
\* used in the same millisecond, any.
Miss(b, s, v) ==
  /\ erased = 0 /\ wants = NoWant /\ SlotsOf(b) = {}
  /\ \E i \in Slots :
       /\ SlotsOf(NoBlock) # {} => i \in SlotsOf(NoBlock)
       /\ wants' = [block |-> b, part |-> s, value |-> v, slot |-> i]
  /\ UNCHANGED <<flash, slot, erased, written, fresh, torn, cuts>>

Evictable == wants # NoWant /\ erased = 0 /\ ~slot[wants.slot].dirty

Fill ==
  LET b == wants.block IN
  /\ Evictable /\ Patched(b, wants.part, wants.value) /\ wants' = NoWant
  /\ slot' = [slot EXCEPT ![wants.slot] =
                [block |-> b, dirty |-> TRUE,
                 data |-> [flash[b] EXCEPT ![wants.part] = wants.value]]]
  /\ UNCHANGED <<flash, erased, torn, cuts>>

\* Bug: a slot that could not be filled has the block's number already.
FillFailsNamed ==
  /\ Evictable /\ slot' = [slot EXCEPT ![wants.slot] = [NoSlot EXCEPT !.block = wants.block]]
  /\ wants' = NoWant /\ UNCHANGED <<flash, erased, written, fresh, torn, cuts>>

\* The flash cannot be read: the write fails, and the slot holds nothing.
FillFails ==
  /\ Evictable /\ slot' = [slot EXCEPT ![wants.slot] = NoSlot]
  /\ wants' = NoWant /\ UNCHANGED <<flash, erased, written, fresh, torn, cuts>>

\* The power goes.  What was written is what the flash holds then.
PowerFails ==
  /\ cuts < MaxCuts /\ cuts' = cuts + 1
  /\ slot' = [i \in Slots |-> NoSlot] /\ erased' = 0 /\ wants' = NoWant
  /\ written' = flash /\ fresh' = {} /\ torn' = {}
  /\ UNCHANGED flash

FlashNext ==
  \/ \E i \in Slots : Erase(i) \/ PutBack(i) \/ PutBackFails(i)
  \/ \E b \in Blocks, s \in Parts, v \in Value : WriteCached(b, s, v) \/ Miss(b, s, v)
  \/ Fill \/ FillFails \/ PowerFails

FlashSpec == FlashInit /\ [][FlashNext]_flashVars

(***************************************************************************)
(* Properties.                                                             *)
(***************************************************************************)
\* Every variable keeps its type.
FlashTypeOK ==
  /\ flash \in [Blocks -> [Parts -> Value]] /\ written \in [Blocks -> [Parts -> Value]]
  /\ slot \in [Slots -> [block : Blocks \cup {NoBlock}, dirty : BOOLEAN, data : [Parts -> Value]]]
  /\ erased \in Slots \cup {0} /\ fresh \subseteq Blocks \X Parts /\ torn \subseteq Blocks
  /\ wants \in {NoWant} \cup [block : Blocks, part : Parts, value : Value, slot : Slots]
  /\ cuts \in Nat

\* The disk is a disk: a block has one slot at most, and a read finds what
\* was last written, through evictions, blocks put back without an erase,
\* and an erase, a write or a read that fails.
ReadsWhatWasWritten ==
  \A b \in Blocks : Cardinality(SlotsOf(b)) <= 1 /\ Seen(b) = written[b]

\* What the power takes with it, were it to go now, are writes since their
\* block was put back, and blocks erased and not yet written.
OnlyFreshAtRisk ==
  \A b \in Blocks, s \in Parts :
    <<b, s>> \notin fresh /\ b \notin torn => flash[b][s] = written[b][s]

=============================================================================
