-------------------------------- MODULE Pmm --------------------------------
(***************************************************************************)
(* The physical memory manager, kernel/src/lib/memory/pmm.c: a binary      *)
(* buddy allocator over the RAM regions the boot loader reported.          *)
(*                                                                         *)
(* A region is the record of the fields of pmm_region_t.  Its block pool   *)
(* has one entry per page, so the pointer to a pmm_block_t is modelled by  *)
(* the page's index in the pool: the `address' field never changes after   *)
(* pmm_add_region and is recovered by AddressOf.  The chain of `next'      *)
(* pointers that hangs off free_lists[order] is the sequence of the blocks *)
(* on it, head first; that is exact as long as no block is pushed while it *)
(* is on a list, which is what ListsInjective in PmmInductive states.      *)
(*                                                                         *)
(* The kernel is single-threaded here and no interrupt handler that runs   *)
(* during these functions calls them, so an operation is not interleaved   *)
(* with another one.  The three loops that change state (carving a region, *)
(* splitting a block, coalescing) take one step per iteration: `pc' says   *)
(* which function is under way and nothing else can happen until it ends.  *)
(***************************************************************************)
EXTENDS Emm, Sequences, SequencesExt, FiniteSets

CONSTANTS
    MAX_ORDER,          \* 10 in pmm.h
    BootMaps,           \* the ram_regions lists the boot loader may report
    AllocOrders,        \* arguments the kernel passes to pmm_alloc_order,
    AllocPages,         \* to pmm_alloc_pages
    AllocSizes,         \* and to pmm_alloc_size
    StrayAddresses      \* pointers it may pass to pmm_free without owning them

PAGE_SIZE == 4096

(* 1U << order.  MAX_ORDER is at most 10, so a table is the whole function.*)
BLOCK_COUNT(order) ==
    <<1, 2, 4, 8, 16, 32, 64, 128, 256, 512, 1024>>[order + 1]

BLOCK_SIZE(order) == BLOCK_COUNT(order) * PAGE_SIZE

(* sizeof on i686: 11 list heads and 5 words; address, order, is_free and  *)
(* two bytes of padding, next.                                             *)
SIZEOF_REGION == 64
SIZEOF_BLOCK == 12

Orders == 0..MAX_ORDER

ASSUME PmmAssumption ==
    /\ MAX_ORDER \in 0..10
    /\ ADDRESS_SPACE % PAGE_SIZE = 0
    /\ ADDRESS_SPACE > PAGE_SIZE
    \* the early heap is far enough below the top of the address space that
    \* the sums of emm_alloc do not wrap for any region that fits it
    /\ EARLY_HEAP_END + SIZEOF_REGION
         + (ADDRESS_SPACE \div PAGE_SIZE) * SIZEOF_BLOCK < ADDRESS_SPACE
    /\ \A ram \in BootMaps : ram \in Seq([base_address : Nat, length : Nat])
    /\ AllocOrders \subseteq Nat
    /\ AllocPages \subseteq Nat
    /\ AllocSizes \subseteq Nat
    /\ StrayAddresses \subseteq Nat

VARIABLES
    ram_regions,    \* boot_info->ram_regions
    current_ram,    \* pmm_init's position in it
    g_regions,      \* the linked list of regions, in order
    region,         \* the region pmm_add_region is building
    offset,         \* its carve loop's position
    pc,             \* the function under way
    hand,           \* the block that alloc or free holds in a local variable
    target_order,   \* pmm_alloc_order's argument
    panic,          \* why kpanic was called
    live            \* history: the blocks handed out and not freed since

vars == <<g_cursor, ram_regions, current_ram, g_regions, region, offset, pc,
          hand, target_order, panic, live>>

boot_vars == <<g_cursor, ram_regions, current_ram, region, offset>>

(***************************************************************************)
(* Helpers of pmm.c and kmemory.c.                                         *)
(***************************************************************************)

Blocks == [region : Nat, block : Nat, order : Orders]
NoBlock == [region |-> 0, block |-> 0, order |-> 0]

(* The fields order and is_free of a pmm_block_t.                          *)
PageEntry == [order : Orders, is_free : BOOLEAN]
FreeEntry(order) == [order |-> order, is_free |-> TRUE]
UsedEntry(order) == [order |-> order, is_free |-> FALSE]

NoRegion == [start |-> 0, end |-> 0, block_pool_size |-> 0,
             block_pool |-> <<>>, free_lists |-> [o \in Orders |-> <<>>]]

kalign_down(value) == value - (value % PAGE_SIZE)

(* Rounding up a value that is aligned already.                            *)
kalign_up_past(value) == kalign_down((value + PAGE_SIZE) % ADDRESS_SPACE)

kalign_up(value) == kalign_down((value + PAGE_SIZE - 1) % ADDRESS_SPACE)

AddressOf(r, block) == g_regions[r].start + block * PAGE_SIZE

(* The loop of size_to_order leaves with the first order whose blocks are  *)
(* large enough, or with MAX_ORDER + 1.                                    *)
FitsOrder(size, order) ==
    /\ order \in Orders
    /\ BLOCK_SIZE(order) >= size
    /\ order > 0 => BLOCK_SIZE(order - 1) < size

size_to_order_fails(size) == BLOCK_SIZE(MAX_ORDER) < size

InRegion(r, address) ==
    /\ address >= g_regions[r].start
    /\ address < g_regions[r].end

(* The first region of the list that contains the address, 0 for NULL.     *)
find_region_by_address(address) ==
    IF \E r \in DOMAIN g_regions : InRegion(r, address)
    THEN CHOOSE r \in DOMAIN g_regions :
            /\ InRegion(r, address)
            /\ \A q \in 1..(r - 1) : ~InRegion(q, address)
    ELSE 0

(* A search that looks at the list of the requested order only.            *)
CanServeExactly(r, order) == g_regions[r].free_lists[order] # <<>>

CanServe(r, order) ==
    \E o \in order..MAX_ORDER : g_regions[r].free_lists[o] # <<>>

find_region_for_order(r, order) ==
    /\ r \in DOMAIN g_regions
    /\ CanServe(r, order)
    /\ \A q \in 1..(r - 1) : ~CanServe(q, order)

(* The lowest order at or above the request that has a free block.         *)
LowestOrder(r, order, o) ==
    /\ o \in order..MAX_ORDER
    /\ g_regions[r].free_lists[o] # <<>>
    /\ \A p \in order..(o - 1) : g_regions[r].free_lists[p] = <<>>

(* The neighbour above, whichever half of the pair the block is.           *)
buddy_above(block, order) == block + BLOCK_COUNT(order)

(* region_relative ^ BLOCK_SIZE(order), in pages: the bit BLOCK_COUNT is   *)
(* clear iff the remainder modulo the next power is below it.              *)
get_buddy_block(block, order) ==
    IF block % (2 * BLOCK_COUNT(order)) < BLOCK_COUNT(order)
    THEN block + BLOCK_COUNT(order)
    ELSE block - BLOCK_COUNT(order)

(* find_block_by_address is NULL outside the region; the pool's size is    *)
(* the region's size in pages, so one comparison says it all.              *)
HasBlock(reg, block) == block < reg.block_pool_size

(* Unlinking whatever block is first on the list.                          *)
remove_head(reg, block, order) ==
    [reg EXCEPT !.free_lists[order] = Tail(@)]

remove_from_region_freelist(reg, block, order) ==
    [reg EXCEPT !.free_lists[order] = RemoveFirst(@, block)]

add_to_region_freelist(reg, block, order) ==
    [reg EXCEPT !.free_lists[order] = <<block>> \o @]

set_block(reg, block, entry) == [reg EXCEPT !.block_pool[block] = entry]

(* The messages of the calls of KPANIC.                                    *)
PanicReasons ==
    {"none", "region overflows", "early heap exhausted", "invalid order",
     "no free blocks", "size too large", "page count overflows",
     "unaligned pointer", "no region", "double free", "not block aligned",
     "buddy not on free list"}

(* KPANIC prints and stops the machine with interrupts off.                *)
KPANIC(reason) == pc' = "panic" /\ panic' = reason

(***************************************************************************)
(* Boot: pmm_init walks the boot loader's list and adds every region.      *)
(***************************************************************************)

Init ==
    /\ EmmInit
    /\ ram_regions \in BootMaps
    /\ current_ram = 1
    /\ g_regions = <<>>
    /\ region = NoRegion
    /\ offset = 0
    /\ pc = "pmm_init"
    /\ hand = NoBlock
    /\ target_order = 0
    /\ panic = "none"
    /\ live = {}

new_region(start, end, pool_size) ==
    [start |-> start, end |-> end, block_pool_size |-> pool_size,
     block_pool |-> [i \in 0..(pool_size - 1) |-> FreeEntry(0)],
     free_lists |-> [o \in Orders |-> <<>>]]

(* A region without a whole page: pmm_add_region returns and pmm_init      *)
(* takes the next one (first without doing that).                          *)
skip_forgotten == UNCHANGED <<g_cursor, current_ram, region, pc, panic>>

skip_region ==
    /\ current_ram' = current_ram + 1
    /\ UNCHANGED <<g_cursor, region, pc, panic>>

(* pmm_add_region up to its carve loop.  The header is allocated before    *)
(* the pool: when the pool does not fit, the header's bytes are spent.     *)
pmm_add_region(start, size) ==
    LET original_end == (start + size) % ADDRESS_SPACE
        aligned_start == kalign_up(start)
        aligned_end == kalign_down(original_end)
        pool_size == (aligned_end - aligned_start) \div PAGE_SIZE
        after_header == next_cursor(g_cursor, SIZEOF_REGION)
        pool_bytes == pool_size * SIZEOF_BLOCK
    IN  \/ /\ start >= original_end
           /\ KPANIC("region overflows")
           /\ UNCHANGED <<g_cursor, current_ram, region>>
        \/ /\ start < original_end
           /\ aligned_end <= aligned_start
           /\ skip_region
        \/ /\ start < original_end
           /\ aligned_end > aligned_start
           /\ IF emm_exhausted(g_cursor, SIZEOF_REGION)
              THEN /\ KPANIC("early heap exhausted")
                   /\ UNCHANGED <<g_cursor, region>>
              ELSE IF emm_exhausted(after_header, pool_bytes)
              THEN /\ KPANIC("early heap exhausted")
                   /\ g_cursor' = after_header
                   /\ UNCHANGED region
              ELSE /\ g_cursor' = next_cursor(after_header, pool_bytes)
                   /\ region' = new_region(aligned_start, aligned_end, pool_size)
                   /\ pc' = "carve"
                   /\ UNCHANGED panic
           /\ UNCHANGED current_ram

(* uintptr_t start = base_address: 64 bits are cut down to the width of an *)
(* address.                                                                *)
truncate(value) == value % ADDRESS_SPACE

pmm_init ==
    /\ pc = "pmm_init"
    /\ current_ram <= Len(ram_regions)
    /\ LET ram == ram_regions[current_ram]
       IN  pmm_add_region(truncate(ram.base_address), truncate(ram.length))
    /\ UNCHANGED <<ram_regions, g_regions, offset, hand, target_order, live>>

(* The inner loop of pmm_add_region stops at the first order whose         *)
(* successor is misaligned or too large.                                   *)
CanGrow(at, pool_size, order) ==
    /\ at % BLOCK_COUNT(order) = 0
    /\ at + BLOCK_COUNT(order) <= pool_size

biggest_order(at, pool_size, order) ==
    /\ \A o \in 1..order : CanGrow(at, pool_size, o)
    /\ order < MAX_ORDER => ~CanGrow(at, pool_size, order + 1)

carve ==
    /\ pc = "carve"
    /\ offset < region.block_pool_size
    /\ \E order \in Orders :
        /\ biggest_order(offset, region.block_pool_size, order)
        /\ region' = add_to_region_freelist(
                        set_block(region, offset, FreeEntry(order)), offset, order)
        /\ offset' = offset + BLOCK_COUNT(order)
    /\ UNCHANGED <<g_cursor, ram_regions, current_ram, g_regions, pc, hand,
                   target_order, panic, live>>

(* The end of pmm_add_region: the region goes to the end of the list, and  *)
(* pmm_init moves on.                                                      *)
link_region ==
    /\ pc = "carve"
    /\ offset >= region.block_pool_size
    /\ g_regions' = Append(g_regions, region)
    /\ region' = NoRegion
    /\ offset' = 0
    /\ current_ram' = current_ram + 1
    /\ pc' = "pmm_init"
    /\ UNCHANGED <<g_cursor, ram_regions, hand, target_order, panic, live>>

pmm_init_return ==
    /\ pc = "pmm_init"
    /\ current_ram > Len(ram_regions)
    /\ pc' = "idle"
    /\ UNCHANGED <<boot_vars, g_regions, hand, target_order, panic, live>>

(***************************************************************************)
(* Allocation.                                                             *)
(***************************************************************************)

(* pmm_alloc_order up to its split loop.  The two panics after the region  *)
(* was found repeat what find_region_for_order has just established.       *)
pmm_alloc_order(order) ==
    IF order > MAX_ORDER
    THEN KPANIC("invalid order") /\ UNCHANGED <<g_regions, hand, target_order>>
    ELSE IF \A r \in DOMAIN g_regions : ~CanServe(r, order)
    THEN KPANIC("no free blocks") /\ target_order' = order /\ UNCHANGED <<g_regions, hand>>
    ELSE \E r \in DOMAIN g_regions, current_order \in Orders :
        /\ find_region_for_order(r, order)
        /\ LowestOrder(r, order, current_order)
        /\ LET target == Head(g_regions[r].free_lists[current_order])
               reg == remove_from_region_freelist(g_regions[r], target, current_order)
           IN  /\ g_regions' = [g_regions EXCEPT ![r] =
                    set_block(reg, target, UsedEntry(reg.block_pool[target].order))]
               /\ hand' = [region |-> r, block |-> target, order |-> current_order]
        /\ target_order' = order
        /\ pc' = "split"
        /\ UNCHANGED panic

pmm_alloc_size(size) ==
    IF size = 0
    THEN UNCHANGED <<g_regions, hand, target_order, pc, panic>>
    ELSE IF size_to_order_fails(size)
    THEN KPANIC("size too large") /\ UNCHANGED <<g_regions, hand, target_order>>
    ELSE \E order \in Orders : FitsOrder(size, order) /\ pmm_alloc_order(order)

(* SIZE_MAX is ADDRESS_SPACE - 1.                                          *)
pmm_alloc_pages(num_pages) ==
    IF num_pages > (ADDRESS_SPACE - 1) \div PAGE_SIZE
    THEN KPANIC("page count overflows") /\ UNCHANGED <<g_regions, hand, target_order>>
    ELSE pmm_alloc_size(num_pages * PAGE_SIZE)

Allocate ==
    /\ pc = "idle"
    /\ \/ \E order \in AllocOrders : pmm_alloc_order(order)
       \/ \E num_pages \in AllocPages : pmm_alloc_pages(num_pages)
       \/ \E size \in AllocSizes : pmm_alloc_size(size)
    /\ UNCHANGED <<boot_vars, live>>

(* The buddy computed before the order is decremented.                     *)
split_buddy_early(block, current_order) == block + BLOCK_COUNT(current_order + 1)

(* The half that a split gives back: the block above, at the new order.    *)
split_buddy(block, current_order) == block + BLOCK_COUNT(current_order)

(* One iteration of the split loop: the upper half goes back to the free   *)
(* lists.  Without a pool entry for it the code stores through NULL.       *)
split ==
    /\ pc = "split"
    /\ hand.order > target_order
    /\ LET current_order == hand.order - 1
           buddy == split_buddy(hand.block, current_order)
           reg == g_regions[hand.region]
           halved == set_block(reg, hand.block,
                        [order |-> current_order,
                         is_free |-> reg.block_pool[hand.block].is_free])
       IN  IF HasBlock(reg, buddy)
           THEN /\ g_regions' = [g_regions EXCEPT ![hand.region] =
                     add_to_region_freelist(
                        set_block(halved, buddy, FreeEntry(current_order)),
                        buddy, current_order)]
                /\ hand' = [hand EXCEPT !.order = current_order]
                /\ UNCHANGED pc
           ELSE pc' = "null dereference" /\ UNCHANGED <<g_regions, hand>>
    /\ UNCHANGED <<boot_vars, target_order, panic, live>>

alloc_return ==
    /\ pc = "split"
    /\ hand.order = target_order
    /\ live' = live \cup {hand}
    /\ hand' = NoBlock
    /\ target_order' = 0
    /\ pc' = "idle"
    /\ UNCHANGED <<boot_vars, g_regions, panic>>

(***************************************************************************)
(* Release.                                                                *)
(***************************************************************************)

(* The checks of pmm_free, in order; "none" when the pointer is accepted.  *)
(* A block's order never exceeds MAX_ORDER (TypeOK), and a region has a    *)
(* pool entry for each of its pages, so two of the code's panics have no   *)
(* outcome of their own here.                                              *)
free_fault(address) ==
    LET r == find_region_by_address(address)
        reg == g_regions[r]
        block == (address - reg.start) \div PAGE_SIZE
    IN  IF address % PAGE_SIZE # 0 THEN "unaligned pointer"
        ELSE IF r = 0 THEN "no region"
        ELSE IF reg.block_pool[block].is_free THEN "double free"
        ELSE IF block % BLOCK_COUNT(reg.block_pool[block].order) # 0
        THEN "not block aligned"
        ELSE "none"

(* pmm_free up to its coalescing loop.                                     *)
pmm_free(address) ==
    /\ pc = "idle"
    /\ IF address = 0
       THEN UNCHANGED <<g_regions, hand, pc, panic, live>>
       ELSE IF free_fault(address) # "none"
       THEN KPANIC(free_fault(address)) /\ UNCHANGED <<g_regions, hand, live>>
       ELSE LET r == find_region_by_address(address)
                block == (address - g_regions[r].start) \div PAGE_SIZE
                order == g_regions[r].block_pool[block].order
                freed == [region |-> r, block |-> block, order |-> order]
            IN  /\ g_regions' = [g_regions EXCEPT ![r] =
                                    set_block(@, block, FreeEntry(order))]
                /\ hand' = freed
                /\ live' = live \ {freed}
                /\ pc' = "coalesce"
                /\ UNCHANGED panic
    /\ UNCHANGED <<boot_vars, target_order>>

(* Coalescing without the comparison of the orders, and coalescing that    *)
(* never makes a block of the largest order.                               *)
CanMergeAnyOrder(reg, block, order) ==
    LET buddy == get_buddy_block(block, order)
    IN  /\ order < MAX_ORDER
        /\ HasBlock(reg, buddy)
        /\ reg.block_pool[buddy].is_free

CanMergeBelow(reg, block, order) ==
    LET buddy == get_buddy_block(block, order)
    IN  /\ order + 1 < MAX_ORDER
        /\ HasBlock(reg, buddy)
        /\ reg.block_pool[buddy].is_free
        /\ reg.block_pool[buddy].order = order

(* The conditions that keep the coalescing loop going.                     *)
CanMerge(reg, block, order) ==
    LET buddy == get_buddy_block(block, order)
    IN  /\ order < MAX_ORDER
        /\ HasBlock(reg, buddy)
        /\ reg.block_pool[buddy].is_free
        /\ reg.block_pool[buddy].order = order

(* A merge that always keeps the block being freed.                        *)
merged_keeps(block, buddy) == block

merged_block(block, buddy) == IF buddy < block THEN buddy ELSE block

(* One iteration: the buddy leaves its free list, is marked as not free    *)
(* and the lower of the two carries the next order.                        *)
coalesce ==
    /\ pc = "coalesce"
    /\ LET reg == g_regions[hand.region]
           buddy == get_buddy_block(hand.block, hand.order)
           lower == merged_block(hand.block, buddy)
           removed == remove_from_region_freelist(reg, buddy, hand.order)
       IN  /\ CanMerge(reg, hand.block, hand.order)
           /\ IF Contains(reg.free_lists[hand.order], buddy)
              THEN /\ g_regions' = [g_regions EXCEPT ![hand.region] =
                        set_block(set_block(removed, buddy, UsedEntry(hand.order)),
                                  lower, FreeEntry(hand.order + 1))]
                   /\ hand' = [hand EXCEPT !.block = lower, !.order = @ + 1]
                   /\ UNCHANGED <<pc, panic>>
              ELSE /\ KPANIC("buddy not on free list")
                   /\ UNCHANGED <<g_regions, hand>>
    /\ UNCHANGED <<boot_vars, target_order, live>>

free_return ==
    /\ pc = "coalesce"
    /\ ~CanMerge(g_regions[hand.region], hand.block, hand.order)
    /\ g_regions' = [g_regions EXCEPT ![hand.region] =
                        add_to_region_freelist(@, hand.block, hand.order)]
    /\ hand' = NoBlock
    /\ pc' = "idle"
    /\ UNCHANGED <<boot_vars, target_order, panic, live>>

(***************************************************************************)
(* The kernel as a client.  It frees what it owns; it may also pass NULL,  *)
(* or a pointer that no region can hold, which pmm_free refuses.           *)
(***************************************************************************)

Refusable(address) ==
    address % PAGE_SIZE # 0 \/ find_region_by_address(address) = 0

Free ==
    \/ \E b \in live : pmm_free(AddressOf(b.region, b.block))
    \/ pmm_free(0)
    \/ \E a \in StrayAddresses : Refusable(a) /\ pmm_free(a)

(* kpanic's hlt loop.                                                      *)
Halted == pc = "panic" /\ UNCHANGED vars

Next ==
    \/ pmm_init
    \/ carve
    \/ link_region
    \/ pmm_init_return
    \/ Allocate
    \/ split
    \/ alloc_return
    \/ Free
    \/ coalesce
    \/ free_return
    \/ Halted

Spec == Init /\ [][Next]_vars

(* The one CPU keeps executing the function it is in: every operation is a *)
(* loop of ordinary instructions, and no interrupt handler suspends it.    *)
Running ==
    \/ pmm_init \/ carve \/ link_region \/ pmm_init_return
    \/ split \/ alloc_return \/ coalesce \/ free_return

FairSpec == Spec /\ WF_vars(Running)

(***************************************************************************)
(* What the allocator promises.                                            *)
(***************************************************************************)

FreeBlocksOf(r, reg) ==
    UNION { { [region |-> r, block |-> i, order |-> o] :
                i \in ToSet(reg.free_lists[o]) } : o \in Orders }

FreeBlocks == UNION { FreeBlocksOf(r, g_regions[r]) : r \in DOMAIN g_regions }

InHand == IF pc \in {"split", "coalesce"} THEN {hand} ELSE {}

(* A block's pages, as indexes into its region's pool.                     *)
Extent(b) == b.block .. (b.block + BLOCK_COUNT(b.order) - 1)

(* and as physical addresses                                               *)
Frames(b) == { AddressOf(b.region, i) : i \in Extent(b) }

IsRegion(reg) ==
    /\ reg = [start |-> reg.start, end |-> reg.end,
              block_pool_size |-> reg.block_pool_size,
              block_pool |-> reg.block_pool, free_lists |-> reg.free_lists]
    /\ reg.start \in Nat
    /\ reg.start % PAGE_SIZE = 0
    /\ reg.block_pool_size \in Nat
    /\ reg.end = reg.start + reg.block_pool_size * PAGE_SIZE
    /\ reg.block_pool \in [0..(reg.block_pool_size - 1) -> PageEntry]
    /\ reg.free_lists \in [Orders -> Seq(0..(reg.block_pool_size - 1))]

TypeOK ==
    /\ g_cursor \in EARLY_HEAP_START..EARLY_HEAP_END
    /\ ram_regions \in BootMaps
    /\ current_ram \in 1..(Len(ram_regions) + 1)
    /\ g_regions \in Seq(ToSet(g_regions))
    /\ \A r \in DOMAIN g_regions : IsRegion(g_regions[r])
    /\ IsRegion(region)
    /\ offset \in Nat
    /\ pc \in {"pmm_init", "carve", "idle", "split", "coalesce", "panic",
               "null dereference"}
    /\ hand \in Blocks
    /\ target_order \in Orders
    /\ panic \in PanicReasons
    /\ live \subseteq Blocks

(* What a boot loader reports on a machine whose RAM lies below the end of *)
(* the address space: disjoint regions, none touching the last page.       *)
SaneBootMap(ram) ==
    /\ \A i \in DOMAIN ram :
        ram[i].base_address + ram[i].length <= ADDRESS_SPACE - PAGE_SIZE
    /\ \A i, j \in DOMAIN ram :
        i # j => \/ ram[i].base_address + ram[i].length <= ram[j].base_address
                 \/ ram[j].base_address + ram[j].length <= ram[i].base_address

(* Two blocks that are both in use never share a physical page.            *)
LiveBlocksDisjoint ==
    SaneBootMap(ram_regions) =>
        \A a, b \in live : a # b => Frames(a) \cap Frames(b) = {}

(* Every page of every region belongs to exactly one block that is in use, *)
(* on a free list or held by the running operation: none is lost by the    *)
(* carve, a split or a merge, and none is offered twice.                   *)
PagesConserved ==
    SaneBootMap(ram_regions) =>
        LET blocks == FreeBlocks \cup live \cup InHand
            Holds(b, r, i) == b.region = r /\ i \in Extent(b)
        IN  \A r \in DOMAIN g_regions :
                \A i \in 0..(g_regions[r].block_pool_size - 1) :
                    /\ \E b \in blocks : Holds(b, r, i)
                    /\ \A b, c \in blocks : Holds(b, r, i) /\ Holds(c, r, i) => b = c

(* Whatever the kernel allocates and frees, the checks the allocator makes *)
(* of its own bookkeeping do not fire: a block it handed out is never      *)
(* taken for a double free or a bad pointer, a buddy that looks free is on *)
(* its free list, and a split always finds the pool entry of its buddy.    *)
BookkeepingSound ==
    SaneBootMap(ram_regions) =>
        /\ pc # "null dereference"
        /\ panic \notin {"double free", "not block aligned",
                         "buddy not on free list"}

(* Between operations no two buddies are both free: pmm_free merged them.  *)
FullyCoalesced ==
    pc = "idle" =>
        \A a, b \in FreeBlocks :
            ~ /\ a.region = b.region
              /\ a.order = b.order
              /\ a.order < MAX_ORDER
              /\ a.block % (2 * BLOCK_COUNT(a.order)) = 0
              /\ b.block = a.block + BLOCK_COUNT(a.order)

(* When everything has been freed, each region is back in as few blocks as *)
(* it can be cut into: a free block below MAX_ORDER is one whose parent    *)
(* would stick out of the region.                                          *)
AllFreedRestores ==
    pc = "idle" /\ live = {} =>
        \A b \in FreeBlocks :
            \/ b.order = MAX_ORDER
            \/ LET pair == 2 * BLOCK_COUNT(b.order)
               IN  b.block - (b.block % pair) + pair > g_regions[b.region].block_pool_size

(* The pages that RAM fills, and those it has a part in.                   *)
AllPages == { n * PAGE_SIZE : n \in 0..((ADDRESS_SPACE \div PAGE_SIZE) - 1) }

WholePagesOf(ram) ==
    { p \in AllPages : \E i \in DOMAIN ram :
        /\ ram[i].base_address <= p
        /\ p + PAGE_SIZE <= ram[i].base_address + ram[i].length }

PagesOf(ram) ==
    { p \in AllPages : \E i \in DOMAIN ram :
        /\ ram[i].base_address < p + PAGE_SIZE
        /\ p < ram[i].base_address + ram[i].length }

ManagedPages ==
    UNION { { AddressOf(r, i) : i \in 0..(g_regions[r].block_pool_size - 1) } :
            r \in DOMAIN g_regions }

(* After pmm_init no page that the boot loader reported as RAM is lost,    *)
(* and no other is managed, whatever the order of the regions and those    *)
(* that pmm_add_region skips.  A page that RAM fills in part is left open: *)
(* pmm_add_region leaves it out, pmm.h would have it rounded in.           *)
ManagedIsRam ==
    SaneBootMap(ram_regions) /\ pc = "idle" =>
        /\ WholePagesOf(ram_regions) \subseteq ManagedPages
        /\ ManagedPages \subseteq PagesOf(ram_regions)

(* Every call ends: initialisation, allocation and release return or panic.*)
CallsEnd == (pc # "idle") ~> (pc \in {"idle", "panic"})

(* pmm.c implements the allocator of PageAllocator: a block counts as used *)
(* from the return of the allocation to the call of pmm_free, a block that *)
(* is returned was unused, and "no free blocks" is reported only when no   *)
(* region has an aligned run of unused pages of the requested order.  An   *)
(* internal inconsistency maps to a status the abstraction does not have.  *)
Abstract == INSTANCE PageAllocator WITH
    MaxOrder <- MAX_ORDER,
    sizes <- [r \in DOMAIN g_regions |-> g_regions[r].block_pool_size],
    used <- live,
    status <- IF pc \in {"pmm_init", "carve"} THEN "booting"
              ELSE IF pc \in {"idle", "split", "coalesce"} THEN "running"
              ELSE IF ~BookkeepingSound THEN "corrupt"
              ELSE IF panic = "no free blocks" THEN "out of memory"
              ELSE "refused",
    failed <- IF panic = "no free blocks" THEN target_order ELSE -1

ImplementsPageAllocator == Abstract!Spec
=============================================================================
