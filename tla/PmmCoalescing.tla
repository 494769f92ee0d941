--------------------------- MODULE PmmCoalescing ---------------------------
(***************************************************************************)
(* Free memory is never more fragmented than the blocks in use force it to *)
(* be: no two halves of a block are free side by side, and a run of unused *)
(* pages that could be a block is part of a free block.                    *)
(***************************************************************************)
EXTENDS PmmProofs, WellFoundedInduction, NaturalsInduction

(* a and b are the two halves of a block of the next order.                *)
Halves(a, b) ==
    /\ a.order = b.order
    /\ a.order < MAX_ORDER
    /\ a.block % (2 * BLOCK_COUNT(a.order)) = 0
    /\ b.block = a.block + BLOCK_COUNT(a.order)

NoFreeHalves(r, reg) == \A a, b \in FreeBlocksOf(r, reg) : ~Halves(a, b)

(* The carve loop makes every block as large as it can be.                 *)
Largest(b, pool_size) ==
    b.order < MAX_ORDER => ~CanGrow(b.block, pool_size, b.order + 1)

(* Inductive together with CoreInv.                                        *)
HalvesInv ==
    /\ pc = "carve" =>
        \A b \in FreeBlocksOf(Len(g_regions) + 1, region) :
            Largest(b, region.block_pool_size)
    /\ \A r \in DOMAIN g_regions : NoFreeHalves(r, g_regions[r])

(***************************************************************************)
(* What each step does to the free blocks.                                 *)
(***************************************************************************)

(* What CoreInv says of one region.                                        *)
LEMMA RegionFacts ==
    ASSUME CoreInv, NEW r \in DOMAIN g_regions
    PROVE  /\ GoodRegion(r, g_regions[r], Within(Out, r), Within(Merging, r),
                         g_regions[r].block_pool_size)
           /\ IsRegion(g_regions[r]) /\ r \in Nat
           /\ ListsInjective(g_regions[r])
           /\ \A b \in FreeBlocksOf(r, g_regions[r]) :
                g_regions[r].block_pool[b.block] = FreeEntry(b.order)
<1>1. GoodRegion(r, g_regions[r], Within(Out, r), Within(Merging, r),
                 g_regions[r].block_pool_size)
  BY DEF CoreInv, LinkedRegions
<1>. QED BY <1>1 DEF GoodRegion, RegionInv

(* A step that changes the free blocks of one region.                      *)
LEMMA OneRegion ==
    ASSUME CoreInv, HalvesInv, NEW r \in DOMAIN g_regions, NEW s, NoFreeHalves(r, s),
           g_regions' = [g_regions EXCEPT ![r] = s], pc' # "carve"
    PROVE  HalvesInv'
<1>1. g_regions \in Seq(ToSet(g_regions)) BY DEF CoreInv, TypeOK
<1>2. /\ DOMAIN g_regions' = DOMAIN g_regions /\ g_regions'[r] = s
      /\ \A q \in DOMAIN g_regions : q # r => g_regions'[q] = g_regions[q]
  BY <1>1, SeqUpdate
<1>3. ASSUME NEW q \in DOMAIN g_regions PROVE NoFreeHalves(q, g_regions'[q])
  BY <1>2 DEF HalvesInv
<1>. QED BY <1>2, <1>3 DEF HalvesInv

(* The carve loop takes the largest block, never its second half alone.    *)
LEMMA CarveHalves ==
    ASSUME CoreInv, HalvesInv, carve
    PROVE  HalvesInv'
<1> DEFINE r == Len(g_regions) + 1
<1>1. /\ pc = "carve" /\ offset < region.block_pool_size
      /\ GoodRegion(r, region, {}, {}, offset)
      /\ UNCHANGED <<pc, g_regions>>
  BY DEF carve, CoreInv, CarvedRegion
<1>2. PICK order \in Orders :
        /\ biggest_order(offset, region.block_pool_size, order)
        /\ region' = add_to_region_freelist(
                        set_block(region, offset, FreeEntry(order)), offset, order)
  BY DEF carve
<1> DEFINE t == set_block(region, offset, FreeEntry(order))
           b == [region |-> r, block |-> offset, order |-> order]
<1> HIDE DEF r
<1>3. r \in Nat /\ IsRegion(region) /\ offset \in 0..(region.block_pool_size - 1)
  BY <1>1 DEF GoodRegion, IsRegion
<1>4. /\ IsRegion(t) /\ SameShape(t, region)
      /\ FreeBlocksOf(r, t) = FreeBlocksOf(r, region)
  <2>1. FreeEntry(order) \in PageEntry BY Entries
  <2>. QED BY <1>3, <2>1, SetBlock
<1>5. offset \in 0..(t.block_pool_size - 1) /\ t.block_pool_size = region.block_pool_size
  BY <1>3, <1>4 DEF SameShape
<1>6. region' = add_to_region_freelist(t, offset, order) BY <1>2
<1> HIDE DEF t
<1>7. FreeBlocksOf(r, region') = FreeBlocksOf(r, t) \cup {b} /\ SameShape(region', t)
  <2>1. b = [region |-> r, block |-> offset, order |-> order] OBVIOUS
  <2> HIDE DEF b
  <2>. QED BY <1>3, <1>4, <1>5, <1>6, <2>1, AddToFreelist
<1>8. Largest(b, region.block_pool_size)
  BY <1>2 DEF Largest, biggest_order
<1>9. region'.block_pool_size = region.block_pool_size
  BY <1>5, <1>7 DEF SameShape
<1> HIDE DEF b
<1>10. \A c \in FreeBlocksOf(r, region') : Largest(c, region'.block_pool_size)
  BY <1>1, <1>4, <1>7, <1>8, <1>9 DEF HalvesInv, r
<1>. QED BY <1>1, <1>10 DEF HalvesInv, r

(* Two halves that are both on the lists of a finished region would have   *)
(* been carved as one block.                                               *)
LEMMA CarvedHasNoHalves ==
    ASSUME NEW r, NEW reg, GoodRegion(r, reg, {}, {}, reg.block_pool_size),
           \A b \in FreeBlocksOf(r, reg) : Largest(b, reg.block_pool_size)
    PROVE  NoFreeHalves(r, reg)
<1> SUFFICES ASSUME NEW a \in FreeBlocksOf(r, reg), NEW b \in FreeBlocksOf(r, reg), Halves(a, b)
             PROVE  FALSE
  BY DEF NoFreeHalves
<1>1. /\ AllBlocks(r, reg, {}, {}) \in SUBSET Blocks
      /\ Tiling(AllBlocks(r, reg, {}, {}), reg.block_pool_size)
  BY GoodFacts
<1>2. a \in AllBlocks(r, reg, {}, {}) /\ b \in AllBlocks(r, reg, {}, {}) BY DEF AllBlocks
<1>3. EndOf(b) <= reg.block_pool_size BY <1>1, <1>2 DEF Tiling
<1>4. a \in Blocks /\ b \in Blocks BY <1>1, <1>2
<1>5. /\ a.block \in Nat /\ a.order \in 0..10 /\ BLOCK_COUNT(a.order) \in Nat
      /\ MAX_ORDER \in 0..10 /\ a.order < MAX_ORDER /\ b.order = a.order
      /\ b.block = a.block + BLOCK_COUNT(a.order)
      /\ a.block % (2 * BLOCK_COUNT(a.order)) = 0
  BY <1>4, BlockFacts, PmmAssumption DEF Halves
<1>6. BLOCK_COUNT(a.order + 1) = 2 * BLOCK_COUNT(a.order)
  BY <1>5, BlockCount
<1>7. a.block + BLOCK_COUNT(a.order + 1) <= reg.block_pool_size
  BY <1>3, <1>5, <1>6 DEF EndOf
<1>. QED BY <1>5, <1>6, <1>7 DEF Largest, CanGrow

(* A region that is linked brings its lists, without free pairs.           *)
LEMMA LinkHalves ==
    ASSUME CoreInv, HalvesInv, link_region
    PROVE  HalvesInv'
<1> DEFINE k == Len(g_regions) + 1
<1>1. /\ pc = "carve" /\ offset >= region.block_pool_size /\ pc' = "pmm_init"
      /\ GoodRegion(k, region, {}, {}, offset)
      /\ g_regions' = Append(g_regions, region)
  BY DEF link_region, CoreInv, CarvedRegion
<1>2. g_regions \in Seq(ToSet(g_regions)) BY DEF CoreInv, TypeOK
<1>3. /\ DOMAIN g_regions' = 1..k
      /\ DOMAIN g_regions = 1..Len(g_regions) /\ Len(g_regions) \in Nat
      /\ g_regions'[k] = region
      /\ \A q \in DOMAIN g_regions : g_regions'[q] = g_regions[q]
  BY <1>1, <1>2, SeqAppend
<1>4. \A q \in DOMAIN g_regions' : q = k \/ q \in DOMAIN g_regions BY <1>3
<1>5. \A b \in FreeBlocksOf(k, region) : Largest(b, region.block_pool_size)
  BY <1>1 DEF HalvesInv
<1> HIDE DEF k
<1>6. offset = region.block_pool_size BY <1>1 DEF GoodRegion, IsRegion
<1>7. NoFreeHalves(k, region) BY <1>1, <1>5, <1>6, CarvedHasNoHalves
<1>. QED BY <1>1, <1>3, <1>4, <1>7 DEF HalvesInv

(* pmm_init has put nothing on the lists of the region it starts.          *)
LEMMA InitHalves ==
    ASSUME HalvesInv, pmm_init
    PROVE  HalvesInv'
<1>1. ASSUME NEW r, NEW start, NEW end, NEW size
      PROVE  FreeBlocksOf(r, new_region(start, end, size)) = {}
  BY DEF FreeBlocksOf, new_region, ToSet
<1>2. pc = "pmm_init" /\ g_regions' = g_regions
      /\ (pc' = "carve" => \E start, end, size : region' = new_region(start, end, size))
  BY DEF pmm_init, pmm_add_region, skip_region, KPANIC
<1>3. pc' = "carve" => FreeBlocksOf(Len(g_regions) + 1, region') = {}
  BY <1>1, <1>2
<1>. QED BY <1>2, <1>3 DEF HalvesInv

(* What comes off a list, or is only marked, leaves no new halves.         *)
LEMMA Fewer ==
    ASSUME NEW r, NEW reg, NEW s, NoFreeHalves(r, reg),
           FreeBlocksOf(r, s) \subseteq FreeBlocksOf(r, reg)
    PROVE  NoFreeHalves(r, s)
BY DEF NoFreeHalves

(* Taking a block off a list leaves no pair that was not there.            *)
LEMMA AllocOrderHalves ==
    ASSUME CoreInv, HalvesInv, pc = "idle", NEW order, pmm_alloc_order(order)
    PROVE  HalvesInv'
<1>1. CASE g_regions' = g_regions /\ pc' = "panic" BY <1>1 DEF HalvesInv
<1>2. CASE \E r \in DOMAIN g_regions, o \in Orders :
             /\ LowestOrder(r, order, o)
             /\ LET target == Head(g_regions[r].free_lists[o])
                    reg == remove_from_region_freelist(g_regions[r], target, o)
                IN  g_regions' = [g_regions EXCEPT ![r] =
                         set_block(reg, target, UsedEntry(reg.block_pool[target].order))]
             /\ pc' = "split"
  <2>1. PICK r \in DOMAIN g_regions, o \in Orders :
             /\ LowestOrder(r, order, o)
             /\ LET target == Head(g_regions[r].free_lists[o])
                    reg == remove_from_region_freelist(g_regions[r], target, o)
                IN  g_regions' = [g_regions EXCEPT ![r] =
                         set_block(reg, target, UsedEntry(reg.block_pool[target].order))]
             /\ pc' = "split"
    BY <1>2
  <2> DEFINE reg == g_regions[r]
             i == Head(reg.free_lists[o])
             t == remove_from_region_freelist(reg, i, o)
             s == set_block(t, i, UsedEntry(t.block_pool[i].order))
             b == [region |-> r, block |-> i, order |-> o]
  <2>2. reg.free_lists[o] # <<>> /\ g_regions' = [g_regions EXCEPT ![r] = s]
    BY <2>1 DEF LowestOrder
  <2>3. IsRegion(reg) /\ r \in Nat /\ ListsInjective(reg) BY RegionFacts
  <2>4. i \in ToSet(reg.free_lists[o]) /\ i \in 0..(reg.block_pool_size - 1)
    <3>1. reg.free_lists[o] \in Seq(0..(reg.block_pool_size - 1)) BY <2>3 DEF IsRegion
    <3>2. i \in ToSet(reg.free_lists[o]) BY <3>1, <2>2 DEF ToSet
    <3>3. i \in 0..(reg.block_pool_size - 1)
      <4> DEFINE list == reg.free_lists[o]
                 P == 0..(reg.block_pool_size - 1)
      <4>1. list \in Seq(P) /\ list # <<>> BY <3>1, <2>2
      <4> HIDE DEF list, P
      <4>2. Head(list) \in P BY <4>1
      <4>. QED BY <4>2 DEF list, P
    <3>. QED BY <3>2, <3>3
  <2>5. NoFreeHalves(r, reg) BY DEF HalvesInv
  <2>6. b = [region |-> r, block |-> i, order |-> o] OBVIOUS
  <2> HIDE DEF reg, i, b
  <2>7. /\ IsRegion(t) /\ SameShape(t, reg) /\ t.block_pool = reg.block_pool
        /\ FreeBlocksOf(r, t) = FreeBlocksOf(r, reg) \ {b}
    BY <2>3, <2>4, <2>6, RemoveFromFreelist
  <2> HIDE DEF t
  <2>8. i \in 0..(t.block_pool_size - 1) BY <2>4, <2>7 DEF SameShape
  <2>9. UsedEntry(t.block_pool[i].order) \in PageEntry
    <3>1. t.block_pool[i].order \in Orders BY <2>7, <2>8 DEF IsRegion, PageEntry
    <3>. QED BY <3>1, Entries
  <2>10. FreeBlocksOf(r, s) = FreeBlocksOf(r, t) BY <2>7, <2>8, <2>9, SetBlock
  <2> HIDE DEF s
  <2>11. NoFreeHalves(r, s) BY <2>5, <2>7, <2>10, Fewer
  <2>. QED BY <2>1, <2>2, <2>11, OneRegion
<1>. QED BY <1>1, <1>2 DEF pmm_alloc_order, KPANIC

(* The same for the requests by size and by order.                         *)
LEMMA AllocateHalves ==
    ASSUME CoreInv, HalvesInv, Allocate
    PROVE  HalvesInv'
<1>1. pc = "idle" BY DEF Allocate
<1>2. CASE \E order : pmm_alloc_order(order) BY <1>1, <1>2, AllocOrderHalves
<1>3. CASE g_regions' = g_regions /\ pc' # "carve" BY <1>3 DEF HalvesInv
<1>. QED
  BY <1>1, <1>2, <1>3 DEF Allocate, pmm_alloc_pages, pmm_alloc_size, KPANIC

(* The half that is given back is an upper one, and the lower one is held. *)
LEMMA SplitHalves ==
    ASSUME CoreInv, HalvesInv, split
    PROVE  HalvesInv'
<1> DEFINE r == hand.region
           reg == g_regions[r]
           o == hand.order - 1
           i == split_buddy(hand.block, o)
           t == set_block(reg, hand.block,
                  [order |-> o, is_free |-> reg.block_pool[hand.block].is_free])
           u == set_block(t, i, FreeEntry(o))
           s == add_to_region_freelist(u, i, o)
           b == [region |-> r, block |-> i, order |-> o]
           out == Within(Out, r)
<1>0. CASE g_regions' = g_regions /\ pc' # "carve" BY <1>0 DEF HalvesInv
<1>a. CASE HasBlock(reg, i)
  <2>1. /\ pc = "split" /\ r \in DOMAIN g_regions /\ hand \in Blocks
        /\ hand.order > target_order /\ target_order \in Nat
    <3>1. target_order \in Orders /\ hand \in Blocks BY DEF CoreInv, TypeOK
    <3>2. target_order \in Nat BY <3>1, PmmAssumption DEF Orders
    <3>. QED BY <3>1, <3>2 DEF split, CoreInv, ControlInv
  <2>2. pc' = pc /\ g_regions' = [g_regions EXCEPT ![r] = s]
    BY <1>a DEF split
  <2>3. /\ hand.block \in Nat /\ hand.order \in 0..10 /\ hand.order \in Orders
        /\ hand.order > 0 /\ o \in 0..9 /\ o \in Orders /\ o + 1 = hand.order
    BY <2>1, BlockFacts, PmmAssumption DEF Orders
  <2>4. hand \in out /\ Within(Merging, r) = {}
    BY <2>1 DEF Out, Within, Merging
  <2>5. GoodRegion(r, reg, out, {}, reg.block_pool_size) /\ IsRegion(reg) /\ r \in Nat
    BY <2>1, <2>4, RegionFacts
  <2>6. NoFreeHalves(r, reg) BY <2>1 DEF HalvesInv
  <2>7. i = hand.block + BLOCK_COUNT(o) BY DEF split_buddy
  <2>8. b = [region |-> r, block |-> i, order |-> o] OBVIOUS
  <2> HIDE DEF r, reg, o, i, b, out
  <2>9. /\ hand.block \in 0..(reg.block_pool_size - 1)
        /\ hand.block % BLOCK_COUNT(o + 1) = 0
        /\ \A c \in FreeBlocksOf(r, reg) :
             c \in Blocks /\ c.block # hand.block
        /\ reg.block_pool_size \in Nat
    <3> DEFINE all == AllBlocks(r, reg, out, {})
    <3>1. /\ all \in SUBSET Blocks /\ Tiling(all, reg.block_pool_size)
          /\ \A c \in all : c.block \in 0..(reg.block_pool_size - 1)
          /\ \A c, d \in all : c.block = d.block => c = d
          /\ reg.block_pool_size \in Nat
          /\ FreeBlocksOf(r, reg) \cap out = {}
      BY <2>5, GoodFacts
    <3>2. hand \in all /\ FreeBlocksOf(r, reg) \subseteq all BY <2>4 DEF AllBlocks
    <3> HIDE DEF all
    <3>3. hand.block % BLOCK_COUNT(hand.order) = 0 BY <3>1, <3>2 DEF Tiling
    <3>. QED BY <3>1, <3>2, <3>3, <2>3, <2>4
  <2>10. BLOCK_COUNT(o) \in Nat \ {0} /\ BLOCK_COUNT(o + 1) = 2 * BLOCK_COUNT(o)
    BY <2>3, BlockCount
  <2>11. i \in 0..(reg.block_pool_size - 1)
    BY <1>a, <2>7, <2>9, <2>10, <2>3 DEF HasBlock
  <2>12. /\ IsRegion(t) /\ SameShape(t, reg) /\ FreeBlocksOf(r, t) = FreeBlocksOf(r, reg)
    <3>1. reg.block_pool[hand.block] \in PageEntry BY <2>5, <2>9 DEF IsRegion
    <3>2. [order |-> o, is_free |-> reg.block_pool[hand.block].is_free] \in PageEntry
      BY <2>3, <3>1 DEF PageEntry
    <3>. QED BY <2>5, <2>9, <3>2, SetBlock
  <2> HIDE DEF t
  <2>13. IsRegion(u) /\ SameShape(u, reg) /\ FreeBlocksOf(r, u) = FreeBlocksOf(r, reg)
    <3>1. FreeEntry(o) \in PageEntry BY <2>3, Entries
    <3>2. i \in 0..(t.block_pool_size - 1) BY <2>11, <2>12 DEF SameShape
    <3>3. /\ IsRegion(u) /\ SameShape(u, t) /\ FreeBlocksOf(r, u) = FreeBlocksOf(r, t)
      BY <2>12, <3>1, <3>2, SetBlock
    <3>. QED BY <3>3, <2>12 DEF SameShape
  <2> HIDE DEF u
  <2>14. FreeBlocksOf(r, s) = FreeBlocksOf(r, reg) \cup {b}
    <3>1. i \in 0..(u.block_pool_size - 1) BY <2>11, <2>13 DEF SameShape
    <3>2. FreeBlocksOf(r, s) = FreeBlocksOf(r, u) \cup {b}
      BY <2>3, <2>5, <2>8, <2>13, <3>1, AddToFreelist
    <3>. QED BY <3>2, <2>13
  <2> HIDE DEF s
  <2>15. b.block = i /\ b.order = o BY <2>8
  <2>16. ASSUME NEW c \in FreeBlocksOf(r, reg), Halves(c, b) PROVE FALSE
    <3>1. c \in Blocks /\ c.block # hand.block BY <2>9
    <3>2. c.block \in Nat BY <3>1, BlockFacts
    <3>3. i = c.block + BLOCK_COUNT(o) BY <2>15, <2>16 DEF Halves
    <3>. QED BY <2>3, <2>7, <2>10, <3>1, <3>2, <3>3
  <2>17. (hand.block + BLOCK_COUNT(o)) % (2 * BLOCK_COUNT(o)) # 0
    BY <2>3, <2>9 DEF BLOCK_COUNT
  <2>18. ASSUME NEW c \in FreeBlocksOf(r, reg), Halves(b, c) PROVE FALSE
    BY <2>7, <2>15, <2>17, <2>18 DEF Halves
  <2>19. ~Halves(b, b) BY <2>7, <2>15, <2>17 DEF Halves
  <2>20. NoFreeHalves(r, s)
    BY <2>6, <2>14, <2>16, <2>18, <2>19 DEF NoFreeHalves
  <2>. QED BY <2>1, <2>2, <2>20, OneRegion DEF r
<1>. QED BY <1>0, <1>a DEF split

(* pmm_free marks a block that is on no list.                              *)
LEMMA FreeHalves ==
    ASSUME CoreInv, HalvesInv, Free
    PROVE  HalvesInv'
<1>1. CASE g_regions' = g_regions /\ pc' # "carve" BY <1>1 DEF HalvesInv
<1>2. CASE \E b \in live : pmm_free(AddressOf(b.region, b.block))
  <2>1. PICK b \in live : pmm_free(AddressOf(b.region, b.block)) BY <1>2
  <2> DEFINE address == AddressOf(b.region, b.block)
             r == b.region
             reg == g_regions[r]
             s == set_block(reg, b.block, FreeEntry(b.order))
  <2>2. pc = "idle" BY <2>1 DEF pmm_free
  <2>3. CASE address = 0
    <3>1. g_regions' = g_regions /\ pc' = "idle" BY <2>1, <2>2, <2>3 DEF pmm_free
    <3>. QED BY <1>1, <3>1
  <2>4. CASE address # 0
    <3>1. /\ r \in DOMAIN g_regions
          /\ find_region_by_address(address) = r
          /\ (address - reg.start) \div PAGE_SIZE = b.block
          /\ reg.block_pool[b.block] = UsedEntry(b.order)
          /\ free_fault(address) = "none"
      BY <2>2, LiveAddress
    <3>2. b \in Blocks BY DEF CoreInv, TypeOK
    <3>3. reg.block_pool[b.block].order = b.order BY <3>1, <3>2, BlockFacts, Entries
    <3>4. g_regions' = [g_regions EXCEPT ![r] = s] /\ pc' = "coalesce"
      BY <2>1, <2>4, <3>1, <3>3 DEF pmm_free
    <3>5. IsRegion(reg) /\ r \in Nat /\ NoFreeHalves(r, reg)
      BY <3>1, RegionFacts DEF HalvesInv
    <3>6. b.block \in 0..(reg.block_pool_size - 1)
      <4>1. GoodRegion(r, reg, Within(Out, r), Within(Merging, r), reg.block_pool_size)
        BY <3>1, RegionFacts
      <4>2. b \in AllBlocks(r, reg, Within(Out, r), Within(Merging, r))
        BY DEF AllBlocks, Within, Out
      <4> HIDE DEF reg, r
      <4>. QED BY <4>1, <4>2, GoodFacts
    <3>7. FreeEntry(b.order) \in PageEntry BY <3>2, BlockFacts, Entries
    <3> HIDE DEF reg, r
    <3>8. FreeBlocksOf(r, s) = FreeBlocksOf(r, reg) BY <3>5, <3>6, <3>7, SetBlock
    <3> HIDE DEF s
    <3>9. NoFreeHalves(r, s) BY <3>5, <3>8, Fewer
    <3>. QED BY <3>1, <3>4, <3>9, OneRegion
  <2>. QED BY <2>3, <2>4
<1>3. CASE \E a \in StrayAddresses : Refusable(a) /\ pmm_free(a)
  <2>1. PICK a \in StrayAddresses : Refusable(a) /\ pmm_free(a) BY <1>3
  <2>2. a = 0 \/ free_fault(a) \in {"unaligned pointer", "no region"}
    BY <2>1 DEF Refusable, free_fault
  <2>3. g_regions' = g_regions /\ pc' # "carve" BY <2>1, <2>2 DEF pmm_free, KPANIC
  <2>. QED BY <1>1, <2>3
<1>4. CASE pmm_free(0)
  <2>1. g_regions' = g_regions /\ pc' # "carve" BY <1>4 DEF pmm_free
  <2>. QED BY <1>1, <2>1
<1>. QED BY <1>2, <1>3, <1>4 DEF Free

(* The coalescing loop takes buddies off the lists.                        *)
LEMMA CoalesceHalves ==
    ASSUME CoreInv, HalvesInv, coalesce
    PROVE  HalvesInv'
<1> DEFINE r == hand.region
           reg == g_regions[r]
           i == get_buddy_block(hand.block, hand.order)
           low == merged_block(hand.block, i)
           t == remove_from_region_freelist(reg, i, hand.order)
           u == set_block(t, i, UsedEntry(hand.order))
           s == set_block(u, low, FreeEntry(hand.order + 1))
           b == [region |-> r, block |-> i, order |-> hand.order]
<1>0. CASE g_regions' = g_regions /\ pc' # "carve" BY <1>0 DEF HalvesInv
<1>1. CASE Contains(reg.free_lists[hand.order], i)
  <2>1. /\ pc = "coalesce" /\ pc' = pc /\ r \in DOMAIN g_regions /\ hand \in Blocks
        /\ CanMerge(reg, hand.block, hand.order)
        /\ g_regions' = [g_regions EXCEPT ![r] = s]
    BY <1>1 DEF coalesce, CoreInv, ControlInv, TypeOK
  <2>2. /\ IsRegion(reg) /\ r \in Nat /\ ListsInjective(reg) /\ NoFreeHalves(r, reg)
        /\ \A c \in FreeBlocksOf(r, reg) : c.block \in 0..(reg.block_pool_size - 1)
    BY <2>1, RegionFacts, FreeBlocksTyped DEF HalvesInv
  <2>3. /\ hand.block \in Nat /\ hand.order \in Orders /\ hand.order \in 0..9
        /\ hand.order + 1 \in Orders
    BY <2>1, BlockFacts, PmmAssumption, SMTT(20) DEF CanMerge, Orders
  <2>4. hand.block \in 0..(reg.block_pool_size - 1)
    <3>1. GoodRegion(r, reg, Within(Out, r), Within(Merging, r), reg.block_pool_size)
      BY <2>1, RegionFacts
    <3>2. hand \in AllBlocks(r, reg, Within(Out, r), Within(Merging, r))
      BY <2>1 DEF AllBlocks, Within, Merging
    <3> HIDE DEF reg, r
    <3>. QED BY <3>1, <3>2, GoodFacts
  <2>5. i \in ToSet(reg.free_lists[hand.order]) BY <1>1 DEF Contains, ToSet
  <2>6. low \in {hand.block, i} BY DEF merged_block
  <2>7. b = [region |-> r, block |-> i, order |-> hand.order] OBVIOUS
  <2> HIDE DEF i, low, r, reg, b
  <2>8. /\ IsRegion(t) /\ SameShape(t, reg) /\ b \in FreeBlocksOf(r, reg)
        /\ FreeBlocksOf(r, t) = FreeBlocksOf(r, reg) \ {b}
    BY <2>2, <2>3, <2>5, <2>7, RemoveFromFreelist
  <2>9. i \in 0..(reg.block_pool_size - 1) BY <2>2, <2>7, <2>8
  <2>10. /\ UsedEntry(hand.order) \in PageEntry /\ FreeEntry(hand.order + 1) \in PageEntry
    BY <2>3, Entries
  <2> HIDE DEF t
  <2>11. IsRegion(u) /\ SameShape(u, reg) /\ FreeBlocksOf(r, u) = FreeBlocksOf(r, t)
    <3>1. i \in 0..(t.block_pool_size - 1) BY <2>8, <2>9 DEF SameShape
    <3>2. IsRegion(u) /\ SameShape(u, t) /\ FreeBlocksOf(r, u) = FreeBlocksOf(r, t)
      BY <2>8, <2>10, <3>1, SetBlock
    <3>. QED BY <3>2, <2>8 DEF SameShape
  <2> HIDE DEF u
  <2>12. FreeBlocksOf(r, s) = FreeBlocksOf(r, u)
    <3>1. low \in 0..(u.block_pool_size - 1) BY <2>4, <2>6, <2>9, <2>11 DEF SameShape
    <3>. QED BY <2>10, <2>11, <3>1, SetBlock
  <2> HIDE DEF s
  <2>13. NoFreeHalves(r, s) BY <2>2, <2>8, <2>11, <2>12, Fewer
  <2>. QED BY <2>1, <2>13, OneRegion
<1>. QED BY <1>0, <1>1 DEF coalesce, KPANIC

(* The buddy of a block, from the two sides.                               *)
LEMMA HalvesAreBuddies ==
    ASSUME NEW o \in 0..9, NEW i \in Nat, i % (2 * BLOCK_COUNT(o)) = 0
    PROVE  /\ get_buddy_block(i, o) = i + BLOCK_COUNT(o)
           /\ get_buddy_block(i + BLOCK_COUNT(o), o) = i
<1>0. CASE o = 0 BY <1>0 DEF BLOCK_COUNT, get_buddy_block
<1>1. CASE o = 1 BY <1>1 DEF BLOCK_COUNT, get_buddy_block
<1>2. CASE o = 2 BY <1>2 DEF BLOCK_COUNT, get_buddy_block
<1>3. CASE o = 3 BY <1>3 DEF BLOCK_COUNT, get_buddy_block
<1>4. CASE o = 4 BY <1>4 DEF BLOCK_COUNT, get_buddy_block
<1>5. CASE o = 5 BY <1>5 DEF BLOCK_COUNT, get_buddy_block
<1>6. CASE o = 6 BY <1>6 DEF BLOCK_COUNT, get_buddy_block
<1>7. CASE o = 7 BY <1>7 DEF BLOCK_COUNT, get_buddy_block
<1>8. CASE o = 8 BY <1>8 DEF BLOCK_COUNT, get_buddy_block
<1>9. CASE o = 9 BY <1>9 DEF BLOCK_COUNT, get_buddy_block
<1>. QED BY <1>0, <1>1, <1>2, <1>3, <1>4, <1>5, <1>6, <1>7, <1>8, <1>9

(* The block that pmm_free puts back has no free buddy of its order: the   *)
(* coalescing loop would have gone on.                                     *)
LEMMA FreeReturnHalves ==
    ASSUME CoreInv, HalvesInv, free_return
    PROVE  HalvesInv'
<1> DEFINE r == hand.region
           reg == g_regions[r]
           s == add_to_region_freelist(reg, hand.block, hand.order)
           free == FreeBlocksOf(r, reg)
<1>1. /\ pc = "coalesce" /\ r \in DOMAIN g_regions /\ hand \in Blocks
      /\ ~CanMerge(reg, hand.block, hand.order)
      /\ g_regions' = [g_regions EXCEPT ![r] = s] /\ pc' = "idle"
  BY DEF CoreInv, TypeOK, ControlInv, free_return
<1>2. /\ IsRegion(reg) /\ r \in Nat /\ NoFreeHalves(r, reg)
      /\ \A c \in free : c \in Blocks /\ c.block \in 0..(reg.block_pool_size - 1)
      /\ \A c \in free : reg.block_pool[c.block] = FreeEntry(c.order)
      /\ reg.block_pool_size \in Nat
  BY <1>1, RegionFacts, FreeBlocksTyped DEF HalvesInv, IsRegion
<1>3. /\ hand.block \in Nat /\ hand.order \in Orders
      /\ hand = [region |-> r, block |-> hand.block, order |-> hand.order]
  BY <1>1, BlockFacts
<1>4. hand.block \in 0..(reg.block_pool_size - 1)
  <2>1. GoodRegion(r, reg, Within(Out, r), Within(Merging, r), reg.block_pool_size)
    BY <1>1, RegionFacts
  <2>2. hand \in AllBlocks(r, reg, Within(Out, r), Within(Merging, r))
    BY <1>1 DEF AllBlocks, Within, Merging
  <2> HIDE DEF reg, r
  <2>. QED BY <2>1, <2>2, GoodFacts
<1> HIDE DEF r, reg
<1>5. FreeBlocksOf(r, s) = free \cup {hand}
  BY <1>2, <1>3, <1>4, AddToFreelist
<1>6. ASSUME NEW c \in free, c.order = hand.order, hand.order < MAX_ORDER,
             c.block = get_buddy_block(hand.block, hand.order)
      PROVE  FALSE
  <2>1. reg.block_pool[c.block] = FreeEntry(hand.order) /\ c.block < reg.block_pool_size
    BY <1>2, <1>6
  <2>2. FreeEntry(hand.order).is_free /\ FreeEntry(hand.order).order = hand.order
    BY <1>3, Entries
  <2>. QED BY <1>1, <1>6, <2>1, <2>2 DEF CanMerge, HasBlock
<1>7. MAX_ORDER \in 0..10 /\ hand.order \in 0..10
  BY <1>1, BlockFacts, PmmAssumption
<1>8. ASSUME NEW c \in free, Halves(c, hand) PROVE FALSE
  <2>1. /\ hand.order \in 0..9 /\ c.block \in Nat /\ c.order = hand.order
        /\ c.block % (2 * BLOCK_COUNT(hand.order)) = 0
        /\ hand.block = c.block + BLOCK_COUNT(hand.order) /\ hand.order < MAX_ORDER
    BY <1>2, <1>7, <1>8, BlockFacts DEF Halves
  <2>2. c.block = get_buddy_block(hand.block, hand.order) BY <2>1, HalvesAreBuddies
  <2>. QED BY <2>1, <2>2, <1>6
<1>9. ASSUME NEW c \in free, Halves(hand, c) PROVE FALSE
  <2>1. /\ hand.order \in 0..9 /\ c.order = hand.order
        /\ hand.block % (2 * BLOCK_COUNT(hand.order)) = 0
        /\ c.block = hand.block + BLOCK_COUNT(hand.order) /\ hand.order < MAX_ORDER
    BY <1>7, <1>9 DEF Halves
  <2>2. c.block = get_buddy_block(hand.block, hand.order)
    BY <1>3, <2>1, HalvesAreBuddies
  <2>. QED BY <2>1, <2>2, <1>6
<1>10. ~Halves(hand, hand)
  <2>1. BLOCK_COUNT(hand.order) \in Nat \ {0} BY <1>7, BlockCount
  <2>. QED BY <1>3, <2>1 DEF Halves
<1> HIDE DEF s, free
<1>11. NoFreeHalves(r, s)
  BY <1>2, <1>5, <1>8, <1>9, <1>10 DEF NoFreeHalves, free
<1>. QED BY <1>1, <1>11, OneRegion DEF r

(***************************************************************************)
(* No two free halves, in every reachable state.                           *)
(***************************************************************************)

(* A step that leaves the regions alone.                                   *)
LEMMA UnchangedHalves ==
    ASSUME HalvesInv, g_regions' = g_regions,
           pc' = "carve" => pc = "carve" /\ region' = region
    PROVE  HalvesInv'
BY DEF HalvesInv

(* No step leaves both halves of a block free.                             *)
LEMMA HalvesStep ==
    ASSUME CoreInv, HalvesInv, [Next]_vars
    PROVE  HalvesInv'
<1>1. CASE pmm_init BY <1>1, InitHalves
<1>2. CASE carve BY <1>2, CarveHalves
<1>3. CASE link_region BY <1>3, LinkHalves
<1>4. CASE pmm_init_return BY <1>4, UnchangedHalves DEF pmm_init_return
<1>5. CASE Allocate BY <1>5, AllocateHalves
<1>6. CASE split BY <1>6, SplitHalves
<1>7. CASE alloc_return BY <1>7, UnchangedHalves DEF alloc_return
<1>8. CASE Free BY <1>8, FreeHalves
<1>9. CASE coalesce BY <1>9, CoalesceHalves
<1>10. CASE free_return BY <1>10, FreeReturnHalves
<1>11. CASE Halted \/ UNCHANGED vars BY <1>11, UnchangedHalves DEF Halted, vars
<1>. QED BY <1>1, <1>2, <1>3, <1>4, <1>5, <1>6, <1>7, <1>8, <1>9, <1>10, <1>11 DEF Next

(* The boot map is read, never written.                                    *)
LEMMA BootMapFixed ==
    ASSUME [Next]_vars
    PROVE  ram_regions' = ram_regions
BY DEF Next, vars, boot_vars, pmm_init, carve, link_region, pmm_init_return, Allocate,
       split, alloc_return, Free, pmm_free, coalesce, free_return, Halted

(* The bookkeeping of PmmInv and the absence of free halves, together.     *)
CoalescedInv == SaneBootMap(ram_regions) => CoreInv /\ HalvesInv

(* In every reachable state, in the middle of an operation too, no region  *)
(* has both halves of a block on its free lists: the carve loop makes the  *)
(* largest blocks, the split loop keeps one half, and the coalescing loop  *)
(* of pmm_free does not stop while the buddy is free.                      *)
THEOREM CoalescedInvariant == Spec => []CoalescedInv
<1>1. Init => CoalescedInv
  <2>1. ASSUME Init PROVE HalvesInv BY <2>1 DEF Init, HalvesInv
  <2>. QED BY <2>1, InitEstablishes DEF CoalescedInv
<1>2. CoalescedInv /\ [Next]_vars => CoalescedInv'
  <2> SUFFICES ASSUME CoalescedInv, [Next]_vars, SaneBootMap(ram_regions)'
               PROVE  CoreInv' /\ HalvesInv'
    BY DEF CoalescedInv
  <2>1. SaneBootMap(ram_regions) BY BootMapFixed DEF SaneBootMap
  <2>2. CoreInv /\ HalvesInv BY <2>1 DEF CoalescedInv
  <2>3. HalvesInv' BY <2>2, HalvesStep
  <2>4. PmmInv' BY <2>2, StepPreserves DEF PmmInv
  <2>. QED BY <2>3, <2>4 DEF PmmInv
<1>. QED BY <1>1, <1>2, PTL DEF Spec

(* The types of the manager's state, TypeOK, for every such boot map: the  *)
(* cursor of the early heap stays inside it, list entries and pool indexes *)
(* stay inside their region and no order exceeds MAX_ORDER, which is what  *)
(* two of pmm_free's checks ask.                                           *)
THEOREM TypeTheorem == Spec => [](SaneBootMap(ram_regions) => TypeOK)
<1>1. PmmInv => (SaneBootMap(ram_regions) => TypeOK) BY DEF PmmInv, CoreInv
<1>. QED BY <1>1, PmmInvariant, PTL

(* Free blocks of one region are on the lists of that region.              *)
LEMMA FreeBlockOfRegion ==
    ASSUME CoreInv, NEW b \in FreeBlocks
    PROVE  b.region \in DOMAIN g_regions /\ b \in FreeBlocksOf(b.region, g_regions[b.region])
<1>1. PICK r \in DOMAIN g_regions : b \in FreeBlocksOf(r, g_regions[r]) BY DEF FreeBlocks
<1>2. b.region = r BY <1>1, RegionFacts, FreeBlocksTyped
<1>. QED BY <1>1, <1>2

(* FullyCoalesced: between operations no two buddies are both free, for    *)
(* every boot map of disjoint regions and every sequence of calls.         *)
THEOREM CoalescedTheorem == Spec => [](SaneBootMap(ram_regions) => FullyCoalesced)
<1>1. ASSUME CoreInv, HalvesInv PROVE FullyCoalesced
  <2> SUFFICES ASSUME NEW a \in FreeBlocks, NEW b \in FreeBlocks,
                      a.region = b.region, Halves(a, b)
               PROVE  FALSE
    BY DEF FullyCoalesced, Halves
  <2>1. /\ a.region \in DOMAIN g_regions
        /\ a \in FreeBlocksOf(a.region, g_regions[a.region])
        /\ b \in FreeBlocksOf(a.region, g_regions[a.region])
    BY <1>1, FreeBlockOfRegion
  <2>. QED BY <1>1, <2>1 DEF HalvesInv, NoFreeHalves
<1>2. CoalescedInv => (SaneBootMap(ram_regions) => FullyCoalesced)
  BY <1>1 DEF CoalescedInv
<1>. QED BY <1>2, CoalescedInvariant, PTL

(***************************************************************************)
(* A run of free pages that could be a block is part of a free block.      *)
(***************************************************************************)

(* A set of numbers that is not empty has a least one.                     *)
LEMMA Least ==
    ASSUME NEW S \in SUBSET Nat, S # {}
    PROVE  \E m \in S : \A p \in S : m <= p
<1>1. IsWellFoundedOn(OpToRel(<, Nat), Nat) BY NatLessThanWellFounded
<1>2. PICK m \in S : \A y \in S : ~(<<y, m>> \in OpToRel(<, Nat)) BY <1>1, WFMin
<1>3. ASSUME NEW y \in S PROVE m <= y
  <2>1. ~(y < m) BY <1>2 DEF OpToRel
  <2>. QED BY <2>1
<1>. QED BY <1>3

(* Of two aligned runs that share a page, the one of the lower order lies  *)
(* inside the other.                                                       *)
LEMMA Nested ==
    ASSUME NEW o \in 0..10, NEW p \in o..10,
           NEW low \in Nat, low % BLOCK_COUNT(o) = 0,
           NEW j \in Nat, j % BLOCK_COUNT(p) = 0,
           NEW b \in Nat, low <= b, b < low + BLOCK_COUNT(o),
           j <= b, b < j + BLOCK_COUNT(p)
    PROVE  j <= low /\ low + BLOCK_COUNT(o) <= j + BLOCK_COUNT(p)
<1>1. CASE o = 0
  <2>1. BLOCK_COUNT(o) = 1 BY <1>1 DEF BLOCK_COUNT
  <2>2. p \in 0..10 OBVIOUS
  <2>3. BLOCK_COUNT(p) \in Nat BY <2>2, BlockCount
  <2>. QED BY <2>1, <2>3
<1>2. CASE o # 0
  <2> DEFINE q == o - 1
  <2>1. q \in 0..9 /\ o = q + 1 /\ p \in (q + 1)..10 BY <1>2
  <2> HIDE DEF q
  <2>2. /\ low % BLOCK_COUNT(q + 1) = 0 /\ b < low + BLOCK_COUNT(q + 1)
    BY <2>1
  <2>3. j <= low /\ low + BLOCK_COUNT(q + 1) <= j + BLOCK_COUNT(p)
    BY <2>1, <2>2, PairInside
  <2>. QED BY <2>1, <2>3
<1>. QED BY <1>1, <1>2

(* The block b has a page of the run of order k that starts at i.          *)
Meets(b, i, k) == b.block < i + BLOCK_COUNT(k) /\ i < EndOf(b)

(* Where no two halves are free, an aligned run all of whose pages are     *)
(* free lies inside one free block.  Otherwise look at a smallest free     *)
(* block in the run: its buddy lies in the run, is a block, is free, and   *)
(* is not larger, or it would contain both.                                *)
LEMMA FreeRun ==
    ASSUME NEW blocks \in SUBSET Blocks, NEW limit \in Nat, Tiling(blocks, limit),
           NEW free \in SUBSET blocks, \A a, b \in free : ~Halves(a, b),
           NEW k \in Orders, NEW i \in Nat, i % BLOCK_COUNT(k) = 0,
           i + BLOCK_COUNT(k) <= limit,
           \A b \in blocks : Meets(b, i, k) => b \in free
    PROVE  \E b \in free : /\ b.order >= k /\ b.block <= i
                          /\ i + BLOCK_COUNT(k) <= EndOf(b)
<1> DEFINE n == BLOCK_COUNT(k)
           met == { b \in blocks : Meets(b, i, k) }
<1>1. /\ k \in 0..10 /\ n \in Nat \ {0} /\ MAX_ORDER \in 0..10 /\ k <= MAX_ORDER
  <2>1. MAX_ORDER \in 0..10 BY PmmAssumption
  <2>2. k \in 0..10 /\ k <= MAX_ORDER BY <2>1 DEF Orders
  <2>. QED BY <2>1, <2>2, BlockCount
<1>2. \A b \in blocks : /\ b \in Blocks /\ b.block % BLOCK_COUNT(b.order) = 0
                         /\ b.block \in Nat /\ b.order \in 0..10
                         /\ BLOCK_COUNT(b.order) \in Nat \ {0}
                         /\ EndOf(b) = b.block + BLOCK_COUNT(b.order)
  BY BlockFacts DEF Tiling, EndOf
<1>3. PICK d \in blocks : Covers(d, i)
  <2>1. i \in 0..(limit - 1) BY <1>1
  <2>. QED BY <2>1 DEF Tiling
<1>4. d \in met BY <1>1, <1>2, <1>3 DEF Covers, Meets
<1>5. PICK c \in met : \A b \in met : c.order <= b.order
  <2> DEFINE S == { b.order : b \in met }
  <2>1. S \in SUBSET Nat /\ S # {} BY <1>2, <1>4
  <2> HIDE DEF S
  <2>2. PICK m \in S : \A p \in S : m <= p BY <2>1, Least
  <2>. QED BY <2>2 DEF S
<1>6. CASE c.order >= k
  <2>1. d.order \in k..10 BY <1>1, <1>2, <1>4, <1>5, <1>6
  <2>2. d.block <= i /\ i < d.block + BLOCK_COUNT(d.order) BY <1>2, <1>3 DEF Covers
  <2>3. i <= i /\ i < i + BLOCK_COUNT(k) BY <1>1
  <2> DEFINE p == d.order
             j == d.block
  <2>4. p \in k..10 /\ j \in Nat /\ j % BLOCK_COUNT(p) = 0 /\ j <= i /\ i < j + BLOCK_COUNT(p)
    BY <1>2, <2>1, <2>2
  <2> HIDE DEF p, j
  <2>5. i + BLOCK_COUNT(k) <= j + BLOCK_COUNT(p)
    BY <1>1, <2>3, <2>4, Nested
  <2>. QED BY <1>2, <1>4, <2>1, <2>2, <2>5 DEF p, j
<1>7. CASE c.order < k
  <2> DEFINE m == c.order
             e == get_buddy_block(c.block, m)
             low == merged_block(c.block, e)
  <2>1. /\ m \in 0..9 /\ m + 1 \in 0..10 /\ k \in (m + 1)..10 /\ k \in m..10
        /\ c.block \in Nat /\ c.block % BLOCK_COUNT(m) = 0 /\ c \in blocks
    BY <1>1, <1>2, <1>5, <1>7
  <2>2. /\ BLOCK_COUNT(m) \in Nat \ {0} /\ BLOCK_COUNT(m + 1) = 2 * BLOCK_COUNT(m)
    BY <2>1, BlockCount
  <2>3. /\ e \in Nat /\ e # c.block /\ low \in Nat /\ low % BLOCK_COUNT(m + 1) = 0
        /\ \/ c.block = low /\ e = c.block + BLOCK_COUNT(m)
           \/ e = low /\ c.block = e + BLOCK_COUNT(m)
    BY <2>1, BuddyPair
  <2> HIDE DEF e, low
  <2>4. i <= c.block /\ c.block < i + n
    <3> DEFINE x == IF c.block <= i THEN i ELSE c.block
    <3>1. /\ x \in Nat /\ c.block <= x /\ x < c.block + BLOCK_COUNT(m)
          /\ i <= x /\ x < i + BLOCK_COUNT(k)
      BY <1>1, <1>2, <1>5, <2>1, <2>2 DEF Meets
    <3> HIDE DEF x
    <3>2. i <= c.block BY <2>1, <3>1, <1>1, Nested
    <3>. QED BY <3>2, <1>5 DEF Meets
  <2>5. i <= low /\ low + BLOCK_COUNT(m + 1) <= i + n
    <3>1. low <= c.block /\ c.block < low + BLOCK_COUNT(m + 1) BY <2>1, <2>2, <2>3
    <3>. QED BY <1>1, <2>1, <2>3, <2>4, <3>1, Nested
  <2>6. i <= e /\ e < i + n /\ e < limit BY <1>1, <2>1, <2>2, <2>3, <2>5
  <2>7. PICK b \in blocks \ {c} : b.block = e
    <3>1. c.order < MAX_ORDER BY <1>1, <1>2, <1>5, <1>7
    <3>. QED BY <2>1, <2>6, <3>1, BuddyIsBlock DEF e
  <2>8. b \in met /\ b \in free /\ c \in free /\ m <= b.order
    <3>1. b \in met BY <1>2, <2>6, <2>7 DEF Meets
    <3>. QED BY <3>1, <1>5
  <2>9. CASE b.order > m
    <3>1. b.order \in (m + 1)..10 BY <1>2, <2>1, <2>9
    <3>2. low <= e /\ e < low + BLOCK_COUNT(m + 1) BY <2>1, <2>2, <2>3
    <3>3. b.block <= e /\ e < b.block + BLOCK_COUNT(b.order) BY <1>2, <2>3, <2>7
    <3>4. b.block <= low /\ low + BLOCK_COUNT(m + 1) <= b.block + BLOCK_COUNT(b.order)
      BY <1>2, <2>1, <2>3, <3>1, <3>2, <3>3, Nested
    <3>5. Apart(b, c) BY <2>1, <2>7 DEF Tiling
    <3>. QED BY <1>2, <2>1, <2>2, <2>3, <3>4, <3>5 DEF Apart
  <2>10. CASE b.order = m
    <3>1. m < MAX_ORDER BY <1>1, <2>1, <1>7
    <3>2. Halves(c, b) \/ Halves(b, c) BY <2>2, <2>3, <2>7, <2>10, <3>1 DEF Halves
    <3>. QED BY <2>8, <3>2
  <2>. QED BY <1>2, <2>1, <2>8, <2>9, <2>10
<1>. QED BY <1>1, <1>2, <1>5, <1>6, <1>7

(* Between operations every block of a region is free or live, so a run    *)
(* that no live block meets is part of a free block: find_region_for_order *)
(* will find it.                                                           *)
LEMMA UnusedRun ==
    ASSUME CoreInv, HalvesInv, pc = "idle", NEW r \in DOMAIN g_regions,
           NEW k \in Orders, NEW i \in Nat, i % BLOCK_COUNT(k) = 0,
           i + BLOCK_COUNT(k) <= g_regions[r].block_pool_size,
           \A b \in live : b.region = r => ~Meets(b, i, k)
    PROVE  \E b \in FreeBlocksOf(r, g_regions[r]) :
             b.order >= k /\ b.block <= i /\ i + BLOCK_COUNT(k) <= EndOf(b)
<1> DEFINE reg == g_regions[r]
           out == Within(Out, r)
           all == AllBlocks(r, reg, out, {})
           free == FreeBlocksOf(r, reg)
<1>1. out = Within(live, r) /\ Within(Merging, r) = {}
  BY DEF Out, Merging, Within
<1>2. GoodRegion(r, reg, out, {}, reg.block_pool_size) BY <1>1, RegionFacts
<1>3. \A b \in all : Meets(b, i, k) => b \in free
  BY <1>1 DEF AllBlocks, Within
<1>4. \A a, b \in free : ~Halves(a, b) BY DEF HalvesInv, NoFreeHalves
<1>5. free \in SUBSET all BY DEF AllBlocks
<1>6. i + BLOCK_COUNT(k) <= reg.block_pool_size OBVIOUS
<1> HIDE DEF reg, out
<1>7. all \in SUBSET Blocks /\ Tiling(all, reg.block_pool_size) /\ reg.block_pool_size \in Nat
  BY <1>2, GoodFacts
<1> HIDE DEF all, free
<1>8. \E b \in free : b.order >= k /\ b.block <= i /\ i + BLOCK_COUNT(k) <= EndOf(b)
  BY <1>3, <1>4, <1>5, <1>6, <1>7, FreeRun
<1>. QED BY <1>8 DEF free, reg

(* The start of the aligned pair that a page lies in.                      *)
LEMMA PairStart ==
    ASSUME NEW o \in 0..9, NEW i \in Nat,
           NEW low, low = i - (i % (2 * BLOCK_COUNT(o)))
    PROVE  /\ low \in Nat /\ low <= i /\ i < low + BLOCK_COUNT(o + 1)
           /\ low % BLOCK_COUNT(o + 1) = 0
<1>0. CASE o = 0 BY <1>0 DEF BLOCK_COUNT
<1>1. CASE o = 1 BY <1>1 DEF BLOCK_COUNT
<1>2. CASE o = 2 BY <1>2 DEF BLOCK_COUNT
<1>3. CASE o = 3 BY <1>3 DEF BLOCK_COUNT
<1>4. CASE o = 4 BY <1>4 DEF BLOCK_COUNT
<1>5. CASE o = 5 BY <1>5 DEF BLOCK_COUNT
<1>6. CASE o = 6 BY <1>6 DEF BLOCK_COUNT
<1>7. CASE o = 7 BY <1>7 DEF BLOCK_COUNT
<1>8. CASE o = 8 BY <1>8 DEF BLOCK_COUNT
<1>9. CASE o = 9 BY <1>9 DEF BLOCK_COUNT
<1>. QED BY <1>0, <1>1, <1>2, <1>3, <1>4, <1>5, <1>6, <1>7, <1>8, <1>9

(* AllFreedRestores: once the kernel has freed everything, each region is  *)
(* back in as few blocks as the carve loop could cut it into, whatever the *)
(* order of the allocations and frees before.                              *)
THEOREM RestoredTheorem == Spec => [](SaneBootMap(ram_regions) => AllFreedRestores)
<1>1. ASSUME CoreInv, HalvesInv PROVE AllFreedRestores
  <2> SUFFICES ASSUME pc = "idle", live = {}, NEW b \in FreeBlocks, b.order # MAX_ORDER,
                      ~(b.block - (b.block % (2 * BLOCK_COUNT(b.order)))
                          + 2 * BLOCK_COUNT(b.order) > g_regions[b.region].block_pool_size)
               PROVE  FALSE
    BY DEF AllFreedRestores
  <2> DEFINE r == b.region
             reg == g_regions[r]
             o == b.order
             low == b.block - (b.block % (2 * BLOCK_COUNT(o)))
             free == FreeBlocksOf(r, reg)
             all == AllBlocks(r, reg, Within(Out, r), Within(Merging, r))
  <2>1. r \in DOMAIN g_regions /\ b \in free BY <1>1, FreeBlockOfRegion
  <2>2. GoodRegion(r, reg, Within(Out, r), Within(Merging, r), reg.block_pool_size)
    BY <1>1, <2>1, RegionFacts
  <2>3. /\ all \in SUBSET Blocks /\ Tiling(all, reg.block_pool_size)
        /\ reg.block_pool_size \in Nat
    <3> HIDE DEF r, reg
    <3>. QED BY <2>2, GoodFacts
  <2>4. free \subseteq all BY DEF AllBlocks
  <2>5. b \in Blocks BY <2>1, <2>3, <2>4
  <2>6. MAX_ORDER \in 0..10 /\ o \in 0..MAX_ORDER
    BY <2>5, BlockFacts, PmmAssumption DEF Orders
  <2>7. o \in 0..9 /\ o + 1 \in Orders BY <2>6 DEF Orders
  <2>8. b.block \in Nat BY <2>5, BlockFacts
  <2>9. BLOCK_COUNT(o) \in Nat /\ BLOCK_COUNT(o + 1) = 2 * BLOCK_COUNT(o)
    BY <2>7, BlockCount
  <2>10. /\ low \in Nat /\ low <= b.block /\ b.block < low + BLOCK_COUNT(o + 1)
         /\ low % BLOCK_COUNT(o + 1) = 0
    BY <2>7, <2>8, PairStart
  <2>11. low + BLOCK_COUNT(o + 1) <= reg.block_pool_size
    BY <2>3, <2>9, <2>10
  <2>12. PICK c \in free : /\ c.order >= o + 1 /\ c.block <= low
                           /\ low + BLOCK_COUNT(o + 1) <= EndOf(c)
    <3> HIDE DEF low, o
    <3>. QED BY <1>1, <2>1, <2>7, <2>10, <2>11, UnusedRun
  <2>13. c # b BY <2>6, <2>12
  <2>14. Apart(b, c) BY <2>1, <2>3, <2>4, <2>13 DEF Tiling
  <2>15. c \in Blocks BY <2>3, <2>4
  <2>16. c.block \in Nat /\ EndOf(c) \in Nat /\ EndOf(b) \in Nat /\ b.block < EndOf(b)
    BY <2>5, <2>15, BlockFacts
  <2>17. BLOCK_COUNT(o + 1) \in Nat BY <2>9
  <2> HIDE DEF low, o, free, all
  <2>. QED BY <2>8, <2>10, <2>12, <2>14, <2>16, <2>17 DEF Apart
<1>2. CoalescedInv => (SaneBootMap(ram_regions) => AllFreedRestores)
  BY <1>1 DEF CoalescedInv
<1>. QED BY <1>2, CoalescedInvariant, PTL
=============================================================================
