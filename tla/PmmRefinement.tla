--------------------------- MODULE PmmRefinement ---------------------------
(***************************************************************************)
(* pmm.c implements PageAllocator, step by step: for every boot map of     *)
(* disjoint regions below the last page, a step of Pmm is a step of the    *)
(* abstract allocator or leaves its variables alone.  Most of the work is  *)
(* in "no free blocks": it is reported only when no region has an unused   *)
(* run of the requested order, and that needs the coalescing of            *)
(* PmmCoalescing.                                                          *)
(***************************************************************************)
EXTENDS PmmCoalescing

(* The refinement mapping of Pmm!Abstract, named.                          *)
Sizes == [r \in DOMAIN g_regions |-> g_regions[r].block_pool_size]

Status ==
    IF pc \in {"pmm_init", "carve"} THEN "booting"
    ELSE IF pc \in {"idle", "split", "coalesce"} THEN "running"
    ELSE IF ~BookkeepingSound THEN "corrupt"
    ELSE IF panic = "no free blocks" THEN "out of memory"
    ELSE "refused"

Failed == IF panic = "no free blocks" THEN target_order ELSE -1

(* Nothing has been reported as long as the machine runs.                  *)
Calm == pc # "panic" => panic = "none"

(* A panic is reported when the machine stops, not before.                 *)
LEMMA CalmStep ==
    ASSUME Calm, [Next]_vars
    PROVE  Calm'
<1>1. CASE pmm_init BY <1>1 DEF Calm, pmm_init, pmm_add_region, skip_region, KPANIC
<1>2. CASE carve \/ link_region \/ pmm_init_return
  BY <1>2 DEF Calm, carve, link_region, pmm_init_return
<1>3. CASE Allocate
  BY <1>3 DEF Calm, Allocate, pmm_alloc_order, pmm_alloc_size, pmm_alloc_pages, KPANIC
<1>4. CASE split \/ alloc_return BY <1>4 DEF Calm, split, alloc_return
<1>5. CASE Free BY <1>5 DEF Calm, Free, pmm_free, KPANIC
<1>6. CASE coalesce \/ free_return BY <1>6 DEF Calm, coalesce, free_return, KPANIC
<1>7. CASE Halted \/ UNCHANGED vars BY <1>7 DEF Calm, Halted, vars
<1>. QED BY <1>1, <1>2, <1>3, <1>4, <1>5, <1>6, <1>7 DEF Next

(***************************************************************************)
(* No operation changes the extent of a region.                            *)
(***************************************************************************)

Fields == {"start", "end", "block_pool_size"}

SameShapes ==
    /\ DOMAIN g_regions' = DOMAIN g_regions
    /\ \A r \in DOMAIN g_regions : SameShape(g_regions'[r], g_regions[r])

(* The operations on one block keep the region's size and place.           *)
LEMMA ShapeKept ==
    ASSUME NEW reg, Fields \subseteq DOMAIN reg, NEW i, NEW e, NEW o
    PROVE  /\ SameShape(set_block(reg, i, e), reg)
           /\ Fields \subseteq DOMAIN set_block(reg, i, e)
           /\ SameShape(add_to_region_freelist(reg, i, o), reg)
           /\ Fields \subseteq DOMAIN add_to_region_freelist(reg, i, o)
           /\ SameShape(remove_from_region_freelist(reg, i, o), reg)
           /\ Fields \subseteq DOMAIN remove_from_region_freelist(reg, i, o)
BY DEF Fields, SameShape, set_block, add_to_region_freelist, remove_from_region_freelist

(* A region has the fields of pmm_region_t.                                *)
LEMMA RegionFields ==
    ASSUME NEW reg, IsRegion(reg)
    PROVE  Fields \subseteq DOMAIN reg
BY DEF IsRegion, Fields

(* A step that leaves the regions alone.                                   *)
LEMMA ShapesStutter ==
    ASSUME g_regions' = g_regions
    PROVE  SameShapes
BY DEF SameShapes, SameShape

(* A step that replaces one region by one of its shape.                    *)
LEMMA ShapesUpdate ==
    ASSUME CoreInv, NEW r \in DOMAIN g_regions, NEW s, SameShape(s, g_regions[r]),
           g_regions' = [g_regions EXCEPT ![r] = s]
    PROVE  SameShapes
<1>1. g_regions \in Seq(ToSet(g_regions)) BY DEF CoreInv, TypeOK
<1>2. /\ DOMAIN g_regions' = DOMAIN g_regions /\ g_regions'[r] = s
      /\ \A q \in DOMAIN g_regions : q # r => g_regions'[q] = g_regions[q]
  BY <1>1, SeqUpdate
<1>. QED BY <1>2 DEF SameShapes, SameShape

(* An allocation changes blocks, not regions.                              *)
LEMMA AllocateShapes ==
    ASSUME CoreInv, Allocate
    PROVE  SameShapes
<1>1. CASE g_regions' = g_regions BY <1>1, ShapesStutter
<1>2. CASE \E r \in DOMAIN g_regions : \E i, o, e :
             g_regions' = [g_regions EXCEPT ![r] =
                set_block(remove_from_region_freelist(g_regions[r], i, o), i, e)]
  <2>1. PICK r \in DOMAIN g_regions : \E i, o, e :
             g_regions' = [g_regions EXCEPT ![r] =
                set_block(remove_from_region_freelist(g_regions[r], i, o), i, e)]
    BY <1>2
  <2>2. PICK i, o, e :
             g_regions' = [g_regions EXCEPT ![r] =
                set_block(remove_from_region_freelist(g_regions[r], i, o), i, e)]
    BY <2>1
  <2> DEFINE t == remove_from_region_freelist(g_regions[r], i, o)
             s == set_block(t, i, e)
  <2>3. Fields \subseteq DOMAIN g_regions[r] BY RegionFacts, RegionFields
  <2>4. SameShape(t, g_regions[r]) /\ Fields \subseteq DOMAIN t BY <2>3, ShapeKept
  <2>5. g_regions' = [g_regions EXCEPT ![r] = s] BY <2>2
  <2> HIDE DEF t
  <2>6. SameShape(s, t) BY <2>4, ShapeKept
  <2> HIDE DEF s
  <2>7. SameShape(s, g_regions[r]) BY <2>4, <2>6 DEF SameShape
  <2>. QED BY <2>5, <2>7, ShapesUpdate
<1>. QED BY <1>1, <1>2, ZenonT(60) DEF Allocate, pmm_alloc_order, pmm_alloc_size, pmm_alloc_pages, KPANIC

(* So does the start of a free,                                            *)
LEMMA FreeShapes ==
    ASSUME CoreInv, Free
    PROVE  SameShapes
<1>1. CASE g_regions' = g_regions BY <1>1, ShapesStutter
<1>2. CASE \E r, i, e : g_regions' = [g_regions EXCEPT ![r] = set_block(g_regions[r], i, e)]
  <2>1. PICK r, i, e : g_regions' = [g_regions EXCEPT ![r] = set_block(g_regions[r], i, e)]
    BY <1>2
  <2> DEFINE s == set_block(g_regions[r], i, e)
  <2>2. CASE r \in DOMAIN g_regions
    <3>1. Fields \subseteq DOMAIN g_regions[r] BY <2>2, RegionFacts, RegionFields
    <3>2. SameShape(s, g_regions[r]) BY <3>1, ShapeKept
    <3> HIDE DEF s
    <3>. QED BY <2>1, <2>2, <3>2, ShapesUpdate DEF s
  <2>3. CASE r \notin DOMAIN g_regions
    <3>1. \A q \in DOMAIN g_regions : g_regions'[q] = g_regions[q] BY <2>1, <2>3
    <3>2. DOMAIN g_regions' = DOMAIN g_regions BY <2>1
    <3>. QED BY <3>1, <3>2 DEF SameShapes, SameShape
  <2>. QED BY <2>2, <2>3
<1>3. ASSUME NEW address, pmm_free(address) PROVE SameShapes
  <2> DEFINE r == find_region_by_address(address)
             i == (address - g_regions[r].start) \div PAGE_SIZE
             e == FreeEntry(g_regions[r].block_pool[i].order)
  <2>1. \/ g_regions' = g_regions
        \/ g_regions' = [g_regions EXCEPT ![r] = set_block(g_regions[r], i, e)]
    BY <1>3 DEF pmm_free
  <2> HIDE DEF r, i, e
  <2>. QED BY <2>1, <1>1, <1>2
<1>. QED BY <1>3 DEF Free

(* a turn of the split loop,                                               *)
LEMMA SplitShapes ==
    ASSUME CoreInv, split
    PROVE  SameShapes
<1> DEFINE r == hand.region
           o == hand.order - 1
           i == split_buddy(hand.block, o)
           t == set_block(g_regions[r], hand.block,
                  [order |-> o, is_free |-> g_regions[r].block_pool[hand.block].is_free])
           u == set_block(t, i, FreeEntry(o))
           s == add_to_region_freelist(u, i, o)
<1>1. CASE g_regions' = g_regions BY <1>1, ShapesStutter
<1>2. CASE g_regions' = [g_regions EXCEPT ![r] = s]
  <2>1. r \in DOMAIN g_regions BY DEF split, CoreInv, ControlInv
  <2>2. Fields \subseteq DOMAIN g_regions[r] BY <2>1, RegionFacts, RegionFields
  <2>3. SameShape(t, g_regions[r]) /\ Fields \subseteq DOMAIN t BY <2>2, ShapeKept
  <2> HIDE DEF t
  <2>4. SameShape(u, t) /\ Fields \subseteq DOMAIN u BY <2>3, ShapeKept
  <2> HIDE DEF u
  <2>5. SameShape(s, u) BY <2>4, ShapeKept
  <2> HIDE DEF s
  <2>6. SameShape(s, g_regions[r]) BY <2>3, <2>4, <2>5 DEF SameShape
  <2> HIDE DEF r
  <2>. QED BY <1>2, <2>1, <2>6, ShapesUpdate
<1>. QED BY <1>1, <1>2 DEF split

(* a turn of the coalescing loop                                           *)
LEMMA CoalesceShapes ==
    ASSUME CoreInv, coalesce
    PROVE  SameShapes
<1> DEFINE r == hand.region
           i == get_buddy_block(hand.block, hand.order)
           t == remove_from_region_freelist(g_regions[r], i, hand.order)
           u == set_block(t, i, UsedEntry(hand.order))
           s == set_block(u, merged_block(hand.block, i), FreeEntry(hand.order + 1))
<1>1. CASE g_regions' = g_regions BY <1>1, ShapesStutter
<1>2. CASE g_regions' = [g_regions EXCEPT ![r] = s]
  <2>1. r \in DOMAIN g_regions BY DEF coalesce, CoreInv, ControlInv
  <2>2. Fields \subseteq DOMAIN g_regions[r] BY <2>1, RegionFacts, RegionFields
  <2>3. SameShape(t, g_regions[r]) /\ Fields \subseteq DOMAIN t BY <2>2, ShapeKept
  <2> HIDE DEF t
  <2>4. SameShape(u, t) /\ Fields \subseteq DOMAIN u BY <2>3, ShapeKept
  <2> HIDE DEF u
  <2>5. SameShape(s, u) BY <2>4, ShapeKept
  <2> HIDE DEF s
  <2>6. SameShape(s, g_regions[r]) BY <2>3, <2>4, <2>5 DEF SameShape
  <2> HIDE DEF r
  <2>. QED BY <1>2, <2>1, <2>6, ShapesUpdate
<1>. QED BY <1>1, <1>2 DEF coalesce

(* and the return of pmm_free.                                             *)
LEMMA FreeReturnShapes ==
    ASSUME CoreInv, free_return
    PROVE  SameShapes
<1> DEFINE r == hand.region
           s == add_to_region_freelist(g_regions[r], hand.block, hand.order)
<1>1. g_regions' = [g_regions EXCEPT ![r] = s] BY DEF free_return
<1>2. r \in DOMAIN g_regions BY DEF free_return, CoreInv, ControlInv
<1>3. Fields \subseteq DOMAIN g_regions[r] BY <1>2, RegionFacts, RegionFields
<1>4. SameShape(s, g_regions[r]) BY <1>3, ShapeKept
<1> HIDE DEF r, s
<1>. QED BY <1>1, <1>2, <1>4, ShapesUpdate

(* The abstract sizes depend on the shapes only.                           *)
LEMMA SizesKept ==
    ASSUME SameShapes
    PROVE  Sizes' = Sizes
BY DEF SameShapes, SameShape, Sizes

(***************************************************************************)
(* The abstract steps, in terms of the mapping.                            *)
(***************************************************************************)

(* What the mapping sees as no step.                                       *)
LEMMA Stutters ==
    ASSUME Sizes' = Sizes, live' = live, Status' = Status, Failed' = Failed
    PROVE  UNCHANGED Abstract!vars
BY DEF Abstract!vars, Sizes, Status, Failed

(* A kernel panic other than out of memory.                                *)
LEMMA Refuses ==
    ASSUME Sizes' = Sizes, live' = live, Failed' = Failed,
           Status \in {"booting", "running"}, Status' = "refused"
    PROVE  Abstract!Next
<1>1. Abstract!Refuse BY DEF Abstract!Refuse, Sizes, Status, Failed
<1>. QED BY <1>1 DEF Abstract!Next

(* The end of pmm_init.                                                    *)
LEMMA Boots ==
    ASSUME Sizes' = Sizes, live' = live, Failed' = Failed,
           Status = "booting", Status' = "running"
    PROVE  Abstract!Next
<1>1. Abstract!Booted BY DEF Abstract!Booted, Sizes, Status, Failed
<1>. QED BY <1>1 DEF Abstract!Next

(* A block is given back.                                                  *)
LEMMA Releases ==
    ASSUME Sizes' = Sizes, NEW b \in live, live' = live \ {b}, Failed' = Failed,
           Status = "running", Status' = "running"
    PROVE  Abstract!Next
<1>1. Abstract!Release BY DEF Abstract!Release, Sizes, Status, Failed
<1>. QED BY <1>1 DEF Abstract!Next

(* A region is linked.                                                     *)
LEMMA Grows ==
    ASSUME NEW n, Sizes' = Append(Sizes, n), Len(Sizes') = Len(Sizes) + 1,
           Sizes'[Len(Sizes')] = n,
           live' = live, Failed' = Failed, Status = "booting", Status' = "booting"
    PROVE  Abstract!Next
<1>0. Sizes' = Append(Sizes, Sizes'[Len(Sizes')]) OBVIOUS
<1>1. Abstract!AddRegion BY <1>0 DEF Abstract!AddRegion, Sizes, Status, Failed
<1>. QED BY <1>1 DEF Abstract!Next

(* A block that nobody holds is handed out.                                *)
LEMMA Allocates ==
    ASSUME Sizes' = Sizes, live' = live \cup {hand}, Failed' = Failed,
           Status = "running", Status' = "running",
           hand = [region |-> hand.region, block |-> hand.block, order |-> hand.order],
           hand.region \in DOMAIN Sizes, hand.order \in Orders,
           hand.block \in 0..(Sizes[hand.region] - 1),
           Abstract!Unused(hand.region, hand.block, hand.order)
    PROVE  Abstract!Next
<1>1. Abstract!Allocate
  <2> DEFINE r == hand.region
             i == hand.block
             o == hand.order
  <2>1. live' = live \cup {[region |-> r, block |-> i, order |-> o]} BY Zenon
  <2>2. r \in DOMAIN Sizes /\ o \in 0..MAX_ORDER /\ i \in 0..(Sizes[r] - 1)
        /\ Abstract!Unused(r, i, o)
    BY DEF Orders
  <2> HIDE DEF r, i, o
  <2>. QED BY <2>1, <2>2 DEF Abstract!Allocate, Sizes, Status, Failed
<1>. QED BY <1>1 DEF Abstract!Next

(* A request fails when no block of its order is available.                *)
LEMMA RunsOut ==
    ASSUME Sizes' = Sizes, live' = live, Status = "running", Status' = "out of memory",
           Failed' \in Orders, ~Abstract!Available(Failed')
    PROVE  Abstract!Next
<1>1. Abstract!OutOfMemory
  BY DEF Abstract!OutOfMemory, Orders, Sizes, Status, Failed
<1>. QED BY <1>1 DEF Abstract!Next

(* 1U << order is the power of two that PageAllocator speaks of.           *)
LEMMA Powers ==
    ASSUME NEW o \in 0..10
    PROVE  2^o = BLOCK_COUNT(o)
<1>0. CASE o = 0 BY <1>0 DEF BLOCK_COUNT
<1>1. CASE o = 1 BY <1>1 DEF BLOCK_COUNT
<1>2. CASE o = 2 BY <1>2 DEF BLOCK_COUNT
<1>3. CASE o = 3 BY <1>3 DEF BLOCK_COUNT
<1>4. CASE o = 4 BY <1>4 DEF BLOCK_COUNT
<1>5. CASE o = 5 BY <1>5 DEF BLOCK_COUNT
<1>6. CASE o = 6 BY <1>6 DEF BLOCK_COUNT
<1>7. CASE o = 7 BY <1>7 DEF BLOCK_COUNT
<1>8. CASE o = 8 BY <1>8 DEF BLOCK_COUNT
<1>9. CASE o = 9 BY <1>9 DEF BLOCK_COUNT
<1>10. CASE o = 10 BY <1>10 DEF BLOCK_COUNT
<1>. QED BY <1>0, <1>1, <1>2, <1>3, <1>4, <1>5, <1>6, <1>7, <1>8, <1>9, <1>10

(* The abstract status, from the position in the code,                     *)
LEMMA StatusBefore ==
    ASSUME CoreInv, Calm
    PROVE  /\ pc \in {"pmm_init", "carve"} => Status = "booting" /\ Failed = -1
           /\ pc \in {"idle", "split", "coalesce"} => Status = "running" /\ Failed = -1
BY DEF Status, Failed, Calm

(* and after a step.                                                       *)
LEMMA StatusAfter ==
    ASSUME CoreInv', Calm'
    PROVE  /\ pc' \in {"pmm_init", "carve"} => Status' = "booting" /\ Failed' = -1
           /\ pc' \in {"idle", "split", "coalesce"} => Status' = "running" /\ Failed' = -1
           /\ pc' = "panic" /\ panic' # "no free blocks" => Status' = "refused" /\ Failed' = -1
           /\ pc' = "panic" /\ panic' = "no free blocks" => /\ Status' = "out of memory"
                                                           /\ Failed' = target_order'
BY DEF Status, Failed, Calm, CoreInv

(***************************************************************************)
(* The steps.                                                              *)
(***************************************************************************)

(* An entry of the boot map is skipped, begun or refused.                  *)
LEMMA InitMaps ==
    ASSUME CoreInv, Calm, CoreInv', Calm', pmm_init
    PROVE  Abstract!Next \/ UNCHANGED Abstract!vars
<1>1. /\ pc = "pmm_init" /\ g_regions' = g_regions /\ live' = live
      /\ \/ pc' \in {"pmm_init", "carve"}
         \/ pc' = "panic" /\ panic' # "no free blocks"
  BY DEF pmm_init, pmm_add_region, skip_region, KPANIC
<1>2. Sizes' = Sizes BY <1>1, ShapesStutter, SizesKept
<1>3. CASE pc' \in {"pmm_init", "carve"}
  BY <1>1, <1>2, <1>3, StatusBefore, StatusAfter, Stutters
<1>4. CASE pc' = "panic" /\ panic' # "no free blocks"
  BY <1>1, <1>2, <1>4, StatusBefore, StatusAfter, Refuses
<1>. QED BY <1>1, <1>3, <1>4

(* Appending to a list, entry by entry.                                    *)
LEMMA Longer ==
    ASSUME NEW m \in Nat, NEW f, f = [r \in 1..m |-> f[r]], NEW n,
           NEW g, g = [r \in 1..(m + 1) |-> IF r = m + 1 THEN n ELSE f[r]]
    PROVE  g = Append(f, n) /\ Len(g) = Len(f) + 1 /\ g[Len(g)] = n
<1> DEFINE T == { f[r] : r \in 1..m } \cup {n}
<1>1. f \in [1..m -> T] /\ g \in [1..(m + 1) -> T] /\ n \in T OBVIOUS
<1> HIDE DEF T
<1>2. f \in Seq(T) /\ g \in Seq(T) /\ m + 1 \in Nat
  <2>1. m + 1 \in Nat OBVIOUS
  <2>. QED BY <1>1, <2>1, SeqIntro
<1>3. Len(f) = m /\ Len(g) = m + 1 BY <1>1, <1>2
<1>4. /\ Append(f, n) \in Seq(T) /\ Len(Append(f, n)) = m + 1
      /\ \A i \in 1..m : Append(f, n)[i] = f[i]
      /\ Append(f, n)[m + 1] = n
  BY <1>1, <1>2, <1>3, AppendProperties
<1>5. \A i \in 1..(m + 1) : i = m + 1 \/ (i \in 1..m /\ i # m + 1) OBVIOUS
<1>6. \A i \in 1..(m + 1) : g[i] = Append(f, n)[i] BY <1>4, <1>5
<1>7. g = Append(f, n) BY <1>2, <1>3, <1>4, <1>6, SeqEqual
<1>8. g[m + 1] = n OBVIOUS
<1>. QED BY <1>3, <1>7, <1>8

(* link_region adds a region.                                              *)
LEMMA LinkMaps ==
    ASSUME CoreInv, Calm, CoreInv', Calm', link_region
    PROVE  Abstract!Next
<1> DEFINE k == Len(g_regions) + 1
<1>1. /\ pc = "carve" /\ pc' = "pmm_init" /\ live' = live
      /\ g_regions' = Append(g_regions, region)
  BY DEF link_region
<1>2. g_regions \in Seq(ToSet(g_regions)) BY DEF CoreInv, TypeOK
<1>3. /\ DOMAIN g_regions' = 1..k
      /\ DOMAIN g_regions = 1..Len(g_regions) /\ Len(g_regions) \in Nat
      /\ g_regions'[k] = region
      /\ \A q \in DOMAIN g_regions : g_regions'[q] = g_regions[q]
  BY <1>1, <1>2, SeqAppend
<1> DEFINE n == region.block_pool_size
           m == Len(g_regions)
<1>4. /\ Sizes = [r \in 1..m |-> Sizes[r]]
      /\ Sizes' = [r \in 1..(m + 1) |-> IF r = m + 1 THEN n ELSE Sizes[r]]
      /\ m \in Nat
  BY <1>3 DEF Sizes
<1> HIDE DEF n, m
<1>5. Sizes' = Append(Sizes, n) /\ Len(Sizes') = Len(Sizes) + 1 /\ Sizes'[Len(Sizes')] = n
  BY <1>4, Longer
<1>. QED BY <1>1, <1>5, StatusBefore, StatusAfter, Grows

(* The block that pmm_alloc_order returns meets no block in use: they are  *)
(* parts of one tiling.                                                    *)
LEMMA AllocReturnMaps ==
    ASSUME CoreInv, Calm, CoreInv', Calm', alloc_return
    PROVE  Abstract!Next
<1> DEFINE r == hand.region
           reg == g_regions[r]
           out == Within(Out, r)
           all == AllBlocks(r, reg, out, Within(Merging, r))
<1>1. /\ pc = "split" /\ pc' = "idle" /\ g_regions' = g_regions /\ live' = live \cup {hand}
      /\ hand \in Blocks /\ r \in DOMAIN g_regions /\ live \subseteq Blocks /\ hand \notin live
  BY DEF alloc_return, CoreInv, TypeOK, ControlInv
<1>2. Sizes' = Sizes BY <1>1, ShapesStutter, SizesKept
<1>3. GoodRegion(r, reg, out, Within(Merging, r), reg.block_pool_size) BY <1>1, RegionFacts
<1>4. hand \in all /\ \A b \in live : b.region = r => b \in all
  BY <1>1 DEF AllBlocks, Within, Out
<1>5. Sizes[r] = reg.block_pool_size /\ DOMAIN Sizes = DOMAIN g_regions BY <1>1 DEF Sizes
<1>6. hand.block \in Nat /\ hand.order \in 0..10 /\ hand.order \in Orders
      /\ hand = [region |-> hand.region, block |-> hand.block, order |-> hand.order]
  BY <1>1, BlockFacts
<1> HIDE DEF reg, r, out
<1>7. /\ Tiling(all, reg.block_pool_size) /\ hand.block \in 0..(reg.block_pool_size - 1)
  BY <1>3, <1>4, GoodFacts
<1> HIDE DEF all
<1>8. /\ hand.block % BLOCK_COUNT(hand.order) = 0
      /\ hand.block + BLOCK_COUNT(hand.order) <= reg.block_pool_size
  BY <1>4, <1>7 DEF Tiling, EndOf
<1>9. ASSUME NEW b \in live, b.region = r
      PROVE  \/ b.block + 2^b.order <= hand.block
             \/ hand.block + 2^hand.order <= b.block
  <2>1. b \in Blocks /\ b # hand BY <1>1
  <2>2. Apart(b, hand) BY <1>4, <1>7, <1>9, <2>1 DEF Tiling
  <2>3. b.order \in 0..10 BY <2>1, BlockFacts
  <2>4. 2^b.order = BLOCK_COUNT(b.order) /\ 2^hand.order = BLOCK_COUNT(hand.order)
    BY <1>6, <2>3, Powers
  <2>. QED BY <2>2, <2>4 DEF Apart, EndOf
<1>10. Abstract!Unused(r, hand.block, hand.order)
  <2>1. 2^hand.order = BLOCK_COUNT(hand.order) BY <1>6, Powers
  <2>2. hand.block + 2^hand.order <= Sizes[r] /\ hand.block % 2^hand.order = 0
    BY <1>5, <1>8, <2>1
  <2>. QED BY <1>9, <2>2 DEF Abstract!Unused, Sizes
<1>. QED
  BY <1>1, <1>2, <1>5, <1>6, <1>7, <1>10, StatusBefore, StatusAfter, Allocates DEF r

(* pmm_alloc_order gives up only when every region's lists are empty from  *)
(* the requested order up, and then no region has an unused run: UnusedRun *)
(* would have put it on a list.                                            *)
LEMMA NothingAvailable ==
    ASSUME CoreInv, HalvesInv, pc = "idle", NEW order \in Orders,
           \A r \in DOMAIN g_regions : ~CanServe(r, order)
    PROVE  ~Abstract!Available(order)
<1> SUFFICES ASSUME NEW r \in DOMAIN Sizes, NEW i \in 0..(Sizes[r] - 1),
                    Abstract!Unused(r, i, order)
             PROVE  FALSE
  BY DEF Abstract!Available, Sizes
<1>1. r \in DOMAIN g_regions /\ Sizes[r] = g_regions[r].block_pool_size BY DEF Sizes
<1>2. order \in 0..10 /\ MAX_ORDER \in 0..10
  <2>1. MAX_ORDER \in 0..10 BY PmmAssumption
  <2>. QED BY <2>1 DEF Orders
<1>3. 2^order = BLOCK_COUNT(order) BY <1>2, Powers
<1>4. /\ i % (2^order) = 0 /\ i + 2^order <= Sizes[r]
      /\ \A b \in live : b.region = r => \/ b.block + 2^b.order <= i
                                       \/ i + 2^order <= b.block
  BY DEF Abstract!Unused, Sizes
<1>5. i \in Nat OBVIOUS
<1>6. ASSUME NEW b \in live, b.region = r PROVE ~Meets(b, i, order)
  <2>1. b \in Blocks BY DEF CoreInv, TypeOK
  <2>2. b.order \in 0..10 /\ b.block \in Nat /\ EndOf(b) \in Nat BY <2>1, BlockFacts
  <2>3. EndOf(b) = b.block + 2^b.order BY <2>2, Powers DEF EndOf
  <2>4. BLOCK_COUNT(order) \in Nat BY <1>2, BlockCount
  <2>. QED BY <1>3, <1>4, <1>5, <1>6, <2>2, <2>3, <2>4 DEF Meets
<1>7. PICK b \in FreeBlocksOf(r, g_regions[r]) : b.order >= order
  BY <1>1, <1>3, <1>4, <1>5, <1>6, UnusedRun
<1>8. b.order \in Orders /\ b.block \in ToSet(g_regions[r].free_lists[b.order])
  <2>1. IsRegion(g_regions[r]) /\ r \in Nat BY <1>1, RegionFacts
  <2>2. b \in Blocks /\ b.block \in ToSet(g_regions[r].free_lists[b.order])
    BY <2>1, FreeBlocksTyped
  <2>. QED BY <2>2, BlockFacts
<1>9. g_regions[r].free_lists[b.order] # <<>>
  BY <1>8 DEF ToSet
<1>10. b.order \in order..MAX_ORDER BY <1>2, <1>7, <1>8 DEF Orders
<1>. QED BY <1>1, <1>9, <1>10 DEF CanServe

(* A request starts, panics for want of memory or is refused.              *)
LEMMA AllocateMaps ==
    ASSUME CoreInv, HalvesInv, Calm, CoreInv', Calm', Allocate
    PROVE  Abstract!Next \/ UNCHANGED Abstract!vars
<1>1. Sizes' = Sizes /\ live' = live /\ pc = "idle"
  BY AllocateShapes, SizesKept DEF Allocate
<1>2. CASE pc' \in {"idle", "split"}
  BY <1>1, <1>2, StatusBefore, StatusAfter, Stutters
<1>3. CASE pc' = "panic" /\ panic' # "no free blocks"
  BY <1>1, <1>3, StatusBefore, StatusAfter, Refuses
<1>4. CASE pc' = "panic" /\ panic' = "no free blocks"
  <2>1. /\ target_order' \in Orders
        /\ \A r \in DOMAIN g_regions : ~CanServe(r, target_order')
    <3>1. target_order' \in Orders BY DEF CoreInv, TypeOK
    <3>2. \A r \in DOMAIN g_regions : ~CanServe(r, target_order')
      BY <1>4 DEF Allocate, pmm_alloc_order, pmm_alloc_size, pmm_alloc_pages, KPANIC
    <3>. QED BY <3>1, <3>2
  <2>2. ~Abstract!Available(target_order')
    <3> DEFINE o == target_order'
    <3> HIDE DEF o
    <3>1. o \in Orders /\ \A r \in DOMAIN g_regions : ~CanServe(r, o) BY <2>1 DEF o
    <3>2. ~Abstract!Available(o) BY <1>1, <3>1, NothingAvailable
    <3>. QED BY <3>2 DEF o
  <2>3. Failed' = target_order' /\ Status' = "out of memory" BY <1>4, StatusAfter
  <2>. QED BY <1>1, <2>1, <2>2, <2>3, StatusBefore, RunsOut
<1>5. pc' \in {"idle", "split", "panic"}
  BY <1>1 DEF Allocate, pmm_alloc_order, pmm_alloc_size, pmm_alloc_pages, KPANIC
<1>. QED BY <1>2, <1>3, <1>4, <1>5

(* A free releases its block at once, does nothing or panics.              *)
LEMMA FreeMaps ==
    ASSUME CoreInv, Calm, CoreInv', Calm', Free
    PROVE  Abstract!Next \/ UNCHANGED Abstract!vars
<1>1. Sizes' = Sizes BY FreeShapes, SizesKept
<1>2. ASSUME NEW address, pmm_free(address), address = 0
      PROVE  UNCHANGED Abstract!vars
  <2>1. pc = "idle" /\ pc' = pc /\ live' = live BY <1>2 DEF pmm_free
  <2>. QED BY <1>1, <2>1, StatusBefore, StatusAfter, Stutters
<1>3. ASSUME NEW address, pmm_free(address), address # 0, free_fault(address) # "none"
      PROVE  Abstract!Next
  <2>1. pc = "idle" /\ pc' = "panic" /\ live' = live /\ panic' = free_fault(address)
    BY <1>3 DEF pmm_free, KPANIC
  <2>2. panic' # "no free blocks" BY <2>1 DEF free_fault
  <2>. QED BY <1>1, <2>1, <2>2, StatusBefore, StatusAfter, Refuses
<1>4. ASSUME NEW b \in live, pmm_free(AddressOf(b.region, b.block))
      PROVE  Abstract!Next \/ UNCHANGED Abstract!vars
  <2> DEFINE address == AddressOf(b.region, b.block)
  <2>1. CASE address = 0 BY <1>4, <1>2, <2>1
  <2>2. CASE address # 0
    <3>1. pc = "idle" BY <1>4 DEF pmm_free
    <3>2. /\ find_region_by_address(address) = b.region
          /\ (address - g_regions[b.region].start) \div PAGE_SIZE = b.block
          /\ g_regions[b.region].block_pool[b.block] = UsedEntry(b.order)
          /\ free_fault(address) = "none"
      BY <3>1, LiveAddress
    <3>3. b \in Blocks BY DEF CoreInv, TypeOK
    <3>4. /\ g_regions[b.region].block_pool[b.block].order = b.order
          /\ b = [region |-> b.region, block |-> b.block, order |-> b.order]
      BY <3>2, <3>3, BlockFacts, Entries
    <3>5. live' = live \ {[region |-> b.region, block |-> b.block, order |-> b.order]}
          /\ pc' = "coalesce"
      BY <1>4, <2>2, <3>2, <3>4 DEF pmm_free
    <3>6. live' = live \ {b} BY <3>4, <3>5, Zenon
    <3>. QED BY <1>1, <3>1, <3>5, <3>6, StatusBefore, StatusAfter, Releases
  <2>. QED BY <2>1, <2>2
<1>5. ASSUME NEW a \in StrayAddresses, Refusable(a), pmm_free(a)
      PROVE  Abstract!Next \/ UNCHANGED Abstract!vars
  <2>1. a = 0 \/ free_fault(a) # "none" BY <1>5 DEF Refusable, free_fault
  <2>. QED BY <1>2, <1>3, <1>5, <2>1
<1>6. ASSUME pmm_free(0) PROVE UNCHANGED Abstract!vars BY <1>2, <1>6
<1>. QED BY <1>4, <1>5, <1>6 DEF Free

(* The remaining steps are internal: carving, splitting, merging and the   *)
(* return of pmm_free leave the abstract allocator alone.                  *)
LEMMA InternalMaps ==
    ASSUME SaneBootMap(ram_regions), CoreInv, Calm, CoreInv', Calm',
           \/ carve \/ split \/ coalesce \/ free_return \/ Halted \/ UNCHANGED vars
    PROVE  UNCHANGED Abstract!vars
<1>1. CASE carve
  <2>1. pc = "carve" /\ pc' = pc /\ g_regions' = g_regions /\ live' = live
    BY <1>1 DEF carve
  <2>2. Sizes' = Sizes BY <2>1, ShapesStutter, SizesKept
  <2>. QED BY <2>1, <2>2, StatusBefore, StatusAfter, Stutters
<1>2. CASE split
  <2>1. pc = "split" /\ pc' \in {"split", "null dereference"} /\ live' = live
    BY <1>2 DEF split
  <2>2. pc' = "split"
    <3>1. ram_regions' = ram_regions BY <1>2 DEF split, boot_vars
    <3>2. SaneBootMap(ram_regions)' BY <3>1 DEF SaneBootMap
    <3>. QED BY <2>1, <3>2 DEF CoreInv, BookkeepingSound
  <2>3. Sizes' = Sizes BY <1>2, SplitShapes, SizesKept
  <2>. QED BY <2>1, <2>2, <2>3, StatusBefore, StatusAfter, Stutters
<1>3. CASE coalesce
  <2>1. /\ pc = "coalesce" /\ live' = live
        /\ \/ pc' = "coalesce"
           \/ panic' = "buddy not on free list"
    BY <1>3 DEF coalesce, KPANIC
  <2>2. pc' = "coalesce"
    <3>1. ram_regions' = ram_regions BY <1>3 DEF coalesce, boot_vars
    <3>2. SaneBootMap(ram_regions)' BY <3>1 DEF SaneBootMap
    <3>. QED BY <2>1, <3>2 DEF CoreInv, BookkeepingSound
  <2>3. Sizes' = Sizes BY <1>3, CoalesceShapes, SizesKept
  <2>. QED BY <2>1, <2>2, <2>3, StatusBefore, StatusAfter, Stutters
<1>4. CASE free_return
  <2>1. pc = "coalesce" /\ pc' = "idle" /\ live' = live BY <1>4 DEF free_return
  <2>2. Sizes' = Sizes BY <1>4, FreeReturnShapes, SizesKept
  <2>. QED BY <2>1, <2>2, StatusBefore, StatusAfter, Stutters
<1>5. CASE Halted \/ UNCHANGED vars
  <2>1. UNCHANGED vars BY <1>5 DEF Halted
  <2>2. Sizes' = Sizes /\ live' = live /\ Status' = Status /\ Failed' = Failed
    BY <2>1 DEF vars, Sizes, Status, Failed, BookkeepingSound, SaneBootMap
  <2>. QED BY <2>2, Stutters
<1>. QED BY <1>1, <1>2, <1>3, <1>4, <1>5

(* Every step maps to a step or a stutter.                                 *)
LEMMA StepMaps ==
    ASSUME SaneBootMap(ram_regions), CoreInv, HalvesInv, Calm, CoreInv', Calm', [Next]_vars
    PROVE  [Abstract!Next]_Abstract!vars
<1>1. CASE pmm_init BY <1>1, InitMaps
<1>2. CASE carve \/ split \/ coalesce \/ free_return \/ Halted \/ UNCHANGED vars
  BY <1>2, InternalMaps
<1>3. CASE link_region BY <1>3, LinkMaps
<1>4. CASE pmm_init_return
  <2>1. pc = "pmm_init" /\ pc' = "idle" /\ g_regions' = g_regions /\ live' = live
    BY <1>4 DEF pmm_init_return
  <2>2. Sizes' = Sizes BY <2>1, ShapesStutter, SizesKept
  <2>. QED BY <2>1, <2>2, StatusBefore, StatusAfter, Boots
<1>5. CASE Allocate BY <1>5, AllocateMaps
<1>6. CASE alloc_return BY <1>6, AllocReturnMaps
<1>7. CASE Free BY <1>7, FreeMaps
<1>. QED BY <1>1, <1>2, <1>3, <1>4, <1>5, <1>6, <1>7 DEF Next

(* ImplementsPageAllocator: for every boot map of disjoint regions below   *)
(* the last page, every behaviour of pmm.c is one of the abstract page     *)
(* allocator.  A block is returned only where no block in use lies, a call *)
(* of pmm_free releases exactly the block it was given, and "no free       *)
(* blocks" is reported only when no region has an aligned run of unused    *)
(* pages of the requested order.                                           *)
THEOREM RefinementTheorem ==
    Spec /\ SaneBootMap(ram_regions) => ImplementsPageAllocator
<1> DEFINE Sane == SaneBootMap(ram_regions)
<1>1. Init /\ Sane => Abstract!Init
  BY DEF Init, Abstract!Init, BookkeepingSound
<1>2. Init => Calm BY DEF Init, Calm
<1>3. Calm /\ [Next]_vars => Calm' BY CalmStep
<1>4. Sane /\ [Next]_vars => Sane' BY BootMapFixed DEF SaneBootMap
<1>5. /\ CoalescedInv /\ CoalescedInv' /\ Sane /\ Sane' /\ Calm /\ Calm' /\ [Next]_vars
      => [Abstract!Next]_Abstract!vars
  BY StepMaps DEF CoalescedInv
<1>. QED
  BY <1>1, <1>2, <1>3, <1>4, <1>5, CoalescedInvariant, PTL
     DEF Spec, ImplementsPageAllocator, Abstract!Spec

(***************************************************************************)
(* The managed pages are the whole pages of the reported RAM.              *)
(***************************************************************************)

(* The whole pages of an entry of the boot map, as pmm_add_region rounds.  *)
Lo(ram) == kalign_up(ram.base_address)
Hi(ram) == kalign_down((ram.base_address + ram.length) % ADDRESS_SPACE)

Spans(reg, ram) == reg.start = Lo(ram) /\ reg.end = Hi(ram)

(* Inductive together with CoreInv: pmm_init has made a region of every    *)
(* entry before current_ram that holds a whole page, and of nothing else.  *)
ManagedInv ==
    /\ pc = "carve" => Spans(region, ram_regions[current_ram])
    /\ \A r \in DOMAIN g_regions : \E i \in 1..(current_ram - 1) :
            Spans(g_regions[r], ram_regions[i])
    /\ \A i \in 1..(current_ram - 1) :
            \/ Hi(ram_regions[i]) <= Lo(ram_regions[i])
            \/ \E r \in DOMAIN g_regions : Spans(g_regions[r], ram_regions[i])
    /\ pc \notin {"pmm_init", "carve", "panic"} => current_ram = Len(ram_regions) + 1

(* Steps that leave the regions and the boot map's index alone.            *)
LEMMA ManagedKept ==
    ASSUME CoreInv, ManagedInv, SameShapes, UNCHANGED <<ram_regions, current_ram>>,
           pc' = "carve" => pc = "carve" /\ SameShape(region', region),
           pc' \notin {"pmm_init", "carve", "panic"} =>
              \/ pc \notin {"pmm_init", "carve", "panic"}
              \/ current_ram = Len(ram_regions) + 1
    PROVE  ManagedInv'
<1>1. \A r \in DOMAIN g_regions : \A i :
        Spans(g_regions'[r], ram_regions'[i]) <=> Spans(g_regions[r], ram_regions[i])
  BY DEF SameShapes, SameShape, Spans
<1>2. DOMAIN g_regions' = DOMAIN g_regions BY DEF SameShapes
<1>3. pc' = "carve" => Spans(region', ram_regions'[current_ram'])
  BY DEF ManagedInv, Spans, SameShape
<1>4. pc' \notin {"pmm_init", "carve", "panic"} => current_ram' = Len(ram_regions') + 1
  BY DEF ManagedInv
<1>5. \A i : /\ Hi(ram_regions'[i]) = Hi(ram_regions[i])
             /\ Lo(ram_regions'[i]) = Lo(ram_regions[i])
  OBVIOUS
<1>6. \A r \in DOMAIN g_regions' : \E i \in 1..(current_ram' - 1) :
        Spans(g_regions'[r], ram_regions'[i])
  BY <1>1, <1>2 DEF ManagedInv
<1>7. \A i \in 1..(current_ram' - 1) :
            \/ Hi(ram_regions'[i]) <= Lo(ram_regions'[i])
            \/ \E r \in DOMAIN g_regions' : Spans(g_regions'[r], ram_regions'[i])
  BY <1>1, <1>2, <1>5 DEF ManagedInv
<1>. QED BY <1>3, <1>4, <1>6, <1>7 DEF ManagedInv

(* pmm_add_region leaves an entry without a whole page, or starts a region *)
(* that spans the whole pages of its entry.                                *)
LEMMA ManagedInit ==
    ASSUME SaneBootMap(ram_regions), CoreInv, ManagedInv, pmm_init
    PROVE  ManagedInv'
<1> DEFINE ram == ram_regions[current_ram]
           base == ram.base_address
           length == ram.length
<1>1. /\ pc = "pmm_init" /\ current_ram <= Len(ram_regions) /\ TypeOK
      /\ UNCHANGED <<ram_regions, g_regions>>
  BY DEF CoreInv, pmm_init
<1>2. /\ current_ram \in DOMAIN ram_regions /\ current_ram \in Nat /\ 1 <= current_ram
  <2>1. /\ Len(ram_regions) \in Nat /\ DOMAIN ram_regions = 1..Len(ram_regions)
        /\ current_ram \in Nat /\ 1 <= current_ram
    BY <1>1, BootTypes
  <2>. QED BY <1>1, <2>1
<1>3. truncate(base) = base /\ truncate(length) = length BY <1>1, <1>2, SaneRam
<1>4. pmm_add_region(base, length) BY <1>3 DEF pmm_init
<1>5. \/ pc' = "panic" /\ current_ram' = current_ram
      \/ pc' = "pmm_init" /\ current_ram' = current_ram + 1 /\ Hi(ram) <= Lo(ram)
      \/ /\ pc' = "carve" /\ current_ram' = current_ram
         /\ \E n : region' = new_region(Lo(ram), Hi(ram), n)
  BY <1>1, <1>4 DEF pmm_add_region, KPANIC, skip_region, Lo, Hi
<1>6. CASE pc' = "panic" /\ current_ram' = current_ram
  BY <1>1, <1>6, ManagedKept, ShapesStutter
<1>7. CASE pc' = "pmm_init" /\ current_ram' = current_ram + 1 /\ Hi(ram) <= Lo(ram)
  <2>1. \A i \in 1..(current_ram' - 1) : i = current_ram \/ i \in 1..(current_ram - 1)
    BY <1>2, <1>7
  <2>2. \A i \in 1..(current_ram - 1) : i \in 1..(current_ram' - 1)
    BY <1>2, <1>7
  <2>3. \A r \in DOMAIN g_regions : \E i \in 1..(current_ram' - 1) :
            Spans(g_regions[r], ram_regions[i])
    BY <2>2 DEF ManagedInv
  <2>4. \A i \in 1..(current_ram' - 1) :
            \/ Hi(ram_regions[i]) <= Lo(ram_regions[i])
            \/ \E r \in DOMAIN g_regions : Spans(g_regions[r], ram_regions[i])
    BY <1>7, <2>1 DEF ManagedInv
  <2>. QED BY <1>1, <1>7, <2>3, <2>4 DEF ManagedInv
<1>8. CASE /\ pc' = "carve" /\ current_ram' = current_ram
           /\ \E n : region' = new_region(Lo(ram), Hi(ram), n)
  <2>1. region'.start = Lo(ram) /\ region'.end = Hi(ram) BY <1>8 DEF new_region
  <2>2. Spans(region', ram_regions'[current_ram']) BY <1>1, <1>8, <2>1 DEF Spans
  <2>. QED BY <1>1, <1>8, <2>2 DEF ManagedInv
<1>. QED BY <1>5, <1>6, <1>7, <1>8

(* The region of an entry is linked and the next entry is due.             *)
LEMMA ManagedLink ==
    ASSUME CoreInv, ManagedInv, link_region
    PROVE  ManagedInv'
<1> DEFINE k == Len(g_regions) + 1
<1>1. /\ pc = "carve" /\ pc' = "pmm_init" /\ current_ram' = current_ram + 1
      /\ g_regions' = Append(g_regions, region) /\ ram_regions' = ram_regions
      /\ TypeOK /\ current_ram <= Len(ram_regions)
  BY DEF link_region, CoreInv, ControlInv
<1>2. g_regions \in Seq(ToSet(g_regions)) BY <1>1 DEF TypeOK
<1>3. /\ DOMAIN g_regions' = 1..k
      /\ DOMAIN g_regions = 1..Len(g_regions) /\ Len(g_regions) \in Nat
      /\ g_regions'[k] = region
      /\ \A q \in DOMAIN g_regions : g_regions'[q] = g_regions[q]
  BY <1>1, <1>2, SeqAppend
<1>4. /\ k \in DOMAIN g_regions'
      /\ \A q \in DOMAIN g_regions' : q = k \/ q \in DOMAIN g_regions
      /\ \A q \in DOMAIN g_regions : q \in DOMAIN g_regions'
  BY <1>3
<1>5. current_ram \in Nat /\ 1 <= current_ram BY <1>1, BootTypes
<1>6. \A i \in 1..(current_ram' - 1) : i = current_ram \/ i \in 1..(current_ram - 1)
  BY <1>1, <1>5
<1>7. /\ current_ram \in 1..(current_ram' - 1)
      /\ \A i \in 1..(current_ram - 1) : i \in 1..(current_ram' - 1)
  BY <1>1, <1>5
<1>8. Spans(g_regions'[k], ram_regions[current_ram]) BY <1>1, <1>3 DEF ManagedInv
<1> HIDE DEF k
<1>9. \A r \in DOMAIN g_regions' : \E i \in 1..(current_ram' - 1) :
          Spans(g_regions'[r], ram_regions[i])
  BY <1>3, <1>4, <1>7, <1>8 DEF ManagedInv
<1>10. \A i \in 1..(current_ram' - 1) :
          \/ Hi(ram_regions[i]) <= Lo(ram_regions[i])
          \/ \E r \in DOMAIN g_regions' : Spans(g_regions'[r], ram_regions[i])
  BY <1>3, <1>4, <1>6, <1>8 DEF ManagedInv
<1>. QED BY <1>1, <1>9, <1>10 DEF ManagedInv

(* Carving moves blocks inside the region.                                 *)
LEMMA ManagedCarve ==
    ASSUME CoreInv, ManagedInv, carve
    PROVE  ManagedInv'
<1>1. /\ pc = "carve" /\ pc' = pc /\ UNCHANGED <<ram_regions, current_ram, g_regions>>
      /\ \E i, o, e : region' = add_to_region_freelist(set_block(region, i, e), i, o)
  BY DEF carve
<1>2. PICK i, o, e : region' = add_to_region_freelist(set_block(region, i, e), i, o) BY <1>1
<1> DEFINE t == set_block(region, i, e)
<1>3. Fields \subseteq DOMAIN region BY RegionFields DEF CoreInv, TypeOK
<1>4. SameShape(t, region) /\ Fields \subseteq DOMAIN t BY <1>3, ShapeKept
<1>5. region' = add_to_region_freelist(t, i, o) BY <1>2
<1> HIDE DEF t
<1>6. SameShape(region', t) BY <1>4, <1>5, ShapeKept
<1>7. SameShape(region', region) BY <1>4, <1>6 DEF SameShape
<1>. QED BY <1>1, <1>7, ManagedKept, ShapesStutter

(* The invariant is inductive.                                             *)
LEMMA ManagedStep ==
    ASSUME SaneBootMap(ram_regions), CoreInv, ManagedInv, [Next]_vars
    PROVE  ManagedInv'
<1>1. CASE pmm_init BY <1>1, ManagedInit
<1>2. CASE carve BY <1>2, ManagedCarve
<1>3. CASE link_region BY <1>3, ManagedLink
<1>4. CASE pmm_init_return
  <2>1. /\ pc' = "idle" /\ UNCHANGED <<ram_regions, current_ram, g_regions>>
        /\ current_ram > Len(ram_regions)
    BY <1>4 DEF pmm_init_return, boot_vars
  <2>2. current_ram = Len(ram_regions) + 1
    <3>1. TypeOK BY DEF CoreInv
    <3>2. /\ Len(ram_regions) \in Nat /\ current_ram \in Nat
          /\ current_ram <= Len(ram_regions) + 1
      BY <3>1, BootTypes
    <3>. QED BY <2>1, <3>2
  <2>. QED BY <2>1, <2>2, ManagedKept, ShapesStutter
<1>5. CASE Allocate
  <2>1. /\ pc = "idle" /\ pc' # "carve" /\ UNCHANGED <<ram_regions, current_ram>>
    BY <1>5 DEF Allocate, pmm_alloc_order, pmm_alloc_size, pmm_alloc_pages, KPANIC, boot_vars
  <2>. QED BY <1>5, <2>1, ManagedKept, AllocateShapes
<1>6. CASE split
  <2>1. /\ pc = "split" /\ pc' # "carve" /\ UNCHANGED <<ram_regions, current_ram>>
    BY <1>6 DEF split, boot_vars
  <2>. QED BY <1>6, <2>1, ManagedKept, SplitShapes
<1>7. CASE alloc_return
  <2>1. /\ pc = "split" /\ pc' # "carve" /\ UNCHANGED <<ram_regions, current_ram, g_regions>>
    BY <1>7 DEF alloc_return, boot_vars
  <2>. QED BY <2>1, ManagedKept, ShapesStutter
<1>8. CASE Free
  <2>1. /\ pc = "idle" /\ pc' # "carve" /\ UNCHANGED <<ram_regions, current_ram>>
    BY <1>8 DEF Free, pmm_free, KPANIC, boot_vars
  <2>. QED BY <1>8, <2>1, ManagedKept, FreeShapes
<1>9. CASE coalesce
  <2>1. /\ pc = "coalesce" /\ pc' # "carve" /\ UNCHANGED <<ram_regions, current_ram>>
    BY <1>9 DEF coalesce, KPANIC, boot_vars
  <2>. QED BY <1>9, <2>1, ManagedKept, CoalesceShapes
<1>10. CASE free_return
  <2>1. /\ pc = "coalesce" /\ pc' # "carve" /\ UNCHANGED <<ram_regions, current_ram>>
    BY <1>10 DEF free_return, boot_vars
  <2>. QED BY <1>10, <2>1, ManagedKept, FreeReturnShapes
<1>11. CASE Halted \/ UNCHANGED vars
  <2>1. UNCHANGED <<pc, region, ram_regions, current_ram, g_regions>>
    BY <1>11 DEF Halted, vars
  <2>. QED BY <2>1, ManagedKept, ShapesStutter DEF SameShape
<1>. QED BY <1>1, <1>2, <1>3, <1>4, <1>5, <1>6, <1>7, <1>8, <1>9, <1>10, <1>11 DEF Next

(* The rounding of pmm_add_region keeps every whole page.                  *)
LEMMA RoundsToPages ==
    ASSUME TypeOK, SaneBootMap(ram_regions), NEW i \in DOMAIN ram_regions,
           NEW base, base = ram_regions[i].base_address,
           NEW length, length = ram_regions[i].length,
           NEW n \in Nat, base <= n * PAGE_SIZE, n * PAGE_SIZE + PAGE_SIZE <= base + length
    PROVE  Lo(ram_regions[i]) <= n * PAGE_SIZE /\ n * PAGE_SIZE + PAGE_SIZE <= Hi(ram_regions[i])
<1>1. base \in Nat /\ length \in Nat /\ (base + length) % ADDRESS_SPACE = base + length
  BY SaneRam
<1>2. base + length <= ADDRESS_SPACE - PAGE_SIZE BY DEF SaneBootMap
<1>3. ADDRESS_SPACE \in Nat /\ PAGE_SIZE = 4096 /\ ADDRESS_SPACE > 4096
  BY PmmAssumption, EmmAssumption DEF PAGE_SIZE
<1>4. base + PAGE_SIZE - 1 \in Nat /\ base + PAGE_SIZE - 1 < ADDRESS_SPACE
  BY <1>1, <1>2, <1>3
<1>5. (base + PAGE_SIZE - 1) % ADDRESS_SPACE = base + PAGE_SIZE - 1
  BY <1>3, <1>4, ModSmall
<1>6. /\ Lo(ram_regions[i]) = (base + PAGE_SIZE - 1) - ((base + PAGE_SIZE - 1) % PAGE_SIZE)
      /\ Hi(ram_regions[i]) = (base + length) - ((base + length) % PAGE_SIZE)
  BY <1>1, <1>5 DEF Lo, Hi, kalign_up, kalign_down
<1>7. Lo(ram_regions[i]) <= n * PAGE_SIZE BY <1>1, <1>3, <1>6
<1>8. n * PAGE_SIZE + PAGE_SIZE <= Hi(ram_regions[i]) BY <1>1, <1>3, <1>6
<1>. QED BY <1>7, <1>8

(* The regions and the entries of the boot map have the same pages.        *)
LEMMA ManagedByInv ==
    ASSUME SaneBootMap(ram_regions), CoreInv, ManagedInv, pc = "idle"
    PROVE  ManagedPages = WholePagesOf(ram_regions)
<1>1. TypeOK /\ current_ram = Len(ram_regions) + 1 BY DEF CoreInv, ManagedInv
<1>2. /\ Len(ram_regions) \in Nat /\ DOMAIN ram_regions = 1..Len(ram_regions)
  BY <1>1, BootTypes
<1>3. 1..(current_ram - 1) = DOMAIN ram_regions BY <1>1, <1>2
<1>4. PAGE_SIZE = 4096 /\ ADDRESS_SPACE \in Nat /\ ADDRESS_SPACE % 4096 = 0
  BY PmmAssumption, EmmAssumption DEF PAGE_SIZE
<1>5. ASSUME NEW r \in DOMAIN g_regions, NEW i \in 0..(g_regions[r].block_pool_size - 1)
      PROVE  AddressOf(r, i) \in WholePagesOf(ram_regions)
  <2> DEFINE reg == g_regions[r]
             p == AddressOf(r, i)
             n == p \div PAGE_SIZE
  <2>1. PICK j \in DOMAIN ram_regions : Spans(reg, ram_regions[j])
    BY <1>3 DEF ManagedInv
  <2> DEFINE base == ram_regions[j].base_address
             length == ram_regions[j].length
  <2>2. /\ base \in Nat /\ length \in Nat /\ base <= reg.start /\ reg.end <= base + length
        /\ base + length < ADDRESS_SPACE
    BY <1>1, <2>1, SaneRam DEF Spans, Lo, Hi
  <2>3. /\ reg.start \in Nat /\ reg.start % PAGE_SIZE = 0 /\ reg.block_pool_size \in Nat
        /\ reg.end = reg.start + reg.block_pool_size * PAGE_SIZE
    BY <1>1 DEF TypeOK, IsRegion
  <2>4. p = reg.start + i * PAGE_SIZE /\ i \in Nat /\ i + 1 <= reg.block_pool_size
    BY <2>3 DEF AddressOf
  <2> HIDE DEF p, reg
  <2>5. /\ p \in Nat /\ p % PAGE_SIZE = 0 /\ reg.start <= p /\ p + PAGE_SIZE <= reg.end
    BY <1>4, <2>3, <2>4
  <2>6. n \in Nat /\ p = n * PAGE_SIZE BY <1>4, <2>5
  <2> HIDE DEF n
  <2>7. n \in 0..((ADDRESS_SPACE \div PAGE_SIZE) - 1)
    BY <1>4, <2>2, <2>3, <2>5, <2>6
  <2>8. base <= p /\ p + PAGE_SIZE <= base + length
    BY <1>4, <2>2, <2>3, <2>5
  <2>. QED BY <2>6, <2>7, <2>8 DEF WholePagesOf, AllPages, p
<1>6. ASSUME NEW p \in WholePagesOf(ram_regions) PROVE p \in ManagedPages
  <2>1. PICK n \in 0..((ADDRESS_SPACE \div PAGE_SIZE) - 1), j \in DOMAIN ram_regions :
          /\ p = n * PAGE_SIZE /\ ram_regions[j].base_address <= p
          /\ p + PAGE_SIZE <= ram_regions[j].base_address + ram_regions[j].length
    BY DEF WholePagesOf, AllPages
  <2>2. n \in Nat OBVIOUS
  <2>3. Lo(ram_regions[j]) <= p /\ p + PAGE_SIZE <= Hi(ram_regions[j])
    BY <1>1, <2>1, <2>2, RoundsToPages
  <2>4. Lo(ram_regions[j]) \in Nat /\ Hi(ram_regions[j]) \in Nat
    BY <1>1, SaneRam DEF Lo, Hi
  <2>5. PICK r \in DOMAIN g_regions : Spans(g_regions[r], ram_regions[j])
    BY <1>3, <1>4, <2>1, <2>2, <2>3, <2>4 DEF ManagedInv
  <2> DEFINE reg == g_regions[r]
             i == (p - reg.start) \div PAGE_SIZE
  <2>6. reg.start <= p /\ p + PAGE_SIZE <= reg.end BY <2>3, <2>5 DEF Spans
  <2>7. /\ reg.start \in Nat /\ reg.start % PAGE_SIZE = 0 /\ reg.block_pool_size \in Nat
        /\ reg.end = reg.start + reg.block_pool_size * PAGE_SIZE
    BY <1>1 DEF TypeOK, IsRegion
  <2>8. /\ i \in 0..(reg.block_pool_size - 1) /\ p = reg.start + i * PAGE_SIZE
    <3> HIDE DEF reg
    <3>. QED BY <1>4, <2>1, <2>2, <2>6, <2>7
  <2> HIDE DEF i
  <2>. QED BY <2>8 DEF ManagedPages, AddressOf
<1>. QED BY <1>5, <1>6 DEF ManagedPages

(* RAM has a part in a page that it fills.                                 *)
LEMMA WholeIsPart ==
    ASSUME TypeOK, SaneBootMap(ram_regions)
    PROVE  WholePagesOf(ram_regions) \subseteq PagesOf(ram_regions)
<1> SUFFICES ASSUME NEW p \in WholePagesOf(ram_regions) PROVE p \in PagesOf(ram_regions)
  OBVIOUS
<1>1. PICK i \in DOMAIN ram_regions :
        /\ ram_regions[i].base_address <= p
        /\ p + PAGE_SIZE <= ram_regions[i].base_address + ram_regions[i].length
  BY DEF WholePagesOf
<1>2. p \in AllPages BY DEF WholePagesOf
<1>3. ram_regions[i].base_address \in Nat /\ ram_regions[i].length \in Nat
  BY <1>1, SaneRam
<1>4. p \in Nat /\ PAGE_SIZE = 4096 BY <1>2, PmmAssumption, EmmAssumption DEF AllPages, PAGE_SIZE
<1>. QED BY <1>1, <1>2, <1>3, <1>4 DEF PagesOf

(* ManagedIsRam: after pmm_init the regions have every whole page of the   *)
(* RAM the boot loader reported and no page without RAM, for every boot    *)
(* map of disjoint entries below the last page, and no later call changes  *)
(* that.                                                                   *)
THEOREM ManagedTheorem == Spec => []ManagedIsRam
<1> DEFINE Managed == SaneBootMap(ram_regions) => ManagedInv
<1>1. Init => Managed
  <2>1. ASSUME Init PROVE ManagedInv BY <2>1 DEF Init, ManagedInv
  <2>. QED BY <2>1
<1>2. Managed /\ CoalescedInv /\ [Next]_vars => Managed'
  <2> SUFFICES ASSUME Managed, CoalescedInv, [Next]_vars, SaneBootMap(ram_regions)'
               PROVE  ManagedInv'
    OBVIOUS
  <2>1. SaneBootMap(ram_regions) BY BootMapFixed DEF SaneBootMap
  <2>. QED BY <2>1, ManagedStep DEF CoalescedInv
<1>3. Managed /\ CoalescedInv => ManagedIsRam
  <2>1. ASSUME ~SaneBootMap(ram_regions) PROVE ManagedIsRam BY <2>1 DEF ManagedIsRam
  <2>2. ASSUME SaneBootMap(ram_regions), Managed, CoalescedInv, pc = "idle"
        PROVE  /\ WholePagesOf(ram_regions) \subseteq ManagedPages
               /\ ManagedPages \subseteq PagesOf(ram_regions)
    BY <2>2, ManagedByInv, WholeIsPart DEF CoalescedInv, CoreInv
  <2>. QED BY <2>1, <2>2 DEF ManagedIsRam
<1> HIDE DEF Managed
<1>. QED BY <1>1, <1>2, <1>3, CoalescedInvariant, PTL DEF Spec
=============================================================================
