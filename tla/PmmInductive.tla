---------------------------- MODULE PmmInductive ----------------------------
(***************************************************************************)
(* The inductive invariant of the physical memory manager.  Its heart is   *)
(* RegionInv: at every step, the blocks of a region, wherever they are     *)
(* kept, tile the part of the region that has been carved, and the block   *)
(* pool describes each of them correctly.  The pool entries of pages that  *)
(* are inside a block are stale and the invariant says nothing of them;    *)
(* the proof shows that the code never acts on one.                        *)
(***************************************************************************)
EXTENDS Pmm

(* The first page after a block.                                           *)
EndOf(b) == b.block + BLOCK_COUNT(b.order)

Covers(b, i) == b.block <= i /\ i < EndOf(b)

Apart(b, c) == EndOf(b) <= c.block \/ EndOf(c) <= b.block

(* The blocks cut the pages 0..limit-1 into aligned runs.                  *)
Tiling(blocks, limit) ==
    /\ \A b \in blocks : b.block % BLOCK_COUNT(b.order) = 0 /\ EndOf(b) <= limit
    /\ \A b, c \in blocks : b # c => Apart(b, c)
    /\ \A i \in 0..(limit - 1) : \E b \in blocks : Covers(b, i)

ListsInjective(reg) == \A o \in Orders : IsInjective(reg.free_lists[o])

(* `out' are the blocks of region number r marked as not free, `merging'   *)
(* the one that pmm_free is coalescing: marked as free, but on no list.    *)
RegionInv(r, reg, out, merging, limit) ==
    LET free == FreeBlocksOf(r, reg)
    IN  /\ Tiling(free \cup out \cup merging, limit)
        /\ free \cap merging = {}
        /\ ListsInjective(reg)
        /\ \A b \in free \cup merging : reg.block_pool[b.block] = FreeEntry(b.order)
        /\ \A b \in out : reg.block_pool[b.block] = UsedEntry(b.order)

(* With the types: a region whose first `limit' pages have been carved.    *)
GoodRegion(r, reg, out, merging, limit) ==
    /\ r \in Nat
    /\ IsRegion(reg)
    /\ out \subseteq Blocks
    /\ merging \subseteq Blocks
    /\ \A b \in out \cup merging : b.region = r
    /\ limit \in 0..reg.block_pool_size
    /\ RegionInv(r, reg, out, merging, limit)

Out == live \cup (IF pc = "split" THEN {hand} ELSE {})
Merging == IF pc = "coalesce" THEN {hand} ELSE {}

Within(blocks, r) == { b \in blocks : b.region = r }

(* Facts about the control state that the types alone do not give.         *)
ControlInv ==
    /\ pc \in {"pmm_init", "carve"} => live = {}
    /\ pc = "pmm_init" => offset = 0
    /\ pc = "carve" => current_ram <= Len(ram_regions)
    /\ pc \in {"split", "coalesce"} => hand.region \in DOMAIN g_regions
    /\ pc \in {"split", "coalesce"} => hand \notin live
    /\ pc = "split" => target_order <= hand.order
    /\ \A b \in live : b.region \in DOMAIN g_regions

(* Each region lies inside one entry of the boot map, a different one each.*)
Inside(reg, ram) ==
    /\ ram.base_address <= reg.start
    /\ reg.end <= ram.base_address + ram.length

RegionsFromMap ==
    \A r \in DOMAIN g_regions : \E i \in 1..(current_ram - 1) :
        Inside(g_regions[r], ram_regions[i])

RegionsApart ==
    \A q, r \in DOMAIN g_regions :
        q # r => \/ g_regions[q].end <= g_regions[r].start
                 \/ g_regions[r].end <= g_regions[q].start

CarvedRegion ==
    pc = "carve" =>
        /\ GoodRegion(Len(g_regions) + 1, region, {}, {}, offset)
        /\ Inside(region, ram_regions[current_ram])

LinkedRegions ==
    \A r \in DOMAIN g_regions :
        GoodRegion(r, g_regions[r], Within(Out, r), Within(Merging, r),
                   g_regions[r].block_pool_size)

CoreInv ==
    /\ TypeOK
    /\ ControlInv
    /\ RegionsFromMap
    /\ RegionsApart
    /\ CarvedRegion
    /\ LinkedRegions
    /\ BookkeepingSound

(* Inductive: every step of Spec preserves it, for every boot map whose    *)
(* regions are disjoint and end below the last page of the address space.  *)
PmmInv == SaneBootMap(ram_regions) => CoreInv
=============================================================================
