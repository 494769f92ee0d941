------------------------------ MODULE PmmProofs ------------------------------
(***************************************************************************)
(* The inductive invariant of the physical memory manager and the theorems *)
(* that follow from it.  One lemma per action shows that the action        *)
(* preserves CoreInv; StepPreserves combines them.                         *)
(***************************************************************************)
EXTENDS PmmLemmas

(***************************************************************************)
(* The list of regions.                                                    *)
(***************************************************************************)

(* A function on 1..n is a sequence.                                       *)
LEMMA SeqIntro ==
    ASSUME NEW T, NEW n \in Nat, NEW g \in [1..n -> T]
    PROVE  g \in Seq(T)
OBVIOUS

(* A sequence is a function on 1..Len.                                     *)
LEMMA SeqElim ==
    ASSUME NEW T, NEW g \in Seq(T)
    PROVE  g \in [1..Len(g) -> T] /\ Len(g) \in Nat
OBVIOUS

(* Changing one region of the list leaves the other regions and the length *)
(* alone.                                                                  *)
LEMMA SeqUpdate ==
    ASSUME NEW f, f \in Seq(ToSet(f)), NEW r \in DOMAIN f, NEW x,
           NEW g, g = [f EXCEPT ![r] = x]
    PROVE  /\ g \in Seq(ToSet(g))
           /\ DOMAIN g = DOMAIN f
           /\ Len(g) = Len(f)
           /\ DOMAIN f = 1..Len(f) /\ Len(f) \in Nat
           /\ g[r] = x
           /\ \A q \in DOMAIN f : q # r => g[q] = f[q]
<1>1. DOMAIN f = 1..Len(f) /\ Len(f) \in Nat /\ f \in [1..Len(f) -> ToSet(f)]
  OBVIOUS
<1>2. DOMAIN g = 1..Len(f) /\ g[r] = x /\ \A q \in DOMAIN f : q # r => g[q] = f[q]
  BY <1>1
<1>3. g = [i \in 1..Len(f) |-> g[i]] BY <1>1
<1>4. g \in [1..Len(f) -> ToSet(g)]
  BY <1>2, <1>3 DEF ToSet
<1>5. g \in Seq(ToSet(g)) BY <1>1, <1>4, SeqIntro
<1>. QED BY <1>1, <1>2, <1>4, <1>5

(* Linking a region at the end leaves the regions before it alone.         *)
LEMMA SeqAppend ==
    ASSUME NEW f, f \in Seq(ToSet(f)), NEW x, NEW g, g = Append(f, x)
    PROVE  /\ g \in Seq(ToSet(g))
           /\ Len(g) = Len(f) + 1
           /\ DOMAIN g = 1..(Len(f) + 1) /\ DOMAIN f = 1..Len(f) /\ Len(f) \in Nat
           /\ g[Len(f) + 1] = x
           /\ \A q \in DOMAIN f : g[q] = f[q]
<1> DEFINE S == ToSet(f) \cup {x}
<1>1. f \in Seq(S) /\ x \in S
  <2>1. f \in [1..Len(f) -> ToSet(f)] /\ Len(f) \in Nat OBVIOUS
  <2>2. f \in [1..Len(f) -> S] BY <2>1
  <2>. QED BY <2>1, <2>2, SeqDef
<1>2. /\ g \in Seq(S) /\ Len(g) = Len(f) + 1
      /\ \A i \in 1..Len(f) : g[i] = f[i]
      /\ g[Len(f) + 1] = x
  BY <1>1, AppendProperties
<1>3. DOMAIN g = 1..(Len(f) + 1) /\ DOMAIN f = 1..Len(f) /\ Len(f) \in Nat
  BY <1>1, <1>2
<1>4. g \in [1..(Len(f) + 1) -> ToSet(g)]
  <2> HIDE DEF S
  <2>1. g \in [1..Len(g) -> S] BY <1>2, SeqElim
  <2>2. \A i \in 1..Len(g) : g[i] \in ToSet(g) BY <2>1 DEF ToSet
  <2>3. g \in [1..Len(g) -> ToSet(g)] BY <2>1, <2>2
  <2>. QED BY <2>3, <1>2
<1>5. g \in Seq(ToSet(g))
  <2>1. Len(f) + 1 \in Nat BY <1>3
  <2>. QED BY <2>1, <1>4, SeqIntro
<1>. QED BY <1>2, <1>3, <1>5

(* An operation on one region that keeps it good and its shape keeps every *)
(* invariant about the list of regions.                                    *)
LEMMA RegionStep ==
    ASSUME CoreInv, NEW r \in DOMAIN g_regions, NEW s,
           SameShape(s, g_regions[r]),
           g_regions' = [g_regions EXCEPT ![r] = s],
           current_ram' = current_ram, ram_regions' = ram_regions,
           GoodRegion(r, s, Within(Out', r), Within(Merging', r), g_regions[r].block_pool_size),
           \A q \in DOMAIN g_regions : q # r => /\ Within(Out', q) = Within(Out, q)
                                                 /\ Within(Merging', q) = Within(Merging, q)
    PROVE  /\ g_regions' \in Seq(ToSet(g_regions'))
           /\ DOMAIN g_regions' = DOMAIN g_regions
           /\ \A q \in DOMAIN g_regions' : IsRegion(g_regions'[q])
           /\ RegionsFromMap' /\ RegionsApart' /\ LinkedRegions'
<1>1. g_regions \in Seq(ToSet(g_regions)) BY DEF CoreInv, TypeOK
<1>2. /\ g_regions' \in Seq(ToSet(g_regions'))
      /\ DOMAIN g_regions' = DOMAIN g_regions
      /\ g_regions'[r] = s
      /\ \A q \in DOMAIN g_regions : q # r => g_regions'[q] = g_regions[q]
  BY <1>1, SeqUpdate
<1>3. \A q \in DOMAIN g_regions : SameShape(g_regions'[q], g_regions[q])
  BY <1>2 DEF SameShape
<1>4. \A q \in DOMAIN g_regions' : IsRegion(g_regions'[q])
  BY <1>2 DEF CoreInv, TypeOK, GoodRegion
<1>5. RegionsFromMap'
  BY <1>2, <1>3 DEF CoreInv, RegionsFromMap, Inside, SameShape
<1>6. RegionsApart'
  BY <1>2, <1>3 DEF CoreInv, RegionsApart, SameShape
<1>7. LinkedRegions'
  <2>1. SUFFICES ASSUME NEW q \in DOMAIN g_regions
                 PROVE  GoodRegion(q, g_regions'[q], Within(Out', q), Within(Merging', q),
                                   g_regions'[q].block_pool_size)
    BY <1>2 DEF LinkedRegions
  <2>2. CASE q = r BY <2>2, <1>2 DEF SameShape
  <2>3. CASE q # r BY <2>3, <1>2 DEF CoreInv, LinkedRegions
  <2>. QED BY <2>2, <2>3
<1>. QED BY <1>2, <1>4, <1>5, <1>6, <1>7

(***************************************************************************)
(* Addresses.                                                              *)
(***************************************************************************)

(* The remainder of a value below the modulus: address arithmetic that     *)
(* does not wrap.                                                          *)
LEMMA ModSmall ==
    ASSUME NEW x \in Nat, NEW n \in Nat, x < n
    PROVE  x % n = x
OBVIOUS

(* An aligned value is a whole number of pages.                            *)
LEMMA DivPages ==
    ASSUME NEW x \in Nat, x % PAGE_SIZE = 0
    PROVE  /\ x \div PAGE_SIZE \in Nat
           /\ (x \div PAGE_SIZE) * PAGE_SIZE = x
BY DEF PAGE_SIZE

(* The pool index that pmm_free computes from a page's offset.             *)
LEMMA DivBlock ==
    ASSUME NEW x \in Nat
    PROVE  (x * PAGE_SIZE) \div PAGE_SIZE = x /\ (x * PAGE_SIZE) % PAGE_SIZE = 0
BY DEF PAGE_SIZE

(* A smaller region has no more pages.                                     *)
LEMMA DivMonotone ==
    ASSUME NEW x \in Nat, NEW y \in Nat, x <= y
    PROVE  x \div PAGE_SIZE <= y \div PAGE_SIZE
BY DEF PAGE_SIZE

(* For a region of a sane boot map the address arithmetic of pmm_init and  *)
(* pmm_add_region does not wrap and aligns inwards.                        *)
LEMMA SaneRam ==
    ASSUME TypeOK, SaneBootMap(ram_regions), NEW i \in DOMAIN ram_regions,
           NEW base, base = ram_regions[i].base_address,
           NEW length, length = ram_regions[i].length,
           NEW lo, lo = kalign_up(base),
           NEW hi, hi = kalign_down((base + length) % ADDRESS_SPACE)
    PROVE  /\ base \in Nat /\ length \in Nat
           /\ truncate(base) = base
           /\ truncate(length) = length
           /\ (base + length) % ADDRESS_SPACE = base + length
           /\ lo \in Nat /\ hi \in Nat
           /\ lo % PAGE_SIZE = 0 /\ hi % PAGE_SIZE = 0
           /\ base <= lo /\ hi <= base + length
           /\ base + length < ADDRESS_SPACE
<1>1. ram_regions \in Seq([base_address : Nat, length : Nat])
  BY PmmAssumption DEF TypeOK
<1>2. base \in Nat /\ length \in Nat
  <2>1. ram_regions[i] \in [base_address : Nat, length : Nat]
    BY <1>1, SeqElim
  <2>. QED BY <2>1
<1>3. base + length <= ADDRESS_SPACE - PAGE_SIZE BY DEF SaneBootMap
<1>4. ADDRESS_SPACE \in Nat /\ PAGE_SIZE = 4096 /\ ADDRESS_SPACE > 4096
  BY PmmAssumption, EmmAssumption DEF PAGE_SIZE
<1>5. /\ base < ADDRESS_SPACE /\ length < ADDRESS_SPACE
      /\ base + length < ADDRESS_SPACE /\ base + length \in Nat
      /\ base + PAGE_SIZE - 1 < ADDRESS_SPACE /\ base + PAGE_SIZE - 1 \in Nat
  BY <1>2, <1>3, <1>4
<1>6. /\ base % ADDRESS_SPACE = base
      /\ length % ADDRESS_SPACE = length
      /\ (base + length) % ADDRESS_SPACE = base + length
      /\ (base + PAGE_SIZE - 1) % ADDRESS_SPACE = base + PAGE_SIZE - 1
  BY <1>2, <1>4, <1>5, ModSmall, SMTT(30)
<1>7. /\ lo = (base + PAGE_SIZE - 1) - ((base + PAGE_SIZE - 1) % PAGE_SIZE)
      /\ hi = (base + length) - ((base + length) % PAGE_SIZE)
  BY <1>6 DEF kalign_up, kalign_down
<1>8. /\ lo \in Nat /\ lo % PAGE_SIZE = 0 /\ base <= lo
  BY <1>2, <1>4, <1>7
<1>9. hi \in Nat /\ hi % PAGE_SIZE = 0 /\ hi <= base + length
  <2> DEFINE top == base + length
  <2>1. top \in Nat /\ hi = top - (top % PAGE_SIZE) BY <1>5, <1>7
  <2> HIDE DEF top
  <2>2. hi \in Nat /\ hi % PAGE_SIZE = 0 /\ hi <= top BY <2>1, <1>4
  <2>. QED BY <2>2 DEF top
<1>. QED BY <1>2, <1>5, <1>6, <1>8, <1>9 DEF truncate

(* A region fresh from pmm_add_region's first half is good with nothing    *)
(* carved.                                                                 *)
LEMMA NewRegion ==
    ASSUME NEW r \in Nat, NEW lo \in Nat, NEW hi \in Nat,
           lo % PAGE_SIZE = 0, hi % PAGE_SIZE = 0, lo < hi,
           NEW n, n = (hi - lo) \div PAGE_SIZE,
           NEW reg, reg = new_region(lo, hi, n)
    PROVE  /\ GoodRegion(r, reg, {}, {}, 0)
           /\ reg.start = lo /\ reg.end = hi /\ reg.block_pool_size = n
           /\ n \in Nat
<1>1. hi - lo \in Nat /\ (hi - lo) % PAGE_SIZE = 0 BY DEF PAGE_SIZE
<1>2. n \in Nat /\ n * PAGE_SIZE = hi - lo BY <1>1, DivPages
<1>3. /\ reg.start = lo /\ reg.end = hi /\ reg.block_pool_size = n
      /\ reg.block_pool = [i \in 0..(n - 1) |-> FreeEntry(0)]
      /\ reg.free_lists = [o \in Orders |-> <<>>]
      /\ reg = [start |-> reg.start, end |-> reg.end,
                block_pool_size |-> reg.block_pool_size,
                block_pool |-> reg.block_pool, free_lists |-> reg.free_lists]
  BY DEF new_region
<1>4. 0 \in Orders BY PmmAssumption DEF Orders
<1>5. reg.block_pool \in [0..(n - 1) -> PageEntry]
  BY <1>3, <1>4, Entries
<1>6. reg.free_lists \in [Orders -> Seq(0..(n - 1))]
  <2>1. <<>> \in Seq(0..(n - 1)) OBVIOUS
  <2>. QED BY <2>1, <1>3
<1>7. n * PAGE_SIZE \in Nat /\ reg.end = reg.start + reg.block_pool_size * PAGE_SIZE
  BY <1>2, <1>3
<1>8. IsRegion(reg) BY <1>2, <1>3, <1>5, <1>6, <1>7 DEF IsRegion
<1>9. FreeBlocksOf(r, reg) = {}
  BY <1>3, FreeBlocksMember DEF ToSet
<1>10. RegionInv(r, reg, {}, {}, 0)
  <2>1. Tiling({}, 0) BY DEF Tiling
  <2>2. ListsInjective(reg) BY <1>3 DEF ListsInjective, IsInjective
  <2>. QED BY <2>1, <2>2, <1>9 DEF RegionInv
<1>. QED BY <1>2, <1>3, <1>8, <1>10 DEF GoodRegion

(***************************************************************************)
(* Allocation and release.                                                 *)
(***************************************************************************)

(* The split loop preserves the invariant.                                 *)
LEMMA SplitStep ==
    ASSUME SaneBootMap(ram_regions), CoreInv, split
    PROVE  CoreInv'
<1> DEFINE r == hand.region
           reg == g_regions[r]
           o == hand.order - 1
           i == split_buddy(hand.block, o)
           low == [hand EXCEPT !.order = o]
           t == set_block(reg, hand.block,
                  [order |-> o, is_free |-> reg.block_pool[hand.block].is_free])
           u == set_block(t, i, FreeEntry(o))
           s == add_to_region_freelist(u, i, o)
           out == Within(Out, r)
<1>1. /\ pc = "split" /\ r \in DOMAIN g_regions /\ hand \in Blocks /\ hand \notin live
      /\ hand.order > target_order /\ target_order \in Nat /\ hand.order \in Nat
  <2>1. /\ pc = "split" /\ hand \in Blocks /\ target_order \in Orders
        /\ hand.order > target_order
    BY DEF CoreInv, TypeOK, split
  <2>2. target_order \in Nat BY <2>1, PmmAssumption DEF Orders
  <2>3. hand.order \in Nat BY <2>1, BlockFacts
  <2>. QED BY <2>1, <2>2, <2>3 DEF CoreInv, ControlInv
<1>2. hand \in out /\ hand.order > 0
  BY <1>1 DEF Out, Within
<1>3. Within(Merging, r) = {} BY <1>1 DEF Merging, Within
<1>4. GoodRegion(r, reg, out, {}, reg.block_pool_size)
  BY <1>1, <1>3 DEF CoreInv, LinkedRegions
<1>5. /\ HasBlock(reg, i)
      /\ GoodRegion(r, s, (out \ {hand}) \cup {low}, {}, reg.block_pool_size)
      /\ SameShape(s, reg)
      /\ low \in Blocks
      /\ low \notin out
  <2> HIDE DEF reg, out, r
  <2>. QED BY <1>2, <1>4, RegionSplit
<1>6. /\ g_regions' = [g_regions EXCEPT ![r] = s]
      /\ hand' = low
      /\ pc' = "split" /\ target_order' = target_order /\ panic' = panic /\ live' = live
      /\ UNCHANGED boot_vars
  BY <1>1, <1>5 DEF split
<1> HIDE DEF s, i, t, u
<1>7. low.region = r /\ low.order = o /\ o \in Nat /\ target_order <= o
  BY <1>1, <1>2, BlockFacts
<1> HIDE DEF low
<1>8. /\ Within(Out', r) = (out \ {hand}) \cup {low}
      /\ Within(Merging', r) = {}
      /\ \A q \in DOMAIN g_regions : q # r => /\ Within(Out', q) = Within(Out, q)
                                              /\ Within(Merging', q) = Within(Merging, q)
  BY <1>1, <1>6, <1>7 DEF Out, Merging, Within
<1>9. /\ g_regions' \in Seq(ToSet(g_regions'))
      /\ DOMAIN g_regions' = DOMAIN g_regions
      /\ \A q \in DOMAIN g_regions' : IsRegion(g_regions'[q])
      /\ RegionsFromMap' /\ RegionsApart' /\ LinkedRegions'
  <2>1. current_ram' = current_ram /\ ram_regions' = ram_regions
    BY <1>6 DEF boot_vars
  <2> HIDE DEF r, out
  <2>. QED BY <1>1, <1>5, <1>6, <1>8, <2>1, RegionStep DEF reg
<1>10. TypeOK'
  BY <1>1, <1>5, <1>6, <1>9 DEF CoreInv, TypeOK, boot_vars
<1>11. ControlInv'
  <2>1. low \notin live BY <1>5, <1>7 DEF Out, Within
  <2>. QED BY <2>1, <1>1, <1>6, <1>7, <1>9 DEF CoreInv, ControlInv, boot_vars
<1>12. CarvedRegion' BY <1>6 DEF CarvedRegion
<1>13. BookkeepingSound' BY <1>1, <1>6 DEF CoreInv, BookkeepingSound, boot_vars
<1>. QED BY <1>9, <1>10, <1>11, <1>12, <1>13 DEF CoreInv

(* The return of pmm_alloc_order preserves the invariant: the block that   *)
(* was held becomes live.                                                  *)
LEMMA AllocReturnStep ==
    ASSUME SaneBootMap(ram_regions), CoreInv, alloc_return
    PROVE  CoreInv'
<1>1. /\ pc = "split" /\ hand.region \in DOMAIN g_regions /\ hand \in Blocks
      /\ live' = live \cup {hand} /\ pc' = "idle" /\ hand' = NoBlock /\ target_order' = 0
      /\ g_regions' = g_regions /\ panic' = panic /\ UNCHANGED boot_vars
  BY DEF CoreInv, TypeOK, ControlInv, alloc_return
<1>2. Out' = Out /\ Merging' = {} /\ Merging = {}
  BY <1>1 DEF Out, Merging
<1>3. NoBlock \in Blocks /\ 0 \in Orders
  BY PmmAssumption DEF NoBlock, Blocks, Orders
<1>4. TypeOK' BY <1>1, <1>3 DEF CoreInv, TypeOK, boot_vars
<1>5. ControlInv' BY <1>1 DEF CoreInv, ControlInv, boot_vars
<1>6. RegionsFromMap' /\ RegionsApart' /\ CarvedRegion' /\ LinkedRegions'
  BY <1>1, <1>2 DEF CoreInv, RegionsFromMap, RegionsApart, CarvedRegion, LinkedRegions, boot_vars
<1>7. BookkeepingSound' BY <1>1 DEF CoreInv, BookkeepingSound, boot_vars
<1>. QED BY <1>4, <1>5, <1>6, <1>7 DEF CoreInv

(* The coalescing loop preserves the invariant.                            *)
LEMMA CoalesceStep ==
    ASSUME SaneBootMap(ram_regions), CoreInv, coalesce
    PROVE  CoreInv'
<1> DEFINE r == hand.region
           reg == g_regions[r]
           i == get_buddy_block(hand.block, hand.order)
           m == [hand EXCEPT !.block = merged_block(hand.block, i), !.order = hand.order + 1]
           t == remove_from_region_freelist(reg, i, hand.order)
           u == set_block(t, i, UsedEntry(hand.order))
           s == set_block(u, merged_block(hand.block, i), FreeEntry(hand.order + 1))
           out == Within(Out, r)
<1>1. /\ pc = "coalesce" /\ r \in DOMAIN g_regions /\ hand \in Blocks /\ hand \notin live
      /\ CanMerge(reg, hand.block, hand.order)
  BY DEF CoreInv, TypeOK, ControlInv, coalesce
<1>2. Within(Merging, r) = {hand} BY <1>1 DEF Merging, Within
<1>3. GoodRegion(r, reg, out, {hand}, reg.block_pool_size)
  BY <1>1, <1>2 DEF CoreInv, LinkedRegions
<1>4. /\ Contains(reg.free_lists[hand.order], i)
      /\ GoodRegion(r, s, out, {m}, reg.block_pool_size)
      /\ SameShape(s, reg)
      /\ m \in Blocks
      /\ m \notin out
  <2> HIDE DEF reg, out, r
  <2>. QED BY <1>1, <1>3, RegionMerge
<1>5. /\ g_regions' = [g_regions EXCEPT ![r] = s]
      /\ hand' = m
      /\ pc' = "coalesce" /\ target_order' = target_order /\ panic' = panic /\ live' = live
      /\ UNCHANGED boot_vars
  BY <1>1, <1>4 DEF coalesce
<1> HIDE DEF s, i, t, u
<1>6. m.region = r BY <1>1, BlockFacts
<1> HIDE DEF m
<1>7. /\ Within(Out', r) = out
      /\ Within(Merging', r) = {m}
      /\ \A q \in DOMAIN g_regions : q # r => /\ Within(Out', q) = Within(Out, q)
                                              /\ Within(Merging', q) = Within(Merging, q)
  BY <1>1, <1>5, <1>6 DEF Out, Merging, Within
<1>8. /\ g_regions' \in Seq(ToSet(g_regions'))
      /\ DOMAIN g_regions' = DOMAIN g_regions
      /\ \A q \in DOMAIN g_regions' : IsRegion(g_regions'[q])
      /\ RegionsFromMap' /\ RegionsApart' /\ LinkedRegions'
  <2>1. current_ram' = current_ram /\ ram_regions' = ram_regions
    BY <1>5 DEF boot_vars
  <2> HIDE DEF r, out
  <2>. QED BY <1>1, <1>4, <1>5, <1>7, <2>1, RegionStep DEF reg
<1>9. TypeOK'
  BY <1>1, <1>4, <1>5, <1>8 DEF CoreInv, TypeOK, boot_vars
<1>10. ControlInv'
  <2>1. m \notin live BY <1>4, <1>6 DEF Out, Within
  <2>. QED BY <2>1, <1>1, <1>5, <1>6, <1>8 DEF CoreInv, ControlInv, boot_vars
<1>11. CarvedRegion' BY <1>5 DEF CarvedRegion
<1>12. BookkeepingSound' BY <1>1, <1>5 DEF CoreInv, BookkeepingSound, boot_vars
<1>. QED BY <1>8, <1>9, <1>10, <1>11, <1>12 DEF CoreInv

(* The end of pmm_free preserves the invariant.                            *)
LEMMA FreeReturnStep ==
    ASSUME SaneBootMap(ram_regions), CoreInv, free_return
    PROVE  CoreInv'
<1> DEFINE r == hand.region
           reg == g_regions[r]
           s == add_to_region_freelist(reg, hand.block, hand.order)
           out == Within(Out, r)
<1>1. /\ pc = "coalesce" /\ r \in DOMAIN g_regions /\ hand \in Blocks
      /\ g_regions' = [g_regions EXCEPT ![r] = s]
      /\ hand' = NoBlock
      /\ pc' = "idle" /\ target_order' = target_order /\ panic' = panic /\ live' = live
      /\ UNCHANGED boot_vars
  BY DEF CoreInv, TypeOK, ControlInv, free_return
<1>2. Within(Merging, r) = {hand} BY <1>1 DEF Merging, Within
<1>3. GoodRegion(r, reg, out, {hand}, reg.block_pool_size)
  BY <1>1, <1>2 DEF CoreInv, LinkedRegions
<1>4. GoodRegion(r, s, out, {}, reg.block_pool_size) /\ SameShape(s, reg)
  <2> HIDE DEF reg, out, r
  <2>. QED BY <1>3, RegionPut
<1> HIDE DEF s
<1>5. /\ Within(Out', r) = out
      /\ Within(Merging', r) = {}
      /\ \A q \in DOMAIN g_regions : q # r => /\ Within(Out', q) = Within(Out, q)
                                              /\ Within(Merging', q) = Within(Merging, q)
  BY <1>1 DEF Out, Merging, Within
<1>6. /\ g_regions' \in Seq(ToSet(g_regions'))
      /\ DOMAIN g_regions' = DOMAIN g_regions
      /\ \A q \in DOMAIN g_regions' : IsRegion(g_regions'[q])
      /\ RegionsFromMap' /\ RegionsApart' /\ LinkedRegions'
  <2>1. current_ram' = current_ram /\ ram_regions' = ram_regions
    BY <1>1 DEF boot_vars
  <2> HIDE DEF r, out
  <2>. QED BY <1>1, <1>4, <1>5, <2>1, RegionStep DEF reg
<1>7. NoBlock \in Blocks
  BY PmmAssumption DEF NoBlock, Blocks, Orders
<1>8. TypeOK' BY <1>1, <1>6, <1>7 DEF CoreInv, TypeOK, boot_vars
<1>9. ControlInv' BY <1>1, <1>6 DEF CoreInv, ControlInv, boot_vars
<1>10. CarvedRegion' BY <1>1 DEF CarvedRegion
<1>11. BookkeepingSound' BY <1>1 DEF CoreInv, BookkeepingSound, boot_vars
<1>. QED BY <1>6, <1>8, <1>9, <1>10, <1>11 DEF CoreInv

(* The entries of the boot map that have been processed stay processed.    *)
LEMMA Prefix ==
    ASSUME NEW c \in Nat, NEW i \in 1..(c - 1), NEW d, d = c \/ d = c + 1
    PROVE  i \in 1..(d - 1)
OBVIOUS

(* The types of pmm_init's position in the boot map.                       *)
LEMMA BootTypes ==
    ASSUME TypeOK
    PROVE  /\ ram_regions \in Seq([base_address : Nat, length : Nat])
           /\ Len(ram_regions) \in Nat
           /\ DOMAIN ram_regions = 1..Len(ram_regions)
           /\ current_ram \in Nat /\ 1 <= current_ram
           /\ current_ram <= Len(ram_regions) + 1
<1>1. ram_regions \in Seq([base_address : Nat, length : Nat])
  BY PmmAssumption DEF TypeOK
<1>2. Len(ram_regions) \in Nat /\ DOMAIN ram_regions = 1..Len(ram_regions)
  BY <1>1
<1>3. current_ram \in 1..(Len(ram_regions) + 1) BY DEF TypeOK
<1>. QED BY <1>1, <1>2, <1>3

(* A step that leaves regions, blocks and the held block alone and reports *)
(* no inconsistency preserves the invariant, whether it returns or panics. *)
LEMMA QuietStep ==
    ASSUME CoreInv, pc \in {"pmm_init", "idle"}, pc' \in {"pmm_init", "idle", "panic"},
           pc' = "pmm_init" => pc = "pmm_init",
           ram_regions' = ram_regions, g_regions' = g_regions, live' = live,
           offset' = offset, hand' = hand, target_order' \in Orders,
           IsRegion(region'), g_cursor' \in EARLY_HEAP_START..EARLY_HEAP_END,
           current_ram' \in {current_ram, current_ram + 1},
           current_ram' \in 1..(Len(ram_regions) + 1),
           panic' \in PanicReasons,
           panic' \notin {"double free", "not block aligned", "buddy not on free list"}
    PROVE  CoreInv'
<1>1. TypeOK' BY DEF CoreInv, TypeOK
<1>2. ControlInv' BY DEF CoreInv, ControlInv
<1>3. RegionsFromMap'
  <2>1. current_ram \in Nat BY BootTypes DEF CoreInv
  <2>2. \A i \in 1..(current_ram - 1) : i \in 1..(current_ram' - 1)
    BY <2>1, Prefix
  <2>. QED BY <2>2 DEF CoreInv, RegionsFromMap
<1>4. RegionsApart' BY DEF CoreInv, RegionsApart
<1>5. CarvedRegion' BY DEF CarvedRegion
<1>6. LinkedRegions'
  <2>1. Out' = Out /\ Merging' = Merging BY DEF Out, Merging
  <2>. QED BY <2>1 DEF CoreInv, LinkedRegions
<1>7. BookkeepingSound' BY DEF BookkeepingSound
<1>. QED BY <1>1, <1>2, <1>3, <1>4, <1>5, <1>6, <1>7 DEF CoreInv

(* The same for a call of an allocation or release function: it returns at *)
(* once or stops the machine.                                              *)
LEMMA QuietCall ==
    ASSUME CoreInv, pc = "idle", UNCHANGED <<boot_vars, live, g_regions, hand>>,
           target_order' \in Orders,
           \/ UNCHANGED <<pc, panic>>
           \/ pc' = "panic" /\ panic' \in PanicReasons
              /\ panic' \notin {"double free", "not block aligned", "buddy not on free list"}
    PROVE  CoreInv'
<1>1. /\ ram_regions' = ram_regions /\ g_regions' = g_regions /\ live' = live
      /\ offset' = offset /\ hand' = hand /\ region' = region
      /\ g_cursor' = g_cursor /\ current_ram' = current_ram
  BY DEF boot_vars
<1>3. CASE UNCHANGED <<pc, panic>>
  <2>1. TypeOK' BY <1>1, <1>3 DEF CoreInv, TypeOK
  <2>2. ControlInv' BY <1>1, <1>3 DEF CoreInv, ControlInv
  <2>3. RegionsFromMap' /\ RegionsApart' BY <1>1 DEF CoreInv, RegionsFromMap, RegionsApart
  <2>4. CarvedRegion' BY <1>1, <1>3 DEF CarvedRegion
  <2>5. LinkedRegions' BY <1>1, <1>3 DEF CoreInv, LinkedRegions, Out, Merging
  <2>6. BookkeepingSound' BY <1>1, <1>3 DEF CoreInv, BookkeepingSound
  <2>. QED BY <2>1, <2>2, <2>3, <2>4, <2>5, <2>6 DEF CoreInv
<1>4. CASE pc' = "panic" /\ panic' \in PanicReasons
           /\ panic' \notin {"double free", "not block aligned", "buddy not on free list"}
  <2>1. /\ IsRegion(region') /\ g_cursor' \in EARLY_HEAP_START..EARLY_HEAP_END
        /\ current_ram' \in 1..(Len(ram_regions) + 1)
    BY <1>1 DEF CoreInv, TypeOK
  <2>. QED BY <1>1, <1>4, <2>1, QuietStep
<1>. QED BY <1>3, <1>4

(* pmm_alloc_order preserves the invariant on each of its paths: invalid   *)
(* order, no free block, and a block found.                                *)
LEMMA AllocOrderStep ==
    ASSUME SaneBootMap(ram_regions), CoreInv, pc = "idle",
           NEW order \in Nat, pmm_alloc_order(order), UNCHANGED <<boot_vars, live>>
    PROVE  CoreInv'
<1>1. MAX_ORDER \in Nat BY PmmAssumption
<1>2. CASE order > MAX_ORDER
  <2>1. /\ UNCHANGED <<boot_vars, live, g_regions, hand>> /\ target_order' \in Orders
        /\ pc' = "panic" /\ panic' = "invalid order"
    BY <1>2 DEF pmm_alloc_order, KPANIC, CoreInv, TypeOK
  <2>. QED BY <2>1, QuietCall DEF PanicReasons
<1>3. CASE ~(order > MAX_ORDER) /\ \A r \in DOMAIN g_regions : ~CanServe(r, order)
  <2>1. order \in Orders BY <1>1, <1>3 DEF Orders
  <2>2. /\ UNCHANGED <<boot_vars, live, g_regions, hand>> /\ target_order' \in Orders
        /\ pc' = "panic" /\ panic' = "no free blocks"
    BY <1>3, <2>1 DEF pmm_alloc_order, KPANIC
  <2>. QED BY <2>2, QuietCall DEF PanicReasons
<1>4. CASE ~(order > MAX_ORDER) /\ ~(\A r \in DOMAIN g_regions : ~CanServe(r, order))
  <2>1. order \in Orders BY <1>1, <1>4 DEF Orders
  <2>2. PICK r \in DOMAIN g_regions, o \in Orders :
          /\ LowestOrder(r, order, o)
          /\ LET target == Head(g_regions[r].free_lists[o])
                 reg == remove_from_region_freelist(g_regions[r], target, o)
             IN  /\ g_regions' = [g_regions EXCEPT ![r] =
                      set_block(reg, target, UsedEntry(reg.block_pool[target].order))]
                 /\ hand' = [region |-> r, block |-> target, order |-> o]
          /\ target_order' = order
          /\ pc' = "split"
          /\ panic' = panic
    BY <1>4 DEF pmm_alloc_order
  <2> DEFINE reg == g_regions[r]
             i == Head(reg.free_lists[o])
             b == [region |-> r, block |-> i, order |-> o]
             t == remove_from_region_freelist(reg, i, o)
             s == set_block(t, i, UsedEntry(t.block_pool[i].order))
             out == Within(Out, r)
  <2>3. /\ g_regions' = [g_regions EXCEPT ![r] = s] /\ hand' = b
        /\ reg.free_lists[o] # <<>>
    BY <2>2 DEF LowestOrder
  <2>4. o \in Nat /\ order <= o BY <2>2, <1>1 DEF LowestOrder, Orders
  <2>5. Merging = {} /\ Within(Merging, r) = {} BY DEF Merging, Within
  <2>6. GoodRegion(r, reg, out, {}, reg.block_pool_size)
    BY <2>5 DEF CoreInv, LinkedRegions
  <2>7. i \in ToSet(reg.free_lists[o])
    <3>1. reg.free_lists[o] \in Seq(0..(reg.block_pool_size - 1))
      BY <2>6 DEF GoodRegion, IsRegion
    <3>. QED BY <3>1, <2>3 DEF ToSet
  <2>8. /\ GoodRegion(r, s, out \cup {b}, {}, reg.block_pool_size)
        /\ SameShape(s, reg) /\ b \in Blocks /\ b \notin out
    <3> HIDE DEF reg, i, out
    <3>. QED BY <2>6, <2>7, RegionTake
  <2> HIDE DEF s, t, i
  <2>9. b.region = r /\ b.order = o OBVIOUS
  <2> HIDE DEF b
  <2>10. b \notin live BY <2>8, <2>9 DEF Out, Within
  <2>11. /\ Within(Out', r) = out \cup {b}
         /\ Within(Merging', r) = {}
         /\ \A q \in DOMAIN g_regions : q # r => /\ Within(Out', q) = Within(Out, q)
                                                 /\ Within(Merging', q) = Within(Merging, q)
    <3>1. pc = "idle" /\ pc' = "split" /\ hand' = b /\ live' = live BY <2>2, <2>3
    <3>2. Out' = Out \cup {b} BY ONLY <3>1 DEF Out
    <3>3. Merging' = {} BY ONLY <3>1 DEF Merging
    <3>4. Within(Out', r) = out \cup {b} BY ONLY <3>2, <2>9 DEF Within, out
    <3>5. \A q \in DOMAIN g_regions : q # r => Within(Out', q) = Within(Out, q)
      BY ONLY <3>2, <2>9 DEF Within
    <3>. QED BY ONLY <2>5, <3>3, <3>4, <3>5 DEF Within
  <2>12. /\ g_regions' \in Seq(ToSet(g_regions'))
         /\ DOMAIN g_regions' = DOMAIN g_regions
         /\ \A q \in DOMAIN g_regions' : IsRegion(g_regions'[q])
         /\ RegionsFromMap' /\ RegionsApart' /\ LinkedRegions'
    <3>1. current_ram' = current_ram /\ ram_regions' = ram_regions BY DEF boot_vars
    <3> HIDE DEF out
    <3>. QED BY <2>3, <2>8, <2>11, <3>1, RegionStep DEF reg
  <2>13. TypeOK' BY <2>1, <2>2, <2>3, <2>8, <2>12 DEF CoreInv, TypeOK, boot_vars
  <2>14. ControlInv'
    BY <2>2, <2>3, <2>4, <2>9, <2>10, <2>12 DEF CoreInv, ControlInv, boot_vars
  <2>15. CarvedRegion' BY <2>2 DEF CarvedRegion
  <2>16. BookkeepingSound' BY <2>2 DEF CoreInv, BookkeepingSound, boot_vars
  <2>. QED BY <2>12, <2>13, <2>14, <2>15, <2>16 DEF CoreInv
<1>. QED BY <1>2, <1>3, <1>4

(* pmm_alloc_size preserves the invariant: size 0, too large, and the      *)
(* rest.                                                                   *)
LEMMA AllocSizeStep ==
    ASSUME SaneBootMap(ram_regions), CoreInv, pc = "idle",
           NEW size, pmm_alloc_size(size), UNCHANGED <<boot_vars, live>>
    PROVE  CoreInv'
<1>1. target_order \in Orders BY DEF CoreInv, TypeOK
<1>2. CASE size = 0
  BY <1>1, <1>2, QuietCall DEF pmm_alloc_size
<1>3. CASE size # 0 /\ size_to_order_fails(size)
  <2>1. /\ UNCHANGED <<boot_vars, live, g_regions, hand>> /\ target_order' \in Orders
        /\ pc' = "panic" /\ panic' = "size too large"
    BY <1>1, <1>3 DEF pmm_alloc_size, KPANIC
  <2>. QED BY <2>1, QuietCall DEF PanicReasons
<1>4. CASE size # 0 /\ ~size_to_order_fails(size)
  <2>1. PICK order \in Orders : pmm_alloc_order(order)
    BY <1>4 DEF pmm_alloc_size
  <2>2. order \in Nat BY PmmAssumption DEF Orders
  <2>. QED BY <2>1, <2>2, AllocOrderStep
<1>. QED BY <1>2, <1>3, <1>4

(* The three allocation functions preserve the invariant.                  *)
LEMMA AllocateStep ==
    ASSUME SaneBootMap(ram_regions), CoreInv, Allocate
    PROVE  CoreInv'
<1>1. pc = "idle" /\ UNCHANGED <<boot_vars, live>> BY DEF Allocate
<1>2. CASE \E order \in AllocOrders : pmm_alloc_order(order)
  BY <1>1, <1>2, AllocOrderStep, PmmAssumption
<1>3. CASE \E num_pages \in AllocPages : pmm_alloc_pages(num_pages)
  <2>1. PICK n \in AllocPages : pmm_alloc_pages(n) BY <1>3
  <2>2. CASE n > (ADDRESS_SPACE - 1) \div PAGE_SIZE
    <3>1. /\ UNCHANGED <<boot_vars, live, g_regions, hand>> /\ target_order' \in Orders
          /\ pc' = "panic" /\ panic' = "page count overflows"
      BY <1>1, <2>1, <2>2 DEF pmm_alloc_pages, KPANIC, CoreInv, TypeOK
    <3>. QED BY <1>1, <3>1, QuietCall DEF PanicReasons
  <2>3. CASE ~(n > (ADDRESS_SPACE - 1) \div PAGE_SIZE)
    BY <1>1, <2>1, <2>3, AllocSizeStep DEF pmm_alloc_pages
  <2>. QED BY <2>2, <2>3
<1>4. CASE \E size \in AllocSizes : pmm_alloc_size(size)
  BY <1>1, <1>4, AllocSizeStep
<1>. QED BY <1>1, <1>2, <1>3, <1>4 DEF Allocate

(***************************************************************************)
(* Boot.                                                                   *)
(***************************************************************************)

(* Bounds of a position in the boot map and its successor.                 *)
LEMMA Position ==
    ASSUME NEW c \in Nat, NEW n \in Nat, 1 <= c, c <= n
    PROVE  /\ c \in 1..n /\ c \in 1..(n + 1) /\ c + 1 \in 1..(n + 1)
           /\ c \in 1..((c + 1) - 1)
           /\ \A i \in 1..(c - 1) : i \in 1..((c + 1) - 1) /\ i \in 1..n /\ i # c
OBVIOUS

(* The placeholder for `no region under construction' is well typed.       *)
LEMMA NoRegionTyped == IsRegion(NoRegion)
<1>1. /\ NoRegion.start = 0 /\ NoRegion.end = 0 /\ NoRegion.block_pool_size = 0
      /\ NoRegion.block_pool = <<>>
      /\ NoRegion.free_lists = [o \in Orders |-> <<>>]
      /\ NoRegion = [start |-> NoRegion.start, end |-> NoRegion.end,
                     block_pool_size |-> NoRegion.block_pool_size,
                     block_pool |-> NoRegion.block_pool,
                     free_lists |-> NoRegion.free_lists]
  BY DEF NoRegion
<1>2. NoRegion.block_pool \in [0..(0 - 1) -> PageEntry]
  <2>1. 0..(0 - 1) = {} OBVIOUS
  <2>2. <<>> \in [{} -> PageEntry] OBVIOUS
  <2>. QED BY <1>1, <2>1, <2>2
<1>3. NoRegion.free_lists \in [Orders -> Seq(0..(0 - 1))]
  <2>1. <<>> \in Seq(0..(0 - 1)) OBVIOUS
  <2>. QED BY <2>1, <1>1
<1>4. 0 % PAGE_SIZE = 0 /\ 0 = 0 + 0 * PAGE_SIZE BY DEF PAGE_SIZE
<1>. QED BY <1>1, <1>2, <1>3, <1>4 DEF IsRegion

(* An allocation that emm_alloc does not refuse leaves the cursor inside   *)
(* the early heap; the room above the heap keeps the sum from wrapping.    *)
LEMMA CursorStep ==
    ASSUME NEW cursor \in EARLY_HEAP_START..EARLY_HEAP_END,
           NEW size \in Nat, size <= SIZEOF_REGION + (ADDRESS_SPACE \div PAGE_SIZE) * SIZEOF_BLOCK,
           ~emm_exhausted(cursor, size)
    PROVE  next_cursor(cursor, size) \in EARLY_HEAP_START..EARLY_HEAP_END
<1>1. /\ ADDRESS_SPACE \in Nat /\ EARLY_HEAP_START \in Nat /\ EARLY_HEAP_END \in Nat
      /\ cursor \in Nat /\ cursor <= EARLY_HEAP_END /\ EARLY_HEAP_START <= cursor
  BY EmmAssumption
<1> DEFINE room == (ADDRESS_SPACE \div PAGE_SIZE) * SIZEOF_BLOCK
<1>2. /\ room \in Nat /\ EARLY_HEAP_END + SIZEOF_REGION + room < ADDRESS_SPACE
      /\ SIZEOF_REGION \in Nat
  BY <1>1, PmmAssumption DEF PAGE_SIZE, SIZEOF_BLOCK, SIZEOF_REGION
<1>3. size <= SIZEOF_REGION + room OBVIOUS
<1> HIDE DEF room
<1>4. cursor + size \in Nat /\ cursor + size < ADDRESS_SPACE
  BY <1>1, <1>2, <1>3
<1>5. (cursor + size) % ADDRESS_SPACE = cursor + size
  BY <1>1, <1>4, ModSmall
<1>6. ~(cursor + size > EARLY_HEAP_END) BY <1>5 DEF emm_exhausted, next_cursor
<1>. QED BY <1>1, <1>4, <1>5, <1>6 DEF next_cursor

(* pmm_init's call of pmm_add_region preserves the invariant on each path: *)
(* panic, nothing to add, early heap exhausted at the header or at the     *)
(* pool, region created.                                                   *)
LEMMA PmmInitStep ==
    ASSUME SaneBootMap(ram_regions), CoreInv, pmm_init
    PROVE  CoreInv'
<1> DEFINE ram == ram_regions[current_ram]
           base == ram.base_address
           length == ram.length
           top == (base + length) % ADDRESS_SPACE
           lo == kalign_up(base)
           hi == kalign_down(top)
           n == (hi - lo) \div PAGE_SIZE
           header == next_cursor(g_cursor, SIZEOF_REGION)
           bytes == n * SIZEOF_BLOCK
<1>1. /\ pc = "pmm_init" /\ current_ram <= Len(ram_regions) /\ live = {} /\ offset = 0
      /\ TypeOK /\ IsRegion(region) /\ target_order \in Orders
      /\ UNCHANGED <<ram_regions, g_regions, offset, hand, target_order, live>>
      /\ panic \in PanicReasons
      /\ panic \notin {"double free", "not block aligned", "buddy not on free list"}
      /\ g_cursor \in EARLY_HEAP_START..EARLY_HEAP_END
  BY DEF CoreInv, TypeOK, ControlInv, pmm_init, BookkeepingSound
<1>2. /\ current_ram \in DOMAIN ram_regions /\ current_ram \in Nat
      /\ current_ram \in 1..(Len(ram_regions) + 1)
      /\ current_ram + 1 \in 1..(Len(ram_regions) + 1)
  <2>1. /\ Len(ram_regions) \in Nat /\ DOMAIN ram_regions = 1..Len(ram_regions)
        /\ current_ram \in Nat /\ 1 <= current_ram
    BY <1>1, BootTypes
  <2>2. current_ram <= Len(ram_regions) BY <1>1
  <2>. QED BY <1>1, <2>1, <2>2, Position
<1>3. /\ base \in Nat /\ length \in Nat
      /\ truncate(base) = base
      /\ truncate(length) = length
      /\ top = base + length
      /\ lo \in Nat /\ hi \in Nat
      /\ lo % PAGE_SIZE = 0 /\ hi % PAGE_SIZE = 0
      /\ base <= lo /\ hi <= base + length
      /\ base + length < ADDRESS_SPACE
  BY <1>1, <1>2, SaneRam
<1>4. pmm_add_region(base, length) BY <1>3 DEF pmm_init
<1>5. \/ base >= top /\ KPANIC("region overflows") /\ UNCHANGED <<g_cursor, current_ram, region>>
      \/ skip_region
      \/ /\ hi > lo /\ UNCHANGED current_ram
         /\ \/ KPANIC("early heap exhausted") /\ UNCHANGED <<g_cursor, region>>
            \/ /\ KPANIC("early heap exhausted")
               /\ ~emm_exhausted(g_cursor, SIZEOF_REGION)
               /\ g_cursor' = header
               /\ UNCHANGED region
            \/ /\ ~emm_exhausted(g_cursor, SIZEOF_REGION)
               /\ ~emm_exhausted(header, bytes)
               /\ g_cursor' = next_cursor(header, bytes)
               /\ region' = new_region(lo, hi, n)
               /\ pc' = "carve"
               /\ UNCHANGED panic
  BY <1>4 DEF pmm_add_region
<1> HIDE DEF top, lo, hi, n, header, bytes, base, length
<1>6. CASE pc' = "panic" /\ panic' \in {"region overflows", "early heap exhausted"}
           /\ UNCHANGED <<current_ram, region>>
           /\ g_cursor' \in EARLY_HEAP_START..EARLY_HEAP_END
  <2>1. /\ ram_regions' = ram_regions /\ g_regions' = g_regions /\ live' = live
        /\ offset' = offset /\ hand' = hand /\ target_order' \in Orders
        /\ IsRegion(region') /\ current_ram' = current_ram
    BY <1>1, <1>6
  <2>2. /\ panic' \in PanicReasons
        /\ panic' \notin {"double free", "not block aligned", "buddy not on free list"}
    BY <1>6 DEF PanicReasons
  <2>. QED BY <1>1, <1>2, <1>6, <2>1, <2>2, QuietStep
<1>7. CASE skip_region
  <2>1. /\ ram_regions' = ram_regions /\ g_regions' = g_regions /\ live' = live
        /\ offset' = offset /\ hand' = hand /\ target_order' \in Orders
        /\ IsRegion(region') /\ current_ram' = current_ram + 1
        /\ g_cursor' = g_cursor /\ pc' = "pmm_init" /\ panic' = panic
    BY <1>1, <1>7 DEF skip_region
  <2>. QED BY <1>1, <1>2, <2>1, QuietStep
<1>8. SIZEOF_REGION \in Nat
      /\ SIZEOF_REGION <= SIZEOF_REGION + (ADDRESS_SPACE \div PAGE_SIZE) * SIZEOF_BLOCK
  BY EmmAssumption DEF SIZEOF_REGION, SIZEOF_BLOCK, PAGE_SIZE
<1>9. ~emm_exhausted(g_cursor, SIZEOF_REGION) => header \in EARLY_HEAP_START..EARLY_HEAP_END
  BY <1>1, <1>8, CursorStep DEF header
<1>10. CASE /\ hi > lo /\ UNCHANGED current_ram
            /\ ~emm_exhausted(g_cursor, SIZEOF_REGION)
            /\ ~emm_exhausted(header, bytes)
            /\ g_cursor' = next_cursor(header, bytes)
            /\ region' = new_region(lo, hi, n)
            /\ pc' = "carve"
            /\ UNCHANGED panic
  <2> DEFINE r == Len(g_regions) + 1
  <2>1. r \in Nat
    <3>1. g_regions \in Seq(ToSet(g_regions)) BY <1>1 DEF TypeOK
    <3>. QED BY <3>1
  <2> HIDE DEF r
  <2>2. /\ GoodRegion(r, region', {}, {}, 0)
        /\ region'.start = lo /\ region'.end = hi /\ n \in Nat
    BY <1>3, <1>10, <2>1, NewRegion DEF n
  <2>3. bytes \in Nat /\ bytes <= SIZEOF_REGION + (ADDRESS_SPACE \div PAGE_SIZE) * SIZEOF_BLOCK
    <3>1. ADDRESS_SPACE \in Nat BY EmmAssumption
    <3>2. hi - lo \in Nat /\ hi - lo <= ADDRESS_SPACE BY <1>3, <1>10, <3>1
    <3>3. n <= ADDRESS_SPACE \div PAGE_SIZE BY <3>1, <3>2, DivMonotone DEF n
    <3>4. ADDRESS_SPACE \div PAGE_SIZE \in Nat BY <3>1 DEF PAGE_SIZE
    <3>. QED BY <2>2, <3>3, <3>4 DEF bytes, SIZEOF_BLOCK, SIZEOF_REGION
  <2>4. g_cursor' \in EARLY_HEAP_START..EARLY_HEAP_END
    BY <1>9, <1>10, <2>3, CursorStep
  <2>5. IsRegion(region') BY <2>2 DEF GoodRegion
  <2>6. TypeOK' BY <1>1, <1>10, <2>4, <2>5 DEF CoreInv, TypeOK
  <2>7. ControlInv' BY <1>1, <1>10 DEF CoreInv, ControlInv
  <2>8. RegionsFromMap' /\ RegionsApart'
    BY <1>1, <1>10 DEF CoreInv, RegionsFromMap, RegionsApart
  <2>9. LinkedRegions'
    BY <1>1, <1>10 DEF CoreInv, LinkedRegions, Out, Merging
  <2>10. CarvedRegion'
    <3>1. Inside(region', ram) BY <1>3, <2>2 DEF Inside, base, length
    <3>. QED BY <1>1, <1>10, <2>2, <3>1 DEF CarvedRegion, r
  <2>11. BookkeepingSound' BY <1>1, <1>10 DEF BookkeepingSound
  <2>. QED BY <2>6, <2>7, <2>8, <2>9, <2>10, <2>11 DEF CoreInv
<1>. QED BY <1>1, <1>5, <1>6, <1>7, <1>9, <1>10 DEF KPANIC

(* The carve loop preserves the invariant.                                 *)
LEMMA CarveStep ==
    ASSUME SaneBootMap(ram_regions), CoreInv, carve
    PROVE  CoreInv'
<1>1. /\ pc = "carve" /\ offset < region.block_pool_size
      /\ GoodRegion(Len(g_regions) + 1, region, {}, {}, offset)
      /\ Inside(region, ram_regions[current_ram])
      /\ UNCHANGED <<g_cursor, ram_regions, current_ram, g_regions, pc, hand,
                     target_order, panic, live>>
  BY DEF carve, CoreInv, CarvedRegion
<1>2. PICK order \in Orders :
        /\ biggest_order(offset, region.block_pool_size, order)
        /\ region' = add_to_region_freelist(
                        set_block(region, offset, FreeEntry(order)), offset, order)
        /\ offset' = offset + BLOCK_COUNT(order)
  BY DEF carve
<1>3. /\ GoodRegion(Len(g_regions) + 1, region', {}, {}, offset')
      /\ SameShape(region', region)
  BY <1>1, <1>2, RegionCarve
<1>4. IsRegion(region') /\ offset' \in Nat
  BY <1>3 DEF GoodRegion, IsRegion
<1>5. TypeOK' BY <1>1, <1>4 DEF CoreInv, TypeOK
<1>6. ControlInv' BY <1>1 DEF CoreInv, ControlInv
<1>7. RegionsFromMap' /\ RegionsApart'
  BY <1>1 DEF CoreInv, RegionsFromMap, RegionsApart
<1>8. LinkedRegions' BY <1>1 DEF CoreInv, LinkedRegions, Out, Merging
<1>9. CarvedRegion'
  <2>1. Inside(region', ram_regions[current_ram]) BY <1>1, <1>3 DEF Inside, SameShape
  <2>. QED BY <1>1, <1>3, <2>1 DEF CarvedRegion
<1>10. BookkeepingSound' BY <1>1 DEF CoreInv, BookkeepingSound
<1>. QED BY <1>5, <1>6, <1>7, <1>8, <1>9, <1>10 DEF CoreInv

(* A region's bounds are addresses.                                        *)
LEMMA RegionEnds ==
    ASSUME NEW reg, IsRegion(reg)
    PROVE  reg.start \in Nat /\ reg.end \in Nat
<1>1. /\ reg.start \in Nat /\ reg.block_pool_size \in Nat
      /\ reg.end = reg.start + reg.block_pool_size * PAGE_SIZE
  BY DEF IsRegion
<1>. QED BY <1>1 DEF PAGE_SIZE

(* Regions inside disjoint entries of the boot map are disjoint.           *)
LEMMA InsideApart ==
    ASSUME TypeOK, NEW i \in DOMAIN ram_regions, NEW j \in DOMAIN ram_regions,
           NEW reg, IsRegion(reg), Inside(reg, ram_regions[i]),
           NEW s, IsRegion(s), Inside(s, ram_regions[j]),
           \/ ram_regions[i].base_address + ram_regions[i].length
                <= ram_regions[j].base_address
           \/ ram_regions[j].base_address + ram_regions[j].length
                <= ram_regions[i].base_address
    PROVE  reg.end <= s.start \/ s.end <= reg.start
<1> DEFINE R == [base_address : Nat, length : Nat]
<1>1. ram_regions \in Seq(R) BY BootTypes
<1>2. ram_regions[i] \in R /\ ram_regions[j] \in R BY <1>1, SeqElim
<1>3. /\ ram_regions[i].base_address \in Nat /\ ram_regions[i].length \in Nat
      /\ ram_regions[j].base_address \in Nat /\ ram_regions[j].length \in Nat
  BY <1>2
<1>4. /\ reg.start \in Nat /\ reg.end \in Nat /\ s.start \in Nat /\ s.end \in Nat
  BY RegionEnds
<1>. QED BY <1>3, <1>4 DEF Inside

(* Linking the finished region preserves the invariant: it is fully carved *)
(* and apart from the regions before it.                                   *)
LEMMA LinkStep ==
    ASSUME SaneBootMap(ram_regions), CoreInv, link_region
    PROVE  CoreInv'
<1> DEFINE k == Len(g_regions) + 1
<1>1. /\ pc = "carve" /\ offset >= region.block_pool_size
      /\ GoodRegion(k, region, {}, {}, offset)
      /\ Inside(region, ram_regions[current_ram])
      /\ g_regions' = Append(g_regions, region)
      /\ region' = NoRegion /\ offset' = 0 /\ current_ram' = current_ram + 1
      /\ pc' = "pmm_init" /\ live = {} /\ TypeOK
      /\ current_ram <= Len(ram_regions)
      /\ UNCHANGED <<g_cursor, ram_regions, hand, target_order, panic, live>>
  BY DEF link_region, CoreInv, CarvedRegion, ControlInv
<1>2. g_regions \in Seq(ToSet(g_regions)) BY DEF CoreInv, TypeOK
<1>3. /\ g_regions' \in Seq(ToSet(g_regions'))
      /\ DOMAIN g_regions' = 1..k
      /\ DOMAIN g_regions = 1..Len(g_regions) /\ Len(g_regions) \in Nat
      /\ g_regions'[k] = region
      /\ \A q \in DOMAIN g_regions : g_regions'[q] = g_regions[q]
  <2>1. g_regions' = Append(g_regions, region) BY <1>1
  <2>2. g_regions' \in Seq(ToSet(g_regions')) BY <1>2, <2>1, SeqAppend
  <2>3. DOMAIN g_regions' = 1..k BY <1>2, <2>1, SeqAppend
  <2>4. DOMAIN g_regions = 1..Len(g_regions) /\ Len(g_regions) \in Nat BY <1>2
  <2>5. g_regions'[k] = region BY <1>2, <2>1, SeqAppend
  <2>6. \A q \in DOMAIN g_regions : g_regions'[q] = g_regions[q] BY <1>2, <2>1, SeqAppend
  <2>. QED BY <2>2, <2>3, <2>4, <2>5, <2>6
<1>4. \A q \in DOMAIN g_regions' : q = k \/ q \in DOMAIN g_regions BY <1>3
<1> HIDE DEF k
<1>5. offset = region.block_pool_size /\ IsRegion(region)
  BY <1>1 DEF GoodRegion, IsRegion
<1>6. /\ current_ram \in 1..(current_ram' - 1) /\ current_ram \in Nat
      /\ current_ram' \in 1..(Len(ram_regions) + 1)
      /\ \A i \in 1..(current_ram - 1) : i \in 1..(current_ram' - 1)
  <2>1. Len(ram_regions) \in Nat /\ current_ram \in Nat /\ 1 <= current_ram
    BY <1>1, BootTypes
  <2>2. current_ram <= Len(ram_regions) BY <1>1
  <2>. QED BY <1>1, <2>1, <2>2, Position
<1>7. TypeOK'
  <2>1. \A q \in DOMAIN g_regions' : IsRegion(g_regions'[q])
    BY <1>3, <1>4, <1>5 DEF CoreInv, TypeOK
  <2>. QED BY <2>1, <1>1, <1>3, <1>6, NoRegionTyped DEF TypeOK
<1>8. ControlInv' BY <1>1 DEF ControlInv
<1>9. RegionsFromMap'
  BY <1>1, <1>3, <1>4, <1>6 DEF CoreInv, RegionsFromMap
<1>10. RegionsApart'
  <2>1. \A q \in DOMAIN g_regions :
          \/ g_regions[q].end <= region.start
          \/ region.end <= g_regions[q].start
    <3> SUFFICES ASSUME NEW q \in DOMAIN g_regions
                 PROVE  \/ g_regions[q].end <= region.start
                        \/ region.end <= g_regions[q].start
      OBVIOUS
    <3>1. PICK i \in 1..(current_ram - 1) : Inside(g_regions[q], ram_regions[i])
      BY DEF CoreInv, RegionsFromMap
    <3>2. i \in DOMAIN ram_regions /\ current_ram \in DOMAIN ram_regions /\ i # current_ram
      BY <1>1, <1>6, BootTypes
    <3>3. \/ ram_regions[i].base_address + ram_regions[i].length
               <= ram_regions[current_ram].base_address
          \/ ram_regions[current_ram].base_address + ram_regions[current_ram].length
               <= ram_regions[i].base_address
      BY <3>2 DEF SaneBootMap
    <3>4. IsRegion(g_regions[q]) BY <1>1 DEF TypeOK
    <3>. QED BY <1>1, <1>5, <3>1, <3>2, <3>3, <3>4, InsideApart
  <2>. QED BY <2>1, <1>3, <1>4 DEF CoreInv, RegionsApart
<1>11. LinkedRegions'
  <2>1. SUFFICES ASSUME NEW q \in DOMAIN g_regions'
                 PROVE  GoodRegion(q, g_regions'[q], {}, {}, g_regions'[q].block_pool_size)
    BY <1>1 DEF LinkedRegions, Out, Merging, Within
  <2>2. CASE q = k BY <2>2, <1>1, <1>3, <1>5
  <2>3. CASE q \in DOMAIN g_regions
    <3>1. Within(Out, q) = {} /\ Within(Merging, q) = {}
      BY <1>1 DEF Out, Merging, Within
    <3>. QED BY <2>3, <3>1, <1>3 DEF CoreInv, LinkedRegions
  <2>. QED BY <2>2, <2>3, <1>4
<1>12. CarvedRegion' BY <1>1 DEF CarvedRegion
<1>13. BookkeepingSound' BY <1>1 DEF CoreInv, BookkeepingSound
<1>. QED BY <1>7, <1>8, <1>9, <1>10, <1>11, <1>12, <1>13 DEF CoreInv

(* The return of pmm_init preserves the invariant.                         *)
LEMMA InitReturnStep ==
    ASSUME SaneBootMap(ram_regions), CoreInv, pmm_init_return
    PROVE  CoreInv'
<1>1. /\ pc = "pmm_init" /\ pc' = "idle" /\ ram_regions' = ram_regions
      /\ g_regions' = g_regions /\ live' = live /\ offset' = offset /\ hand' = hand
      /\ region' = region /\ g_cursor' = g_cursor /\ current_ram' = current_ram
      /\ target_order' = target_order /\ panic' = panic
  BY DEF pmm_init_return, boot_vars
<1>2. /\ target_order \in Orders /\ IsRegion(region)
      /\ g_cursor \in EARLY_HEAP_START..EARLY_HEAP_END
      /\ current_ram \in 1..(Len(ram_regions) + 1)
      /\ panic \in PanicReasons
      /\ panic \notin {"double free", "not block aligned", "buddy not on free list"}
  BY DEF CoreInv, TypeOK, BookkeepingSound
<1>. QED BY <1>1, <1>2, QuietStep

(***************************************************************************)
(* Release of an owned block, and the invariant.                           *)
(***************************************************************************)

(* The address of a live block leads pmm_free back to that block:          *)
(* find_region_by_address finds its region, the division finds its pool    *)
(* entry, and none of pmm_free's checks refuses it.                        *)
LEMMA LiveAddress ==
    ASSUME CoreInv, pc = "idle", NEW b \in live,
           NEW address, address = AddressOf(b.region, b.block)
    PROVE  /\ b.region \in DOMAIN g_regions
           /\ find_region_by_address(address) = b.region
           /\ (address - g_regions[b.region].start) \div PAGE_SIZE = b.block
           /\ g_regions[b.region].block_pool[b.block] = UsedEntry(b.order)
           /\ free_fault(address) = "none"
<1> DEFINE r == b.region
           reg == g_regions[r]
<1>1. r \in DOMAIN g_regions /\ b \in Blocks BY DEF CoreInv, ControlInv, TypeOK
<1>2. b \in Within(Out, r) /\ Within(Merging, r) = {}
  BY DEF Out, Merging, Within
<1>3. GoodRegion(r, reg, Within(Out, r), {}, reg.block_pool_size)
  BY <1>1, <1>2 DEF CoreInv, LinkedRegions
<1>4. /\ b.block \in Nat /\ b.block < reg.block_pool_size
      /\ b.block % BLOCK_COUNT(b.order) = 0
      /\ reg.block_pool_size \in Nat
  <2> DEFINE blocks == AllBlocks(r, reg, Within(Out, r), {})
  <2>1. b \in blocks BY <1>2 DEF AllBlocks
  <2> HIDE DEF r, reg
  <2>2. /\ Tiling(blocks, reg.block_pool_size)
        /\ b.block \in 0..(reg.block_pool_size - 1) /\ reg.block_pool_size \in Nat
    BY <1>3, <2>1, GoodFacts
  <2> HIDE DEF blocks
  <2>3. b.block % BLOCK_COUNT(b.order) = 0 BY <2>1, <2>2 DEF Tiling
  <2>. QED BY <2>2, <2>3
<1>5. reg.block_pool[b.block] = UsedEntry(b.order)
  BY <1>2, <1>3 DEF GoodRegion, RegionInv
<1>6. /\ reg.start \in Nat /\ reg.start % PAGE_SIZE = 0
      /\ reg.end = reg.start + reg.block_pool_size * PAGE_SIZE
  BY <1>3 DEF GoodRegion, IsRegion
<1>7. address = reg.start + b.block * PAGE_SIZE BY DEF AddressOf
<1> HIDE DEF reg
<1>8. /\ address \in Nat /\ address >= reg.start /\ address < reg.end
      /\ address - reg.start = b.block * PAGE_SIZE
      /\ address % PAGE_SIZE = 0
  BY <1>4, <1>6, <1>7 DEF PAGE_SIZE
<1>9. InRegion(r, address) BY <1>8 DEF InRegion, reg
<1>10. \A q \in DOMAIN g_regions : InRegion(q, address) => q = r
  <2> SUFFICES ASSUME NEW q \in DOMAIN g_regions, q # r, InRegion(q, address)
               PROVE  FALSE
    OBVIOUS
  <2>1. IsRegion(g_regions[q]) /\ IsRegion(reg) BY <1>1 DEF CoreInv, TypeOK, reg
  <2>2. /\ g_regions[q].start \in Nat /\ g_regions[q].end \in Nat
        /\ reg.start \in Nat /\ reg.end \in Nat
    BY <2>1, RegionEnds
  <2>3. g_regions[q].end <= reg.start \/ reg.end <= g_regions[q].start
    BY <1>1 DEF CoreInv, RegionsApart, reg
  <2>4. g_regions[q].start <= address /\ address < g_regions[q].end
    BY <2>2, <1>8 DEF InRegion
  <2>. QED BY <2>2, <2>3, <2>4, <1>8
<1>11. DOMAIN g_regions = 1..Len(g_regions) /\ Len(g_regions) \in Nat
  <2>1. g_regions \in Seq(ToSet(g_regions)) BY DEF CoreInv, TypeOK
  <2>. QED BY <2>1
<1>12. find_region_by_address(address) = r
  <2>1. \A q \in 1..(r - 1) : ~InRegion(q, address)
    BY <1>1, <1>10, <1>11
  <2>2. \A p \in DOMAIN g_regions :
          (/\ InRegion(p, address) /\ \A q \in 1..(p - 1) : ~InRegion(q, address)) <=> p = r
    BY <2>1, <1>1, <1>9, <1>10
  <2>. QED BY <2>2, <1>1, <1>9 DEF find_region_by_address
<1>13. (address - reg.start) \div PAGE_SIZE = b.block
  BY <1>4, <1>8, DivBlock
<1>14. free_fault(address) = "none"
  <2>1. b.order \in Orders BY <1>1, BlockFacts
  <2>2. ~reg.block_pool[b.block].is_free /\ reg.block_pool[b.block].order = b.order
    BY <1>5, <2>1, Entries
  <2>3. r # 0 BY <1>1, <1>11
  <2>. QED BY <1>4, <1>8, <1>12, <1>13, <2>2, <2>3 DEF free_fault, reg
<1>. QED BY <1>1, <1>5, <1>12, <1>13, <1>14 DEF reg

(* pmm_free of a live block preserves the invariant.                       *)
LEMMA FreeLiveStep ==
    ASSUME SaneBootMap(ram_regions), CoreInv, NEW b \in live,
           NEW address, address = AddressOf(b.region, b.block), pmm_free(address)
    PROVE  CoreInv'
<1> DEFINE r == b.region
           reg == g_regions[r]
           s == set_block(reg, b.block, FreeEntry(b.order))
           out == Within(Out, r)
<1>1. pc = "idle" /\ UNCHANGED <<boot_vars, target_order>> BY DEF pmm_free
<1>2. CASE address = 0
  <2>1. /\ UNCHANGED <<boot_vars, live, g_regions, hand>> /\ target_order' \in Orders
        /\ UNCHANGED <<pc, panic>>
    BY <1>1, <1>2 DEF pmm_free, CoreInv, TypeOK
  <2>. QED BY <1>1, <2>1, QuietCall
<1>3. CASE address # 0
  <2>1. /\ r \in DOMAIN g_regions
        /\ find_region_by_address(address) = r
        /\ (address - g_regions[r].start) \div PAGE_SIZE = b.block
        /\ g_regions[r].block_pool[b.block] = UsedEntry(b.order)
        /\ free_fault(address) = "none"
    BY <1>1, LiveAddress
  <2>2. b \in Blocks BY DEF CoreInv, TypeOK
  <2>3. /\ g_regions[r].block_pool[b.block].order = b.order
        /\ b = [region |-> r, block |-> b.block, order |-> b.order]
    BY <2>1, <2>2, BlockFacts, Entries
  <2>4. /\ g_regions' = [g_regions EXCEPT ![r] = s]
        /\ hand' = b /\ live' = live \ {b} /\ pc' = "coalesce" /\ panic' = panic
    BY <1>3, <2>1, <2>3 DEF pmm_free
  <2>5. b \in out /\ Within(Merging, r) = {} BY <1>1 DEF Out, Merging, Within
  <2>6. GoodRegion(r, reg, out, {}, reg.block_pool_size)
    BY <2>1, <2>5 DEF CoreInv, LinkedRegions
  <2>7. GoodRegion(r, s, out \ {b}, {b}, reg.block_pool_size) /\ SameShape(s, reg)
    <3> HIDE DEF reg, out
    <3>. QED BY <2>5, <2>6, RegionGive
  <2> HIDE DEF s
  <2>8. /\ Within(Out', r) = out \ {b}
        /\ Within(Merging', r) = {b}
        /\ \A q \in DOMAIN g_regions : q # r => /\ Within(Out', q) = Within(Out, q)
                                                /\ Within(Merging', q) = Within(Merging, q)
    BY <1>1, <2>4 DEF Out, Merging, Within
  <2>9. /\ g_regions' \in Seq(ToSet(g_regions'))
        /\ DOMAIN g_regions' = DOMAIN g_regions
        /\ \A q \in DOMAIN g_regions' : IsRegion(g_regions'[q])
        /\ RegionsFromMap' /\ RegionsApart' /\ LinkedRegions'
    <3>1. current_ram' = current_ram /\ ram_regions' = ram_regions BY <1>1 DEF boot_vars
    <3> HIDE DEF out, r
    <3>. QED BY <2>1, <2>4, <2>7, <2>8, <3>1, RegionStep DEF reg
  <2>10. TypeOK' BY <1>1, <2>2, <2>4, <2>9 DEF CoreInv, TypeOK, boot_vars
  <2>11. ControlInv' BY <1>1, <2>1, <2>4, <2>9 DEF CoreInv, ControlInv, boot_vars
  <2>12. CarvedRegion' BY <2>4 DEF CarvedRegion
  <2>13. BookkeepingSound' BY <1>1, <2>4 DEF CoreInv, BookkeepingSound, boot_vars
  <2>. QED BY <2>9, <2>10, <2>11, <2>12, <2>13 DEF CoreInv
<1>. QED BY <1>2, <1>3

(* pmm_free preserves the invariant for a live block, for NULL and for a   *)
(* pointer that it refuses.                                                *)
LEMMA FreeStep ==
    ASSUME SaneBootMap(ram_regions), CoreInv, Free
    PROVE  CoreInv'
<1>1. target_order \in Orders BY DEF CoreInv, TypeOK
<1>2. CASE \E b \in live : pmm_free(AddressOf(b.region, b.block))
  BY <1>2, FreeLiveStep
<1>3. CASE pmm_free(0)
  <2>1. /\ UNCHANGED <<boot_vars, live, g_regions, hand>> /\ target_order' \in Orders
        /\ UNCHANGED <<pc, panic>> /\ pc = "idle"
    BY <1>1, <1>3 DEF pmm_free
  <2>. QED BY <2>1, QuietCall
<1>4. CASE \E a \in StrayAddresses : Refusable(a) /\ pmm_free(a)
  <2>1. PICK a \in StrayAddresses : Refusable(a) /\ pmm_free(a) BY <1>4
  <2>2. pc = "idle" /\ UNCHANGED <<boot_vars, target_order>> BY <2>1 DEF pmm_free
  <2>3. CASE a = 0 BY <1>3, <2>1, <2>3
  <2>4. CASE a # 0
    <3>1. free_fault(a) \in {"unaligned pointer", "no region"}
      BY <2>1 DEF Refusable, free_fault
    <3>2. /\ UNCHANGED <<boot_vars, live, g_regions, hand>> /\ target_order' \in Orders
          /\ pc' = "panic" /\ panic' = free_fault(a)
      BY <1>1, <2>1, <2>2, <2>4, <3>1 DEF pmm_free, KPANIC
    <3>. QED BY <2>2, <3>1, <3>2, QuietCall DEF PanicReasons
  <2>. QED BY <2>3, <2>4
<1>. QED BY <1>2, <1>3, <1>4 DEF Free

(* A step that changes nothing preserves the invariant.                    *)
LEMMA Unmoved ==
    ASSUME CoreInv, UNCHANGED vars
    PROVE  CoreInv'
<1>1. /\ g_cursor' = g_cursor /\ ram_regions' = ram_regions /\ current_ram' = current_ram
      /\ g_regions' = g_regions /\ region' = region /\ offset' = offset /\ pc' = pc
      /\ hand' = hand /\ target_order' = target_order /\ panic' = panic /\ live' = live
  BY DEF vars
<1>2. TypeOK' BY <1>1 DEF CoreInv, TypeOK
<1>3. ControlInv' BY <1>1 DEF CoreInv, ControlInv
<1>4. RegionsFromMap' /\ RegionsApart' BY <1>1 DEF CoreInv, RegionsFromMap, RegionsApart
<1>5. CarvedRegion' BY <1>1 DEF CoreInv, CarvedRegion
<1>6. LinkedRegions' BY <1>1 DEF CoreInv, LinkedRegions, Out, Merging
<1>7. BookkeepingSound' BY <1>1 DEF CoreInv, BookkeepingSound
<1>. QED BY <1>2, <1>3, <1>4, <1>5, <1>6, <1>7 DEF CoreInv

(* The state before pmm_init satisfies the invariant.                      *)
LEMMA InitEstablishes ==
    ASSUME Init
    PROVE  CoreInv
<1>1. /\ g_cursor = EARLY_HEAP_START /\ ram_regions \in BootMaps /\ current_ram = 1
      /\ g_regions = <<>> /\ region = NoRegion /\ offset = 0 /\ pc = "pmm_init"
      /\ hand = NoBlock /\ target_order = 0 /\ panic = "none" /\ live = {}
  BY DEF Init, EmmInit
<1>2. NoBlock \in Blocks /\ 0 \in Orders
  BY PmmAssumption DEF NoBlock, Blocks, Orders
<1>3. DOMAIN g_regions = {} /\ g_regions \in Seq(ToSet(g_regions)) BY <1>1
<1>4. g_cursor \in EARLY_HEAP_START..EARLY_HEAP_END BY <1>1, EmmAssumption
<1>5. current_ram \in 1..(Len(ram_regions) + 1)
  <2>1. ram_regions \in Seq([base_address : Nat, length : Nat]) BY <1>1, PmmAssumption
  <2>. QED BY <2>1, <1>1
<1>6. TypeOK
  BY <1>1, <1>2, <1>3, <1>4, <1>5, NoRegionTyped DEF TypeOK, PanicReasons
<1>7. ControlInv BY <1>1 DEF ControlInv
<1>8. RegionsFromMap /\ RegionsApart /\ LinkedRegions
  BY <1>3 DEF RegionsFromMap, RegionsApart, LinkedRegions
<1>9. CarvedRegion /\ BookkeepingSound BY <1>1 DEF CarvedRegion, BookkeepingSound
<1>. QED BY <1>6, <1>7, <1>8, <1>9 DEF CoreInv

(* Every step preserves the invariant.                                     *)
LEMMA StepPreserves ==
    ASSUME PmmInv, [Next]_vars
    PROVE  PmmInv'
<1>1. SUFFICES ASSUME SaneBootMap(ram_regions)'
               PROVE  CoreInv'
  BY DEF PmmInv
<1>2. ram_regions' = ram_regions
  BY DEF Next, vars, boot_vars, pmm_init, carve, link_region, pmm_init_return, Allocate,
         split, alloc_return, Free, pmm_free, coalesce, free_return, Halted
<1>3. SaneBootMap(ram_regions) BY <1>1, <1>2 DEF SaneBootMap
<1>4. CoreInv BY <1>3 DEF PmmInv
<1>5. CASE pmm_init BY <1>3, <1>4, <1>5, PmmInitStep
<1>6. CASE carve BY <1>3, <1>4, <1>6, CarveStep
<1>7. CASE link_region BY <1>3, <1>4, <1>7, LinkStep
<1>8. CASE pmm_init_return BY <1>3, <1>4, <1>8, InitReturnStep
<1>9. CASE Allocate BY <1>3, <1>4, <1>9, AllocateStep
<1>10. CASE split BY <1>3, <1>4, <1>10, SplitStep
<1>11. CASE alloc_return BY <1>3, <1>4, <1>11, AllocReturnStep
<1>12. CASE Free BY <1>3, <1>4, <1>12, FreeStep
<1>13. CASE coalesce BY <1>3, <1>4, <1>13, CoalesceStep
<1>14. CASE free_return BY <1>3, <1>4, <1>14, FreeReturnStep
<1>15. CASE Halted \/ UNCHANGED vars BY <1>4, <1>15, Unmoved DEF Halted
<1>. QED BY <1>5, <1>6, <1>7, <1>8, <1>9, <1>10, <1>11, <1>12, <1>13, <1>14, <1>15 DEF Next

(* The inductive invariant holds in every reachable state of the PMM, for  *)
(* every boot map of disjoint regions below the last page, every number of *)
(* regions and pages, every MAX_ORDER up to 10 and every sequence of       *)
(* calls.                                                                  *)
THEOREM PmmInvariant == Spec => []PmmInv
<1>1. Init => PmmInv BY InitEstablishes DEF PmmInv
<1>2. PmmInv /\ [Next]_vars => PmmInv' BY StepPreserves
<1>. QED BY <1>1, <1>2, PTL DEF Spec

(* For every such boot map and every sequence of allocations and frees of  *)
(* owned blocks, pmm_free accepts what the kernel owns, the buddy that     *)
(* pmm_free wants to unlink is on its list, and pmm_alloc_order's split    *)
(* never stores through NULL.                                              *)
THEOREM BookkeepingTheorem == Spec => []BookkeepingSound
<1>1. PmmInv => BookkeepingSound BY DEF PmmInv, CoreInv, BookkeepingSound
<1>. QED BY <1>1, PmmInvariant, PTL

(***************************************************************************)
(* Consequences.                                                           *)
(***************************************************************************)

(* The blocks of region r that the invariant speaks of are the ones that   *)
(* PagesConserved counts.                                                  *)
LEMMA RegionHolds ==
    ASSUME CoreInv, NEW r \in DOMAIN g_regions, NEW b
    PROVE  b \in AllBlocks(r, g_regions[r], Within(Out, r), Within(Merging, r))
             <=> b \in FreeBlocks \cup live \cup InHand /\ b.region = r
<1> DEFINE all == AllBlocks(r, g_regions[r], Within(Out, r), Within(Merging, r))
<1>1. InHand = (IF pc = "split" THEN {hand} ELSE {}) \cup Merging
  BY DEF InHand, Merging
<1>2. live \cup InHand = Out \cup Merging BY <1>1 DEF Out
<1>3. \A q \in DOMAIN g_regions : IsRegion(g_regions[q]) /\ q \in Nat
  BY DEF CoreInv, TypeOK, LinkedRegions, GoodRegion
<1>4. ASSUME b \in FreeBlocksOf(r, g_regions[r])
      PROVE  b \in FreeBlocks /\ b.region = r
  BY <1>3, <1>4, FreeBlocksTyped DEF FreeBlocks
<1>5. ASSUME b \in FreeBlocks, b.region = r
      PROVE  b \in FreeBlocksOf(r, g_regions[r])
  <2>1. PICK q \in DOMAIN g_regions : b \in FreeBlocksOf(q, g_regions[q])
    BY <1>5 DEF FreeBlocks
  <2>2. b.region = q BY <1>3, <2>1, FreeBlocksTyped
  <2>. QED BY <1>5, <2>1, <2>2
<1>6. b \in Within(Out, r) \cup Within(Merging, r) <=> b \in live \cup InHand /\ b.region = r
  BY <1>2 DEF Within
<1>. QED BY <1>4, <1>5, <1>6 DEF AllBlocks

(* Two ways of saying that a page belongs to a block.                      *)
LEMMA ExtentIsCovers ==
    ASSUME NEW b \in Blocks, NEW i \in Int
    PROVE  i \in Extent(b) <=> Covers(b, i)
<1>1. b.block \in Nat /\ BLOCK_COUNT(b.order) \in Nat BY BlockFacts
<1>. QED BY <1>1 DEF Extent, Covers, EndOf

(* The tilings of the regions say that no page is lost and none is held    *)
(* twice.                                                                  *)
LEMMA PagesConservedByInv ==
    ASSUME CoreInv
    PROVE  PagesConserved
<1> DEFINE blocks == FreeBlocks \cup live \cup InHand
           Holds(b, r, i) == b.region = r /\ i \in Extent(b)
<1> SUFFICES ASSUME NEW r \in DOMAIN g_regions,
                    NEW i \in 0..(g_regions[r].block_pool_size - 1)
             PROVE  /\ \E b \in blocks : Holds(b, r, i)
                    /\ \A b, c \in blocks : Holds(b, r, i) /\ Holds(c, r, i) => b = c
  BY DEF PagesConserved
<1> DEFINE reg == g_regions[r]
           out == Within(Out, r)
           merging == Within(Merging, r)
           all == AllBlocks(r, reg, out, merging)
<1>1. GoodRegion(r, reg, out, merging, reg.block_pool_size)
  BY DEF CoreInv, LinkedRegions
<1>2. \A b : b \in all <=> b \in blocks /\ b.region = r BY RegionHolds
<1>3. i \in 0..(reg.block_pool_size - 1) OBVIOUS
<1> HIDE DEF reg, out, merging, blocks
<1>4. all \in SUBSET Blocks /\ Tiling(all, reg.block_pool_size) BY <1>1, GoodFacts
<1> HIDE DEF all
<1>5. i \in Int BY <1>3
<1>6. \A b \in all : i \in Extent(b) <=> Covers(b, i) BY <1>4, <1>5, ExtentIsCovers
<1>7. \E b \in blocks : Holds(b, r, i)
  <2>1. PICK b \in all : Covers(b, i) BY <1>3, <1>4 DEF Tiling
  <2>. QED BY <2>1, <1>2, <1>6
<1>8. ASSUME NEW b \in blocks, NEW c \in blocks, Holds(b, r, i), Holds(c, r, i)
      PROVE  b = c
  <2>1. b \in all /\ c \in all /\ Covers(b, i) /\ Covers(c, i)
    BY <1>8, <1>2, <1>6
  <2>2. ASSUME b # c PROVE FALSE
    <3>1. Apart(b, c) BY <2>1, <2>2, <1>4 DEF Tiling
    <3>2. b \in Blocks /\ c \in Blocks BY <2>1, <1>4
    <3>3. b.block \in Nat /\ EndOf(b) \in Nat /\ c.block \in Nat /\ EndOf(c) \in Nat
      BY <3>2, BlockFacts
    <3>. QED BY <3>1, <3>3, <2>1, <1>5 DEF Apart, Covers
  <2>. QED BY <2>2
<1>. QED BY <1>7, <1>8

(* Live blocks of one region are apart in its tiling; regions are apart in *)
(* memory.                                                                 *)
LEMMA LiveDisjointByInv ==
    ASSUME CoreInv
    PROVE  LiveBlocksDisjoint
<1> SUFFICES ASSUME NEW a \in live, NEW b \in live, a # b,
                    NEW x \in Frames(a) \cap Frames(b)
             PROVE  FALSE
  BY DEF LiveBlocksDisjoint
<1>1. PICK i \in Extent(a) : x = AddressOf(a.region, i) BY DEF Frames
<1>2. PICK j \in Extent(b) : x = AddressOf(b.region, j) BY DEF Frames
<1> DEFINE blocks == FreeBlocks \cup live \cup InHand
<1>3. /\ a \in Blocks /\ b \in Blocks
      /\ a.region \in DOMAIN g_regions /\ b.region \in DOMAIN g_regions
  BY DEF CoreInv, TypeOK, ControlInv
<1>4. ASSUME NEW c \in live, NEW k \in Extent(c)
      PROVE  /\ k \in Nat /\ k < g_regions[c.region].block_pool_size
             /\ c \in AllBlocks(c.region, g_regions[c.region],
                                Within(Out, c.region), Within(Merging, c.region))
             /\ Covers(c, k)
  <2> DEFINE r == c.region
             reg == g_regions[r]
             out == Within(Out, r)
             merging == Within(Merging, r)
             all == AllBlocks(r, reg, out, merging)
  <2>1. r \in DOMAIN g_regions /\ c \in Blocks BY DEF CoreInv, TypeOK, ControlInv
  <2>2. c \in all BY <2>1, RegionHolds
  <2>3. GoodRegion(r, reg, out, merging, reg.block_pool_size)
    BY <2>1 DEF CoreInv, LinkedRegions
  <2> HIDE DEF r, reg, out, merging
  <2>4. Tiling(all, reg.block_pool_size) /\ reg.block_pool_size \in Nat
    BY <2>3, GoodFacts
  <2> HIDE DEF all
  <2>5. EndOf(c) <= reg.block_pool_size BY <2>2, <2>4 DEF Tiling
  <2>6. k \in Int BY <2>1, BlockFacts DEF Extent
  <2>7. Covers(c, k) BY <2>1, <2>6, ExtentIsCovers
  <2>8. c.block \in Nat /\ EndOf(c) \in Nat BY <2>1, BlockFacts
  <2>. QED BY <2>2, <2>4, <2>5, <2>6, <2>7, <2>8 DEF Covers, all, r, reg, out, merging
<1>5. /\ i \in Nat /\ i < g_regions[a.region].block_pool_size /\ Covers(a, i)
      /\ j \in Nat /\ j < g_regions[b.region].block_pool_size /\ Covers(b, j)
  BY <1>1, <1>2, <1>4
<1>6. CASE a.region = b.region
  <2> DEFINE r == a.region
             all == AllBlocks(r, g_regions[r], Within(Out, r), Within(Merging, r))
  <2>1. a \in all /\ b \in all BY <1>6, <1>1, <1>2, <1>4
  <2>2. g_regions[r].start \in Nat BY <1>3 DEF CoreInv, TypeOK, IsRegion
  <2>3. i = j BY <1>1, <1>2, <1>5, <1>6, <2>2 DEF AddressOf, PAGE_SIZE
  <2>4. GoodRegion(r, g_regions[r], Within(Out, r), Within(Merging, r),
                   g_regions[r].block_pool_size)
    BY <1>3 DEF CoreInv, LinkedRegions
  <2>5. Tiling(all, g_regions[r].block_pool_size) BY <2>4, GoodFacts
  <2> HIDE DEF all
  <2>6. Apart(a, b) BY <2>1, <2>5 DEF Tiling
  <2>7. a.block \in Nat /\ EndOf(a) \in Nat /\ b.block \in Nat /\ EndOf(b) \in Nat
    BY <1>3, BlockFacts
  <2>. QED BY <1>5, <2>3, <2>6, <2>7 DEF Apart, Covers
<1>7. CASE a.region # b.region
  <2> DEFINE p == g_regions[a.region]
             q == g_regions[b.region]
  <2>1. p.end <= q.start \/ q.end <= p.start BY <1>3, <1>7 DEF CoreInv, RegionsApart
  <2>2. IsRegion(p) /\ IsRegion(q) BY <1>3 DEF CoreInv, TypeOK
  <2>3. x = p.start + i * PAGE_SIZE /\ x = q.start + j * PAGE_SIZE
    BY <1>1, <1>2 DEF AddressOf
  <2>4. i < p.block_pool_size /\ j < q.block_pool_size BY <1>5
  <2> HIDE DEF p, q
  <2>5. /\ p.start \in Nat /\ p.block_pool_size \in Nat
        /\ p.end = p.start + p.block_pool_size * PAGE_SIZE
        /\ q.start \in Nat /\ q.block_pool_size \in Nat
        /\ q.end = q.start + q.block_pool_size * PAGE_SIZE
    BY <2>2 DEF IsRegion
  <2>6. p.start <= x /\ x < p.end /\ q.start <= x /\ x < q.end /\ x \in Nat
    BY <1>5, <2>3, <2>4, <2>5 DEF PAGE_SIZE
  <2>7. p.end \in Nat /\ q.end \in Nat BY <2>2, RegionEnds
  <2>. QED BY <2>1, <2>5, <2>6, <2>7
<1>. QED BY <1>6, <1>7

(* Between any two steps every page of every region belongs to exactly one *)
(* block that is in use, on a free list or held by the running operation:  *)
(* carving, splitting and coalescing lose no page and offer none twice.    *)
THEOREM ConservationTheorem == Spec => []PagesConserved
<1>1. PmmInv => PagesConserved
  BY PagesConservedByInv DEF PmmInv, PagesConserved
<1>. QED BY <1>1, PmmInvariant, PTL

(* pmm_alloc_order never hands out a page that is still in use: two live   *)
(* blocks share no physical page, not even across regions.                 *)
THEOREM DisjointTheorem == Spec => []LiveBlocksDisjoint
<1>1. PmmInv => LiveBlocksDisjoint
  BY LiveDisjointByInv DEF PmmInv, LiveBlocksDisjoint
<1>. QED BY <1>1, PmmInvariant, PTL
=============================================================================
