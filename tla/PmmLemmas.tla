------------------------------ MODULE PmmLemmas ------------------------------
(***************************************************************************)
(* Lemmas about the operators of Pmm: the arithmetic of buddies, tilings   *)
(* of a region by blocks, chains of free blocks, and what each operation   *)
(* of pmm.c does to a single region.                                       *)
(***************************************************************************)
EXTENDS PmmInductive, TLAPS, SequenceTheorems

(***************************************************************************)
(* Arithmetic of orders and buddies.                                       *)
(***************************************************************************)

(* BLOCK_COUNT is positive and doubles from one order to the next, as the  *)
(* shift 1U << order in pmm.h does.                                        *)
LEMMA BlockCount ==
    /\ \A o \in 0..10 : BLOCK_COUNT(o) \in Nat \ {0}
    /\ \A o \in 0..9 : BLOCK_COUNT(o + 1) = 2 * BLOCK_COUNT(o)
BY DEF BLOCK_COUNT

(* A block that is aligned for an order is aligned for the order below,    *)
(* and so is the middle of it: where pmm_alloc_order cuts it in two.       *)
LEMMA AlignedBelow ==
    ASSUME NEW o \in 0..9, NEW i \in Nat, i % BLOCK_COUNT(o + 1) = 0
    PROVE  /\ i % BLOCK_COUNT(o) = 0
           /\ (i + BLOCK_COUNT(o)) % BLOCK_COUNT(o) = 0
BY DEF BLOCK_COUNT

(* Two aligned block starts of one order that are less than a block apart  *)
(* are the same: an aligned page inside a block of its own order is the    *)
(* block's first page.                                                     *)
LEMMA AlignedAt ==
    ASSUME NEW o \in 0..10, NEW i \in Nat, NEW j \in Nat,
           i % BLOCK_COUNT(o) = 0, j % BLOCK_COUNT(o) = 0,
           j <= i, i < j + BLOCK_COUNT(o)
    PROVE  i = j
BY DEF BLOCK_COUNT

(* A block that is aligned for an order is aligned for every smaller       *)
(* order.                                                                  *)
LEMMA AlignedAnyBelow ==
    ASSUME NEW o \in 0..10, NEW p \in 0..o, NEW i \in Nat, i % BLOCK_COUNT(o) = 0
    PROVE  /\ i % BLOCK_COUNT(p) = 0
           /\ BLOCK_COUNT(o) % BLOCK_COUNT(p) = 0
BY DEF BLOCK_COUNT


(* What the exclusive or of get_buddy_block computes: the other half of    *)
(* the aligned pair that a block belongs to.  The lower of the two halves  *)
(* is aligned for the next order, which is what the coalescing loop of     *)
(* pmm_free relies on.                                                     *)
LEMMA BuddyPair ==
    ASSUME NEW o \in 0..9, NEW i \in Nat, i % BLOCK_COUNT(o) = 0
    PROVE  /\ get_buddy_block(i, o) \in Nat
           /\ get_buddy_block(i, o) # i
           /\ get_buddy_block(i, o) % BLOCK_COUNT(o) = 0
           /\ merged_block(i, get_buddy_block(i, o)) \in Nat
           /\ merged_block(i, get_buddy_block(i, o)) % BLOCK_COUNT(o + 1) = 0
           /\ \/ /\ i = merged_block(i, get_buddy_block(i, o))
                 /\ get_buddy_block(i, o) = i + BLOCK_COUNT(o)
              \/ /\ get_buddy_block(i, o) = merged_block(i, get_buddy_block(i, o))
                 /\ i = get_buddy_block(i, o) + BLOCK_COUNT(o)
<1>0. CASE o = 0 BY <1>0 DEF BLOCK_COUNT, get_buddy_block, merged_block
<1>1. CASE o = 1 BY <1>1 DEF BLOCK_COUNT, get_buddy_block, merged_block
<1>2. CASE o = 2 BY <1>2 DEF BLOCK_COUNT, get_buddy_block, merged_block
<1>3. CASE o = 3 BY <1>3 DEF BLOCK_COUNT, get_buddy_block, merged_block
<1>4. CASE o = 4 BY <1>4 DEF BLOCK_COUNT, get_buddy_block, merged_block
<1>5. CASE o = 5 BY <1>5 DEF BLOCK_COUNT, get_buddy_block, merged_block
<1>6. CASE o = 6 BY <1>6 DEF BLOCK_COUNT, get_buddy_block, merged_block
<1>7. CASE o = 7 BY <1>7 DEF BLOCK_COUNT, get_buddy_block, merged_block
<1>8. CASE o = 8 BY <1>8 DEF BLOCK_COUNT, get_buddy_block, merged_block
<1>9. CASE o = 9 BY <1>9 DEF BLOCK_COUNT, get_buddy_block, merged_block
<1>. QED BY <1>0, <1>1, <1>2, <1>3, <1>4, <1>5, <1>6, <1>7, <1>8, <1>9

(* Two starts aligned for the order above are equal or a whole pair apart. *)
LEMMA MultiplesApart ==
    ASSUME NEW o \in 0..9, NEW a \in Nat, NEW d \in Nat, 
           a % BLOCK_COUNT(o + 1) = 0, d % BLOCK_COUNT(o + 1) = 0,
           a < d + BLOCK_COUNT(o + 1)
    PROVE  a <= d
<1>0. CASE o = 0 BY <1>0 DEF BLOCK_COUNT
<1>1. CASE o = 1 BY <1>1 DEF BLOCK_COUNT
<1>2. CASE o = 2 BY <1>2 DEF BLOCK_COUNT
<1>3. CASE o = 3 BY <1>3 DEF BLOCK_COUNT
<1>4. CASE o = 4 BY <1>4 DEF BLOCK_COUNT
<1>5. CASE o = 5 BY <1>5 DEF BLOCK_COUNT
<1>6. CASE o = 6 BY <1>6 DEF BLOCK_COUNT
<1>7. CASE o = 7 BY <1>7 DEF BLOCK_COUNT
<1>8. CASE o = 8 BY <1>8 DEF BLOCK_COUNT
<1>9. CASE o = 9 BY <1>9 DEF BLOCK_COUNT
<1>. QED BY <1>0, <1>1, <1>2, <1>3, <1>4, <1>5, <1>6, <1>7, <1>8, <1>9

(* Offsets aligned for an order add up to an aligned offset.               *)
LEMMA SumAligned ==
    ASSUME NEW o \in 0..9, NEW a \in Nat, NEW d \in Nat, 
           a % BLOCK_COUNT(o + 1) = 0, d % BLOCK_COUNT(o + 1) = 0
    PROVE  (a + d) % BLOCK_COUNT(o + 1) = 0
<1>0. CASE o = 0 BY <1>0 DEF BLOCK_COUNT
<1>1. CASE o = 1 BY <1>1 DEF BLOCK_COUNT
<1>2. CASE o = 2 BY <1>2 DEF BLOCK_COUNT
<1>3. CASE o = 3 BY <1>3 DEF BLOCK_COUNT
<1>4. CASE o = 4 BY <1>4 DEF BLOCK_COUNT
<1>5. CASE o = 5 BY <1>5 DEF BLOCK_COUNT
<1>6. CASE o = 6 BY <1>6 DEF BLOCK_COUNT
<1>7. CASE o = 7 BY <1>7 DEF BLOCK_COUNT
<1>8. CASE o = 8 BY <1>8 DEF BLOCK_COUNT
<1>9. CASE o = 9 BY <1>9 DEF BLOCK_COUNT
<1>. QED BY <1>0, <1>1, <1>2, <1>3, <1>4, <1>5, <1>6, <1>7, <1>8, <1>9

(* A block of a larger order that reaches into an aligned pair contains    *)
(* all of the pair: buddies never straddle a larger block.                 *)
LEMMA PairInside ==
    ASSUME NEW o \in 0..9, NEW p \in (o + 1)..10,
           NEW low \in Nat, low % BLOCK_COUNT(o + 1) = 0,
           NEW j \in Nat, j % BLOCK_COUNT(p) = 0,
           NEW b \in Nat, low <= b, b < low + BLOCK_COUNT(o + 1),
           j <= b, b < j + BLOCK_COUNT(p)
    PROVE  j <= low /\ low + BLOCK_COUNT(o + 1) <= j + BLOCK_COUNT(p)
<1>1. p \in 0..10 /\ o + 1 \in 0..p /\ o + 1 \in 0..10
  OBVIOUS
<1>2. /\ j % BLOCK_COUNT(o + 1) = 0 
      /\ BLOCK_COUNT(p) % BLOCK_COUNT(o + 1) = 0
  BY <1>1, AlignedAnyBelow
<1>3. BLOCK_COUNT(p) \in Nat /\ BLOCK_COUNT(o + 1) \in Nat
  BY <1>1, BlockCount
<1>4. (j + BLOCK_COUNT(p)) % BLOCK_COUNT(o + 1) = 0
  BY <1>2, <1>3, SumAligned
<1>5. j <= low
  BY <1>2, <1>3, MultiplesApart
<1>6. ~ (j + BLOCK_COUNT(p) <= low)
  BY <1>3
<1>7. ~ (j + BLOCK_COUNT(p) < low + BLOCK_COUNT(o + 1))
  BY <1>3, <1>4, <1>6, MultiplesApart
<1>. QED BY <1>3, <1>5, <1>7

(***************************************************************************)
(* Tilings.                                                                *)
(***************************************************************************)

(* The types of a block's fields, and that it has at least one page.       *)
LEMMA BlockFacts ==
    ASSUME NEW b \in Blocks
    PROVE  /\ b.region \in Nat /\ b.block \in Nat /\ b.order \in 0..10
           /\ b.order \in Orders
           /\ BLOCK_COUNT(b.order) \in Nat \ {0}
           /\ EndOf(b) \in Nat
           /\ b.block < EndOf(b)
           /\ b = [region |-> b.region, block |-> b.block, order |-> b.order]
<1>1. /\ b.region \in Nat /\ b.block \in Nat /\ b.order \in Orders
      /\ b = [region |-> b.region, block |-> b.block, order |-> b.order]
  BY DEF Blocks
<1>2. b.order \in 0..10
  BY <1>1, PmmAssumption DEF Orders
<1>3. BLOCK_COUNT(b.order) \in Nat \ {0}
  BY <1>2, BlockCount
<1>. QED BY <1>1, <1>2, <1>3 DEF EndOf

(* Blocks of a tiling can be exchanged for others that cover the same      *)
(* pages.                                                                  *)
LEMMA TilingReplace ==
    ASSUME NEW blocks \in SUBSET Blocks, NEW limit \in Nat, Tiling(blocks, limit),
           NEW old \in SUBSET blocks, NEW new \in SUBSET Blocks,
           \A b \in new : b.block % BLOCK_COUNT(b.order) = 0,
           \A b, c \in new : b # c => Apart(b, c),
           \A i \in Nat : (\E b \in old : Covers(b, i)) <=> (\E b \in new : Covers(b, i))
    PROVE  Tiling((blocks \ old) \cup new, limit)
<1> DEFINE all == (blocks \ old) \cup new
<1>1. ASSUME NEW b \in all
      PROVE  b.block % BLOCK_COUNT(b.order) = 0 /\ EndOf(b) <= limit
  <2>1. CASE b \in blocks BY <2>1 DEF Tiling
  <2>2. CASE b \in new
    <3>1. b.block % BLOCK_COUNT(b.order) = 0 BY <2>2
    <3>2. EndOf(b) - 1 \in Nat /\ Covers(b, EndOf(b) - 1)
      BY <2>2, BlockFacts DEF Covers
    <3>3. PICK a \in old : Covers(a, EndOf(b) - 1)
      BY <2>2, <3>2
    <3>4. EndOf(a) <= limit BY DEF Tiling
    <3>. QED BY <2>2, <3>1, <3>3, <3>4, BlockFacts DEF Covers
  <2>. QED BY <2>1, <2>2
<1>2. ASSUME NEW b \in new, NEW c \in blocks \ old
      PROVE  Apart(b, c) /\ Apart(c, b)
  <2>1. SUFFICES ASSUME ~Apart(b, c) PROVE FALSE
    BY DEF Apart
  <2>2. PICK i \in Nat : Covers(b, i) /\ Covers(c, i)
    <3>1. CASE b.block <= c.block
      BY <2>1, <3>1, BlockFacts DEF Apart, Covers
    <3>2. CASE c.block <= b.block
      BY <2>1, <3>2, BlockFacts DEF Apart, Covers
    <3>. QED BY <3>1, <3>2, BlockFacts
  <2>3. PICK a \in old : Covers(a, i) BY <2>2
  <2>4. Apart(a, c) BY DEF Tiling
  <2>. QED BY <2>2, <2>3, <2>4, BlockFacts DEF Apart, Covers
<1>3. ASSUME NEW b \in all, NEW c \in all, b # c
      PROVE  Apart(b, c)
  <2>1. CASE b \in new /\ c \in new BY <2>1, <1>3
  <2>2. CASE b \in new /\ c \in blocks \ old BY <2>2, <1>2
  <2>3. CASE b \in blocks \ old /\ c \in new BY <2>3, <1>2
  <2>4. CASE b \in blocks \ old /\ c \in blocks \ old BY <2>4, <1>3 DEF Tiling
  <2>. QED BY <2>1, <2>2, <2>3, <2>4
<1>4. ASSUME NEW i \in 0..(limit - 1)
      PROVE  \E b \in all : Covers(b, i)
  <2>1. PICK b \in blocks : Covers(b, i) BY DEF Tiling
  <2>2. CASE b \in old BY <2>1, <2>2
  <2>3. CASE b \notin old BY <2>1, <2>3
  <2>. QED BY <2>2, <2>3
<1>. QED BY <1>1, <1>3, <1>4 DEF Tiling

(* One iteration of the split loop of pmm_alloc_order keeps the tiling:    *)
(* the two halves take the place of the block, and the upper half starts   *)
(* inside the region, so its pool entry exists.                            *)
LEMMA TilingSplit ==
    ASSUME NEW blocks \in SUBSET Blocks, NEW limit \in Nat, Tiling(blocks, limit),
           NEW h \in blocks, h.order > 0,
           NEW low, low = [h EXCEPT !.order = h.order - 1],
           NEW high, high = [region |-> h.region, order |-> h.order - 1,
                             block |-> split_buddy(h.block, h.order - 1)]
    PROVE  /\ Tiling((blocks \ {h}) \cup {low, high}, limit)
           /\ low \in Blocks /\ high \in Blocks
           /\ high.block < limit
<1> DEFINE o == h.order - 1
<1>1. /\ o \in 0..9 /\ o \in Orders /\ h.order = o + 1
      /\ h.block \in Nat /\ h.region \in Nat
  BY BlockFacts, PmmAssumption, SMTT(20) DEF Orders
<1>2. /\ BLOCK_COUNT(o) \in Nat \ {0}
      /\ BLOCK_COUNT(h.order) = 2 * BLOCK_COUNT(o)
  BY <1>1, BlockCount
<1>3. h.block % BLOCK_COUNT(o + 1) = 0 /\ EndOf(h) <= limit
  BY <1>1 DEF Tiling
<1>4. /\ h.block % BLOCK_COUNT(o) = 0
      /\ (h.block + BLOCK_COUNT(o)) % BLOCK_COUNT(o) = 0
  BY <1>1, <1>3, AlignedBelow
<1>5. /\ low = [region |-> h.region, block |-> h.block, order |-> o]
      /\ high = [region |-> h.region, block |-> h.block + BLOCK_COUNT(o), order |-> o]
      /\ low \in Blocks /\ high \in Blocks
  BY <1>1, <1>2, BlockFacts DEF split_buddy, Blocks
<1>6. /\ EndOf(low) = high.block
      /\ EndOf(high) = EndOf(h)
      /\ low.block = h.block
  BY <1>1, <1>2, <1>5 DEF EndOf
<1>7. \A b \in {low, high} : b.block % BLOCK_COUNT(b.order) = 0
  BY <1>4, <1>5
<1>8. \A b, c \in {low, high} : b # c => Apart(b, c)
  BY <1>5, <1>6, BlockFacts DEF Apart
<1>9. \A i \in Nat : (\E b \in {h} : Covers(b, i)) <=> (\E b \in {low, high} : Covers(b, i))
  BY <1>1, <1>2, <1>5, <1>6, BlockFacts DEF Covers
<1>10. high.block < limit
  BY <1>3, <1>5, <1>6, BlockFacts
<1> HIDE DEF o
<1> DEFINE old == {h}
           new == {low, high}
<1>11. /\ old \in SUBSET blocks /\ new \in SUBSET Blocks
       /\ \A b \in new : b.block % BLOCK_COUNT(b.order) = 0
       /\ \A b, c \in new : b # c => Apart(b, c)
       /\ \A i \in Nat : (\E b \in old : Covers(b, i)) <=> (\E b \in new : Covers(b, i))
  BY <1>5, <1>7, <1>8, <1>9
<1> HIDE DEF old, new
<1>12. Tiling((blocks \ old) \cup new, limit)
  BY <1>11, TilingReplace
<1>. QED BY <1>5, <1>10, <1>12 DEF old, new

(* One iteration of the coalescing loop of pmm_free keeps the tiling: the  *)
(* block of the next order takes the place of the two buddies.             *)
LEMMA TilingMerge ==
    ASSUME NEW blocks \in SUBSET Blocks, NEW limit \in Nat, Tiling(blocks, limit),
           NEW h \in blocks, NEW c \in blocks, h.order < MAX_ORDER,
           c.order = h.order, c.block = get_buddy_block(h.block, h.order),
           NEW m, m = [region |-> h.region, order |-> h.order + 1,
                       block |-> merged_block(h.block, c.block)]
    PROVE  /\ Tiling((blocks \ {h, c}) \cup {m}, limit)
           /\ m \in Blocks
<1> DEFINE o == h.order
<1>1. o \in 0..9 /\ o \in Orders /\ o + 1 \in Orders
  <2>1. h.order \in 0..10 /\ h.order \in Orders BY BlockFacts
  <2>. QED BY <2>1, PmmAssumption DEF Orders
<1>2. /\ BLOCK_COUNT(o) \in Nat \ {0}
      /\ BLOCK_COUNT(o + 1) = 2 * BLOCK_COUNT(o)
  BY <1>1, BlockCount
<1>3. h.block % BLOCK_COUNT(o) = 0 /\ h.block \in Nat /\ h.region \in Nat
  BY BlockFacts DEF Tiling
<1>4. /\ m.block \in Nat
      /\ m.block % BLOCK_COUNT(o + 1) = 0
      /\ \/ m.block = h.block /\ c.block = h.block + BLOCK_COUNT(o)
         \/ m.block = c.block /\ h.block = c.block + BLOCK_COUNT(o)
  BY <1>1, <1>3, BuddyPair
<1>5. m \in Blocks /\ m.order = o + 1
  BY <1>1, <1>3, <1>4 DEF Blocks
<1>6. \A i \in Nat : (\E b \in {h, c} : Covers(b, i)) <=> (\E b \in {m} : Covers(b, i))
  BY <1>2, <1>4, <1>5, BlockFacts DEF Covers, EndOf
<1>7. \A b \in {m} : b.block % BLOCK_COUNT(b.order) = 0
  BY <1>4, <1>5
<1> HIDE DEF o
<1> DEFINE old == {h, c}
           new == {m}
<1>8. /\ old \in SUBSET blocks /\ new \in SUBSET Blocks
      /\ \A b \in new : b.block % BLOCK_COUNT(b.order) = 0
      /\ \A b, d \in new : b # d => Apart(b, d)
      /\ \A i \in Nat : (\E b \in old : Covers(b, i)) <=> (\E b \in new : Covers(b, i))
  BY <1>5, <1>6, <1>7
<1> HIDE DEF old, new
<1>9. Tiling((blocks \ old) \cup new, limit)
  BY <1>8, TilingReplace
<1>. QED BY <1>5, <1>9 DEF old, new

(* If the buddy's first page lies in the tiled part, some block starts     *)
(* there: pmm_free always finds the buddy's pool entry at the start of a   *)
(* block, never in the stale middle of one.                                *)
LEMMA BuddyIsBlock ==
    ASSUME NEW blocks \in SUBSET Blocks, NEW limit \in Nat, Tiling(blocks, limit),
           NEW h \in blocks, h.order < MAX_ORDER,
           get_buddy_block(h.block, h.order) < limit
    PROVE  \E c \in blocks \ {h} : c.block = get_buddy_block(h.block, h.order)
<1> DEFINE o == h.order
           b == get_buddy_block(h.block, o)
           low == merged_block(h.block, b)
<1>1. o \in 0..9 /\ h.block \in Nat /\ h.block % BLOCK_COUNT(o) = 0
  BY BlockFacts, PmmAssumption DEF Tiling, Orders
<1>2. /\ BLOCK_COUNT(o) \in Nat \ {0}
      /\ BLOCK_COUNT(o + 1) = 2 * BLOCK_COUNT(o)
  BY <1>1, BlockCount
<1>3. /\ b \in Nat /\ b # h.block /\ b % BLOCK_COUNT(o) = 0
      /\ low \in Nat /\ low % BLOCK_COUNT(o + 1) = 0
      /\ \/ h.block = low /\ b = h.block + BLOCK_COUNT(o)
         \/ b = low /\ h.block = b + BLOCK_COUNT(o)
  BY <1>1, BuddyPair
<1>4. PICK c \in blocks : Covers(c, b)
  BY <1>3 DEF Tiling
<1>5. c.block % BLOCK_COUNT(c.order) = 0 BY DEF Tiling
<1>6. c.block \in Nat /\ c.order \in 0..10 BY BlockFacts
<1>7. c.block <= b /\ b < c.block + BLOCK_COUNT(c.order)
  BY <1>4 DEF Covers, EndOf
<1> HIDE DEF b, low
<1>8. CASE c.order <= o
  <2>1. b % BLOCK_COUNT(c.order) = 0
    BY <1>1, <1>3, <1>6, <1>8, AlignedAnyBelow
  <2>2. b = c.block
    BY <2>1, <1>3, <1>5, <1>6, <1>7, AlignedAt
  <2>. QED BY <2>2, <1>3 DEF b
<1>9. CASE c.order > o
  <2>1. c.order \in (o + 1)..10 BY <1>1, <1>6, <1>9
  <2>2. low <= b /\ b < low + BLOCK_COUNT(o + 1) BY <1>1, <1>2, <1>3
  <2>3. c.block <= low /\ low + BLOCK_COUNT(o + 1) <= c.block + BLOCK_COUNT(c.order)
    BY <1>1, <1>3, <1>5, <1>6, <1>7, <2>1, <2>2, PairInside
  <2>4. Covers(c, h.block) /\ Covers(h, h.block)
    BY <2>3, <1>1, <1>2, <1>3, <1>6, BlockFacts DEF Covers, EndOf
  <2>5. c # h BY <1>9, <1>1
  <2>6. Apart(c, h) BY <2>5 DEF Tiling
  <2>. QED BY <2>4, <2>6, BlockFacts DEF Covers, Apart
<1>. QED BY <1>1, <1>6, <1>8, <1>9

(***************************************************************************)
(* Chains.                                                                 *)
(***************************************************************************)

(* What add_to_region_freelist does to the chain: one more block, and none *)
(* twice if it was not there.                                              *)
LEMMA PushFront ==
    ASSUME NEW S, NEW s \in Seq(S), NEW e \in S
    PROVE  /\ <<e>> \o s \in Seq(S)
           /\ ToSet(<<e>> \o s) = ToSet(s) \cup {e}
           /\ IsInjective(s) /\ e \notin ToSet(s) => IsInjective(<<e>> \o s)
<1> DEFINE t == <<e>> \o s
<1>1. /\ t \in Seq(S) /\ Len(t) = Len(s) + 1 /\ t[1] = e
      /\ \A k \in 1..Len(s) : t[k + 1] = s[k]
      /\ \A k \in 2..Len(t) : t[k] = s[k - 1]
      /\ DOMAIN t = 1..(Len(s) + 1) /\ DOMAIN s = 1..Len(s) /\ Len(s) \in Nat
  OBVIOUS
<1> HIDE DEF t
<1>2. ToSet(t) = ToSet(s) \cup {e}
  <2>1. ASSUME NEW x \in ToSet(t) PROVE x \in ToSet(s) \cup {e}
    <3>1. PICK k \in 1..(Len(s) + 1) : x = t[k] BY <1>1, <2>1 DEF ToSet
    <3>2. CASE k = 1 BY <3>1, <3>2, <1>1
    <3>3. CASE k # 1
      <4>1. k - 1 \in 1..Len(s) /\ t[k] = s[k - 1] BY <3>3, <1>1
      <4>. QED BY <4>1, <3>1, <1>1 DEF ToSet
    <3>. QED BY <3>2, <3>3
  <2>2. ASSUME NEW x \in ToSet(s) PROVE x \in ToSet(t)
    <3>1. PICK k \in 1..Len(s) : x = s[k] BY <1>1, <2>2 DEF ToSet
    <3>2. t[k + 1] = x /\ k + 1 \in 1..(Len(s) + 1) BY <3>1, <1>1
    <3>. QED BY <3>2, <1>1 DEF ToSet
  <2>3. e \in ToSet(t) BY <1>1 DEF ToSet
  <2>. QED BY <2>1, <2>2, <2>3
<1>3. ASSUME IsInjective(s), e \notin ToSet(s) PROVE IsInjective(t)
  <2>1. SUFFICES ASSUME NEW j \in 1..(Len(s) + 1), NEW k \in 1..(Len(s) + 1), t[j] = t[k]
                 PROVE  j = k
    BY <1>1 DEF IsInjective
  <2>2. \A m \in 2..(Len(s) + 1) : t[m] # e /\ t[m] = s[m - 1] /\ m - 1 \in 1..Len(s)
    BY <1>1, <1>3 DEF ToSet
  <2>3. CASE j = 1 \/ k = 1 BY <2>1, <2>2, <2>3, <1>1
  <2>4. CASE j # 1 /\ k # 1
    <3>1. s[j - 1] = s[k - 1] /\ j - 1 \in DOMAIN s /\ k - 1 \in DOMAIN s
      BY <2>1, <2>2, <2>4, <1>1
    <3>2. j - 1 = k - 1 BY <3>1, <1>3 DEF IsInjective
    <3>. QED BY <3>2
  <2>. QED BY <2>3, <2>4
<1>. QED BY <1>1, <1>2, <1>3 DEF t

(* What remove_from_region_freelist does to a chain without repetitions    *)
(* that holds the block: exactly that block leaves.                        *)
LEMMA Unlink ==
    ASSUME NEW S, NEW s \in Seq(S), NEW e \in ToSet(s), IsInjective(s)
    PROVE  /\ RemoveFirst(s, e) \in Seq(S)
           /\ ToSet(RemoveFirst(s, e)) = ToSet(s) \ {e}
           /\ IsInjective(RemoveFirst(s, e))
<1>1. DOMAIN s = 1..Len(s) /\ Len(s) \in Nat OBVIOUS
<1>2. PICK n \in 1..Len(s) : s[n] = e /\ RemoveFirst(s, e) = RemoveAt(s, n)
  <2>1. \E n \in 1..Len(s) : s[n] = e BY <1>1 DEF ToSet
  <2>2. PICK n \in 1..Len(s) : s[n] = e BY <2>1
  <2>3. {i \in 1..Len(s) : s[i] = e} = {n}
    BY <1>1, <2>2 DEF IsInjective
  <2>4. Min({n}) = n BY DEF Min
  <2>5. RemoveFirst(s, e) = RemoveAt(s, n)
    BY <2>1, <2>3, <2>4 DEF RemoveFirst, SelectInSeq
  <2>. QED BY <2>2, <2>5
<1> DEFINE t == RemoveAt(s, n)
<1>3. /\ t \in Seq(S) /\ Len(t) = Len(s) - 1
      /\ \A k \in 1..(n - 1) : t[k] = s[k]
      /\ \A k \in n..(Len(s) - 1) : t[k] = s[k + 1]
      /\ DOMAIN t = 1..(Len(s) - 1)
  <2> DEFINE a == SubSeq(s, 1, n - 1)
             z == SubSeq(s, n + 1, Len(s))
  <2>1. a \in Seq(S) /\ Len(a) = n - 1 /\ \A k \in 1..(n - 1) : a[k] = s[k]
    BY <1>1
  <2>2. z \in Seq(S) /\ Len(z) = Len(s) - n /\ \A k \in 1..(Len(s) - n) : z[k] = s[n + k]
    <3>1. \A i \in (n + 1)..Len(s) : s[i] \in S BY <1>1
    <3>2. n + 1 \in Int /\ Len(s) \in Int BY <1>1
    <3>3. /\ z \in Seq(S)
          /\ Len(z) = IF n + 1 <= Len(s) THEN Len(s) - (n + 1) + 1 ELSE 0
          /\ \A i \in 1..(Len(s) - (n + 1) + 1) : z[i] = s[(n + 1) + i - 1]
      BY <3>1, <3>2, SubSeqProperties
    <3> HIDE DEF z
    <3>4. Len(z) = Len(s) - n BY <3>3, <1>1
    <3>5. ASSUME NEW k \in 1..(Len(s) - n) PROVE z[k] = s[n + k]
      <4>1. k \in 1..(Len(s) - (n + 1) + 1) /\ (n + 1) + k - 1 = n + k BY <1>1
      <4>. QED BY <4>1, <3>3
    <3>. QED BY <3>3, <3>4, <3>5
  <2>3. t = a \o z BY DEF RemoveAt
  <2> HIDE DEF a, z, t
  <2>4. t \in Seq(S) /\ Len(t) = Len(s) - 1
    <3>1. t \in Seq(S) /\ Len(t) = Len(a) + Len(z) BY <2>1, <2>2, <2>3, ConcatProperties
    <3>. QED BY <3>1, <1>1, <2>1, <2>2
  <2>5. \A k \in 1..(n - 1) : t[k] = s[k] BY <1>1, <2>1, <2>2, <2>3
  <2>6. ASSUME NEW k \in n..(Len(s) - 1) PROVE t[k] = s[k + 1]
    <3>1. t[k] = z[k - (n - 1)] BY <1>1, <2>1, <2>2, <2>3
    <3>2. k - (n - 1) \in 1..(Len(s) - n) /\ n + (k - (n - 1)) = k + 1 BY <1>1
    <3>. QED BY <3>1, <3>2, <2>2
  <2>. QED BY <2>4, <2>5, <2>6
<1> HIDE DEF t
<1>4. \A k \in 1..Len(s) : s[k] = e => k = n
  BY <1>1, <1>2 DEF IsInjective
<1>5. ToSet(t) = ToSet(s) \ {e}
  <2>1. ASSUME NEW x \in ToSet(t) PROVE x \in ToSet(s) \ {e}
    <3>1. PICK k \in 1..(Len(s) - 1) : x = t[k] BY <1>3 DEF ToSet
    <3>2. PICK j \in 1..Len(s) : j # n /\ x = s[j]
      <4>1. CASE k < n BY <4>1, <3>1, <1>1, <1>3
      <4>2. CASE k >= n BY <4>2, <3>1, <1>1, <1>3
      <4>. QED BY <4>1, <4>2
    <3>. QED BY <3>2, <1>1, <1>4 DEF ToSet
  <2>2. ASSUME NEW x \in ToSet(s) \ {e} PROVE x \in ToSet(t)
    <3>1. PICK k \in 1..Len(s) : x = s[k] BY <1>1 DEF ToSet
    <3>2. k # n BY <3>1, <1>2
    <3>3. \E j \in 1..(Len(s) - 1) : x = t[j]
      <4>1. CASE k < n
        <5>1. k \in 1..(n - 1) /\ k \in 1..(Len(s) - 1) BY <4>1, <1>1
        <5>. QED BY <5>1, <3>1, <1>3
      <4>2. CASE k > n 
        <5>1. /\ k - 1 \in n..(Len(s) - 1) /\ (k - 1) + 1 = k
              /\ k - 1 \in 1..(Len(s) - 1)
          BY <4>2, <1>1
        <5>2. t[k - 1] = s[(k - 1) + 1] BY <5>1, <1>3
        <5>. QED BY <5>1, <5>2, <3>1
      <4>. QED BY <4>1, <4>2, <3>2
    <3>. QED BY <3>3, <1>3 DEF ToSet
  <2>. QED BY <2>1, <2>2
<1>6. IsInjective(t)
  <2>1. SUFFICES ASSUME NEW j \in 1..(Len(s) - 1), NEW k \in 1..(Len(s) - 1), t[j] = t[k]
                 PROVE  j = k
    BY <1>3 DEF IsInjective
  <2>2. \A i \in 1..(Len(s) - 1) : t[i] = s[IF i < n THEN i ELSE i + 1]
    <3>1. ASSUME NEW i \in 1..(Len(s) - 1) PROVE t[i] = s[IF i < n THEN i ELSE i + 1]
      <4>1. CASE i < n
        <5>1. i \in 1..(n - 1) BY <4>1
        <5>. QED BY <4>1, <5>1, <1>3
      <4>2. CASE ~(i < n)
        <5>1. i \in n..(Len(s) - 1) BY <4>2, <1>1
        <5>. QED BY <4>2, <5>1, <1>3
      <4>. QED BY <4>1, <4>2
    <3>. QED BY <3>1
  <2> DEFINE at(i) == IF i < n THEN i ELSE i + 1
  <2>3. at(j) \in DOMAIN s /\ at(k) \in DOMAIN s /\ s[at(j)] = s[at(k)]
    BY <2>1, <2>2, <1>1
  <2>4. at(j) = at(k) BY <2>3 DEF IsInjective
  <2>. QED BY <2>4
<1>. QED BY <1>2, <1>3, <1>5, <1>6 DEF t

(***************************************************************************)
(* The fields of a region.                                                 *)
(***************************************************************************)

(* The same pages, whatever their state.                                   *)
SameShape(s, reg) ==
    /\ s.start = reg.start
    /\ s.end = reg.end
    /\ s.block_pool_size = reg.block_pool_size

(* Membership in the set of free blocks, in terms of the lists.            *)
LEMMA FreeBlocksMember ==
    ASSUME NEW r, NEW reg, NEW b
    PROVE  b \in FreeBlocksOf(r, reg)
           <=> \E o \in Orders : \E i \in ToSet(reg.free_lists[o]) :
                 b = [region |-> r, block |-> i, order |-> o]
BY DEF FreeBlocksOf

(* The blocks on the lists of region r are blocks of r that start inside   *)
(* its pool.                                                               *)
LEMMA FreeBlocksTyped ==
    ASSUME NEW r \in Nat, NEW reg, IsRegion(reg)
    PROVE  \A b \in FreeBlocksOf(r, reg) :
             /\ b \in Blocks
             /\ b.region = r
             /\ b.block \in 0..(reg.block_pool_size - 1)
             /\ b.block \in ToSet(reg.free_lists[b.order])
<1>1. ASSUME NEW o \in Orders, NEW i \in ToSet(reg.free_lists[o])
      PROVE  i \in 0..(reg.block_pool_size - 1) /\ i \in Nat
  <2>1. reg.free_lists[o] \in Seq(0..(reg.block_pool_size - 1)) BY DEF IsRegion
  <2>2. reg.block_pool_size \in Nat BY DEF IsRegion
  <2>. QED BY <2>1, <2>2 DEF ToSet
<1>. QED BY <1>1, FreeBlocksMember DEF Blocks

(* The split loop stores a new order and leaves is_free alone; on the      *)
(* entry of a block in use that yields the entry of a smaller block in     *)
(* use.                                                                    *)
LEMMA UsedEntryOrder ==
    ASSUME NEW o, NEW e, e = UsedEntry(o), NEW p
    PROVE  [order |-> p, is_free |-> e.is_free] = UsedEntry(p)
BY DEF UsedEntry

(* The two kinds of pool entries are well typed and differ.                *)
LEMMA Entries ==
    ASSUME NEW o \in Orders
    PROVE  /\ FreeEntry(o) \in PageEntry /\ UsedEntry(o) \in PageEntry
           /\ FreeEntry(o).order = o /\ UsedEntry(o).order = o
           /\ FreeEntry(o).is_free /\ ~UsedEntry(o).is_free
           /\ FreeEntry(o) # UsedEntry(o)
<1>1. FreeEntry(o) \in PageEntry /\ UsedEntry(o) \in PageEntry
  BY DEF FreeEntry, UsedEntry, PageEntry
<1>2. FreeEntry(o).order = o /\ UsedEntry(o).order = o
  BY DEF FreeEntry, UsedEntry
<1>3. FreeEntry(o).is_free /\ ~UsedEntry(o).is_free
  BY DEF FreeEntry, UsedEntry
<1>4. FreeEntry(o) # UsedEntry(o)
  BY <1>3
<1>. QED BY <1>1, <1>2, <1>3, <1>4

(* Storing a pool entry changes that entry only: the region's shape and    *)
(* its free lists stay.                                                    *)
LEMMA SetBlock ==
    ASSUME NEW reg, IsRegion(reg), NEW i \in 0..(reg.block_pool_size - 1),
           NEW e \in PageEntry, NEW s, s = set_block(reg, i, e)
    PROVE  /\ IsRegion(s)
           /\ SameShape(s, reg)
           /\ s.free_lists = reg.free_lists
           /\ s.block_pool[i] = e
           /\ \A j \in 0..(reg.block_pool_size - 1) :
                j # i => s.block_pool[j] = reg.block_pool[j]
           /\ \A r : FreeBlocksOf(r, s) = FreeBlocksOf(r, reg)
           /\ ListsInjective(reg) => ListsInjective(s)
<1> DEFINE pool == [reg.block_pool EXCEPT ![i] = e]
<1>1. s = [start |-> reg.start, end |-> reg.end,
           block_pool_size |-> reg.block_pool_size,
           block_pool |-> pool, free_lists |-> reg.free_lists]
  BY DEF set_block, IsRegion
<1>2. /\ pool \in [0..(reg.block_pool_size - 1) -> PageEntry]
      /\ pool[i] = e
      /\ \A j \in 0..(reg.block_pool_size - 1) : j # i => pool[j] = reg.block_pool[j]
  BY DEF IsRegion
<1> HIDE DEF pool
<1>3. IsRegion(s)
  BY <1>1, <1>2 DEF IsRegion
<1>4. \A r : FreeBlocksOf(r, s) = FreeBlocksOf(r, reg)
  BY <1>1 DEF FreeBlocksOf
<1>5. ListsInjective(reg) => ListsInjective(s)
  BY <1>1 DEF ListsInjective
<1>. QED BY <1>1, <1>2, <1>3, <1>4, <1>5 DEF SameShape

WithList(reg, o, list) == [reg EXCEPT !.free_lists[o] = list]

(* Replacing one free list changes nothing else in the region.             *)
LEMMA ListChange ==
    ASSUME NEW reg, IsRegion(reg), NEW o \in Orders,
           NEW list \in Seq(0..(reg.block_pool_size - 1)),
           NEW s, s = WithList(reg, o, list)
    PROVE  /\ IsRegion(s)
           /\ SameShape(s, reg)
           /\ s.block_pool = reg.block_pool
           /\ s.free_lists[o] = list
           /\ \A p \in Orders : p # o => s.free_lists[p] = reg.free_lists[p]
<1> DEFINE lists == [reg.free_lists EXCEPT ![o] = list]
<1>1. s = [start |-> reg.start, end |-> reg.end,
           block_pool_size |-> reg.block_pool_size,
           block_pool |-> reg.block_pool, free_lists |-> lists]
  BY DEF IsRegion, WithList
<1>2. /\ lists \in [Orders -> Seq(0..(reg.block_pool_size - 1))]
      /\ lists[o] = list
      /\ \A p \in Orders : p # o => lists[p] = reg.free_lists[p]
  BY DEF IsRegion
<1> HIDE DEF lists
<1>3. IsRegion(s)
  <2>1. /\ reg.start \in Nat /\ reg.start % PAGE_SIZE = 0 /\ reg.block_pool_size \in Nat
        /\ reg.end = reg.start + reg.block_pool_size * PAGE_SIZE
        /\ reg.block_pool \in [0..(reg.block_pool_size - 1) -> PageEntry]
    BY DEF IsRegion
  <2>2. /\ s.start = reg.start /\ s.end = reg.end
        /\ s.block_pool_size = reg.block_pool_size
        /\ s.block_pool = reg.block_pool /\ s.free_lists = lists
    BY <1>1
  <2>. QED BY <1>1, <1>2, <2>1, <2>2 DEF IsRegion
<1>. QED BY <1>1, <1>2, <1>3 DEF SameShape

(* add_to_region_freelist adds one block to the free blocks and keeps the  *)
(* lists free of repetitions if the block was not free before.             *)
LEMMA AddToFreelist ==
    ASSUME NEW reg, IsRegion(reg), NEW i \in 0..(reg.block_pool_size - 1),
           NEW o \in Orders, NEW s, s = add_to_region_freelist(reg, i, o),
           NEW r \in Nat, NEW b, b = [region |-> r, block |-> i, order |-> o]
    PROVE  /\ IsRegion(s)
           /\ SameShape(s, reg)
           /\ s.block_pool = reg.block_pool
           /\ FreeBlocksOf(r, s) = FreeBlocksOf(r, reg) \cup {b}
           /\ ListsInjective(reg) /\ b \notin FreeBlocksOf(r, reg) => ListsInjective(s)
<1> DEFINE list == <<i>> \o reg.free_lists[o]
<1>1. reg.free_lists[o] \in Seq(0..(reg.block_pool_size - 1)) BY DEF IsRegion
<1>2. /\ list \in Seq(0..(reg.block_pool_size - 1))
      /\ ToSet(list) = ToSet(reg.free_lists[o]) \cup {i}
      /\ IsInjective(reg.free_lists[o]) /\ i \notin ToSet(reg.free_lists[o])
            => IsInjective(list)
  BY <1>1, PushFront
<1>3. s = WithList(reg, o, list) BY DEF add_to_region_freelist, WithList
<1> HIDE DEF list
<1>4. /\ IsRegion(s) /\ SameShape(s, reg) /\ s.block_pool = reg.block_pool
      /\ s.free_lists[o] = list
      /\ \A p \in Orders : p # o => s.free_lists[p] = reg.free_lists[p]
  BY <1>2, <1>3, ListChange
<1>5. \A x : x \in FreeBlocksOf(r, s) <=> x \in FreeBlocksOf(r, reg) \cup {b}
  BY <1>2, <1>4, FreeBlocksMember
<1>6. ASSUME ListsInjective(reg), b \notin FreeBlocksOf(r, reg)
      PROVE  ListsInjective(s)
  <2>1. i \notin ToSet(reg.free_lists[o]) BY <1>6, FreeBlocksMember
  <2>. QED BY <2>1, <1>2, <1>4, <1>6 DEF ListsInjective
<1>. QED BY <1>4, <1>5, <1>6

(* remove_from_region_freelist takes exactly the given block off the free  *)
(* blocks.                                                                 *)
LEMMA RemoveFromFreelist ==
    ASSUME NEW reg, IsRegion(reg), NEW o \in Orders, NEW i \in ToSet(reg.free_lists[o]),
           NEW s, s = remove_from_region_freelist(reg, i, o), ListsInjective(reg),
           NEW r \in Nat, NEW b, b = [region |-> r, block |-> i, order |-> o]
    PROVE  /\ IsRegion(s)
           /\ SameShape(s, reg)
           /\ s.block_pool = reg.block_pool
           /\ b \in FreeBlocksOf(r, reg)
           /\ FreeBlocksOf(r, s) = FreeBlocksOf(r, reg) \ {b}
           /\ ListsInjective(s)
<1> DEFINE list == RemoveFirst(reg.free_lists[o], i)
<1>1. reg.free_lists[o] \in Seq(0..(reg.block_pool_size - 1)) BY DEF IsRegion
<1>2. /\ list \in Seq(0..(reg.block_pool_size - 1))
      /\ ToSet(list) = ToSet(reg.free_lists[o]) \ {i}
      /\ IsInjective(list)
  BY <1>1, Unlink DEF ListsInjective
<1>3. s = WithList(reg, o, list) BY DEF remove_from_region_freelist, WithList
<1> HIDE DEF list
<1>4. /\ IsRegion(s) /\ SameShape(s, reg) /\ s.block_pool = reg.block_pool
      /\ s.free_lists[o] = list
      /\ \A p \in Orders : p # o => s.free_lists[p] = reg.free_lists[p]
  BY <1>2, <1>3, ListChange
<1>5. b \in FreeBlocksOf(r, reg) BY FreeBlocksMember
<1>6. \A x : x \in FreeBlocksOf(r, s) <=> x \in FreeBlocksOf(r, reg) \ {b}
  <2>1. ASSUME NEW x \in FreeBlocksOf(r, s) PROVE x \in FreeBlocksOf(r, reg) \ {b}
    <3>1. PICK p \in Orders : \E j \in ToSet(s.free_lists[p]) : x = [region |-> r, block |-> j, order |-> p]
      BY FreeBlocksMember
    <3>2. PICK j \in ToSet(s.free_lists[p]) : x = [region |-> r, block |-> j, order |-> p]
      BY <3>1
    <3>3. j \in ToSet(reg.free_lists[p]) /\ (p = o => j # i) BY <1>2, <1>4, <3>2
    <3>. QED BY <3>2, <3>3, FreeBlocksMember
  <2>2. ASSUME NEW x \in FreeBlocksOf(r, reg) \ {b} PROVE x \in FreeBlocksOf(r, s)
    <3>1. PICK p \in Orders : \E j \in ToSet(reg.free_lists[p]) : x = [region |-> r, block |-> j, order |-> p]
      BY FreeBlocksMember
    <3>2. PICK j \in ToSet(reg.free_lists[p]) : x = [region |-> r, block |-> j, order |-> p]
      BY <3>1
    <3>3. j \in ToSet(s.free_lists[p]) BY <1>2, <1>4, <3>2
    <3>. QED BY <3>2, <3>3, FreeBlocksMember
  <2>. QED BY <2>1, <2>2
<1>7. ListsInjective(s) BY <1>2, <1>4 DEF ListsInjective
<1>. QED BY <1>4, <1>5, <1>6, <1>7

(***************************************************************************)
(* A single region under the operations of pmm.c.                          *)
(***************************************************************************)

(* The blocks of a region, wherever they are kept.                         *)
AllBlocks(r, reg, out, merging) == FreeBlocksOf(r, reg) \cup out \cup merging

(* What a good region gives: its blocks tile it, start in its pool, are    *)
(* told apart by their first page, and the three ways a block can be held  *)
(* exclude each other.                                                     *)
LEMMA GoodFacts ==
    ASSUME NEW r, NEW reg, NEW out, NEW merging, NEW limit,
           GoodRegion(r, reg, out, merging, limit)
    PROVE  /\ AllBlocks(r, reg, out, merging) \in SUBSET Blocks
           /\ Tiling(AllBlocks(r, reg, out, merging), limit)
           /\ \A b \in AllBlocks(r, reg, out, merging) :
                /\ b.region = r
                /\ b.block \in 0..(limit - 1)
                /\ b.block \in 0..(reg.block_pool_size - 1)
           /\ \A b, c \in AllBlocks(r, reg, out, merging) : b.block = c.block => b = c
           /\ limit \in Nat /\ reg.block_pool_size \in Nat /\ limit <= reg.block_pool_size
           /\ r \in Nat
           /\ FreeBlocksOf(r, reg) \cap out = {}
           /\ FreeBlocksOf(r, reg) \cap merging = {}
           /\ out \cap merging = {}
<1> DEFINE all == AllBlocks(r, reg, out, merging)
<1>1. all \in SUBSET Blocks /\ \A b \in all : b.region = r
  BY FreeBlocksTyped DEF GoodRegion, AllBlocks
<1>2. Tiling(all, limit)
  BY DEF GoodRegion, RegionInv, AllBlocks
<1>3. limit \in Nat /\ reg.block_pool_size \in Nat /\ limit <= reg.block_pool_size /\ r \in Nat
  BY DEF GoodRegion, IsRegion
<1>4. \A b \in all : b.block < EndOf(b) /\ b.block \in Nat /\ EndOf(b) \in Nat
  BY <1>1, BlockFacts
<1>5. \A b \in all : b.block \in 0..(limit - 1) /\ b.block \in 0..(reg.block_pool_size - 1)
  BY <1>2, <1>3, <1>4 DEF Tiling
<1>6. \A b, c \in all : b.block = c.block => b = c
  BY <1>2, <1>4 DEF Tiling, Apart
<1>7. /\ \A b \in FreeBlocksOf(r, reg) \cup merging : reg.block_pool[b.block] = FreeEntry(b.order)
      /\ \A b \in out : reg.block_pool[b.block] = UsedEntry(b.order)
      /\ FreeBlocksOf(r, reg) \cap merging = {}
  BY DEF GoodRegion, RegionInv
<1>8. \A b \in all : FreeEntry(b.order) # UsedEntry(b.order)
  BY <1>1, BlockFacts, Entries
<1>9. FreeBlocksOf(r, reg) \cap out = {} /\ out \cap merging = {}
  BY <1>7, <1>8 DEF AllBlocks
<1>. QED BY <1>1, <1>2, <1>3, <1>5, <1>6, <1>7, <1>9

(* pmm_alloc_order: a block leaves its free list. *)
(* pmm_alloc_order before its split loop: a block leaves the head of a     *)
(* free list and is marked as used.                                        *)
LEMMA RegionTake ==
    ASSUME NEW r, NEW reg, NEW out, NEW limit,
           GoodRegion(r, reg, out, {}, limit),
           NEW o \in Orders, NEW i \in ToSet(reg.free_lists[o]),
           NEW b, b = [region |-> r, block |-> i, order |-> o],
           NEW t, t = remove_from_region_freelist(reg, i, o),
           NEW s, s = set_block(t, i, UsedEntry(t.block_pool[i].order))
    PROVE  /\ GoodRegion(r, s, out \cup {b}, {}, limit)
           /\ SameShape(s, reg)
           /\ b \in Blocks
           /\ b \notin out
<1>1. IsRegion(reg) /\ r \in Nat /\ ListsInjective(reg)
  BY DEF GoodRegion, RegionInv
<1>2. /\ IsRegion(t) /\ SameShape(t, reg) /\ t.block_pool = reg.block_pool
      /\ b \in FreeBlocksOf(r, reg)
      /\ FreeBlocksOf(r, t) = FreeBlocksOf(r, reg) \ {b}
      /\ ListsInjective(t)
  BY <1>1, RemoveFromFreelist
<1> DEFINE all == AllBlocks(r, reg, out, {})
<1>3. b \in all BY <1>2 DEF AllBlocks
<1>4. /\ i \in 0..(reg.block_pool_size - 1)
      /\ b \in Blocks
      /\ \A c \in all : c.block \in 0..(reg.block_pool_size - 1)
      /\ \A c \in all : c.block = i => c = b
      /\ FreeBlocksOf(r, reg) \cap out = {}
  BY <1>3, GoodFacts
<1>5. t.block_pool[i] = FreeEntry(o)
  BY <1>2 DEF GoodRegion, RegionInv
<1>6. i \in 0..(t.block_pool_size - 1) BY <1>2, <1>4 DEF SameShape
<1>7. s = set_block(t, i, UsedEntry(o)) /\ UsedEntry(o) \in PageEntry
  BY <1>5, Entries
<1>8. /\ IsRegion(s) /\ SameShape(s, t) /\ ListsInjective(s)
      /\ s.block_pool[i] = UsedEntry(o)
      /\ \A j \in 0..(t.block_pool_size - 1) : j # i => s.block_pool[j] = t.block_pool[j]
      /\ FreeBlocksOf(r, s) = FreeBlocksOf(r, t)
  BY <1>2, <1>6, <1>7, SetBlock
<1>9. SameShape(s, reg) BY <1>2, <1>8 DEF SameShape
<1>10. \A c \in all : c # b => s.block_pool[c.block] = reg.block_pool[c.block]
  BY <1>2, <1>4, <1>8 DEF SameShape
<1>11. RegionInv(r, s, out \cup {b}, {}, limit)
  <2>1. FreeBlocksOf(r, s) \cup (out \cup {b}) \cup {} = FreeBlocksOf(r, reg) \cup out \cup {}
    BY <1>2, <1>8
  <2>2. Tiling(FreeBlocksOf(r, reg) \cup out \cup {}, limit)
    BY DEF GoodRegion, RegionInv
  <2>3. ASSUME NEW c \in FreeBlocksOf(r, s)
        PROVE  s.block_pool[c.block] = FreeEntry(c.order)
    <3>1. c \in FreeBlocksOf(r, reg) /\ c # b /\ c \in all BY <1>2, <1>8 DEF AllBlocks
    <3>. QED BY <3>1, <1>10 DEF GoodRegion, RegionInv
  <2>4. ASSUME NEW c \in out \cup {b}
        PROVE  s.block_pool[c.block] = UsedEntry(c.order)
    <3>1. CASE c = b BY <3>1, <1>8
    <3>2. CASE c # b
      <4>1. c \in out /\ c \in all BY <3>2 DEF AllBlocks
      <4>. QED BY <3>2, <4>1, <1>10 DEF GoodRegion, RegionInv
    <3>. QED BY <3>1, <3>2
  <2>. QED BY <2>1, <2>2, <2>3, <2>4, <1>8 DEF RegionInv
<1>12. /\ out \cup {b} \subseteq Blocks
       /\ \A c \in (out \cup {b}) \cup {} : c.region = r
       /\ limit \in 0..s.block_pool_size
  BY <1>4, <1>9 DEF GoodRegion, SameShape
<1>. QED BY <1>1, <1>2, <1>4, <1>8, <1>9, <1>11, <1>12 DEF GoodRegion

(* pmm_free: a block in use becomes the one being coalesced. *)
(* pmm_free before its coalescing loop: a block in use is marked as free   *)
(* and is on no list yet.                                                  *)
LEMMA RegionGive ==
    ASSUME NEW r, NEW reg, NEW out, NEW limit,
           GoodRegion(r, reg, out, {}, limit), NEW b \in out,
           NEW s, s = set_block(reg, b.block, FreeEntry(b.order))
    PROVE  /\ GoodRegion(r, s, out \ {b}, {b}, limit)
           /\ SameShape(s, reg)
<1> DEFINE all == AllBlocks(r, reg, out, {})
<1>1. IsRegion(reg) /\ r \in Nat /\ ListsInjective(reg) /\ b \in all
  BY DEF GoodRegion, RegionInv, AllBlocks
<1>2. /\ b.block \in 0..(reg.block_pool_size - 1)
      /\ b \in Blocks /\ b.order \in Orders /\ b.region = r
      /\ \A c \in all : c.block \in 0..(reg.block_pool_size - 1)
      /\ \A c \in all : c.block = b.block => c = b
      /\ FreeBlocksOf(r, reg) \cap out = {}
  BY <1>1, GoodFacts, BlockFacts
<1>3. FreeEntry(b.order) \in PageEntry BY <1>2, Entries
<1>4. /\ IsRegion(s) /\ SameShape(s, reg) /\ ListsInjective(s)
      /\ s.block_pool[b.block] = FreeEntry(b.order)
      /\ \A j \in 0..(reg.block_pool_size - 1) : j # b.block => s.block_pool[j] = reg.block_pool[j]
      /\ FreeBlocksOf(r, s) = FreeBlocksOf(r, reg)
  BY <1>1, <1>2, <1>3, SetBlock
<1>5. \A c \in all : c # b => s.block_pool[c.block] = reg.block_pool[c.block]
  BY <1>2, <1>4
<1>6. RegionInv(r, s, out \ {b}, {b}, limit)
  <2>1. FreeBlocksOf(r, s) \cup (out \ {b}) \cup {b} = FreeBlocksOf(r, reg) \cup out \cup {}
    BY <1>4
  <2>2. Tiling(FreeBlocksOf(r, reg) \cup out \cup {}, limit)
    BY DEF GoodRegion, RegionInv
  <2>3. FreeBlocksOf(r, s) \cap {b} = {} BY <1>2, <1>4
  <2>4. ASSUME NEW c \in FreeBlocksOf(r, s) \cup {b}
        PROVE  s.block_pool[c.block] = FreeEntry(c.order)
    <3>1. CASE c = b BY <3>1, <1>4
    <3>2. CASE c # b
      <4>1. c \in FreeBlocksOf(r, reg) /\ c \in all BY <3>2, <1>4 DEF AllBlocks
      <4>. QED BY <3>2, <4>1, <1>5 DEF GoodRegion, RegionInv
    <3>. QED BY <3>1, <3>2
  <2>5. ASSUME NEW c \in out \ {b}
        PROVE  s.block_pool[c.block] = UsedEntry(c.order)
    BY <1>5 DEF GoodRegion, RegionInv, AllBlocks
  <2>. QED BY <2>1, <2>2, <2>3, <2>4, <2>5, <1>4 DEF RegionInv
<1>7. /\ out \ {b} \subseteq Blocks /\ {b} \subseteq Blocks
      /\ \A c \in (out \ {b}) \cup {b} : c.region = r
      /\ limit \in 0..s.block_pool_size
  BY <1>2, <1>4 DEF GoodRegion, SameShape
<1>. QED BY <1>1, <1>4, <1>6, <1>7 DEF GoodRegion

(* The end of pmm_free: the block goes to a free list. *)
(* The end of pmm_free: the coalesced block goes onto the list of its      *)
(* order.                                                                  *)
LEMMA RegionPut ==
    ASSUME NEW r, NEW reg, NEW out, NEW limit, NEW h,
           GoodRegion(r, reg, out, {h}, limit),
           NEW s, s = add_to_region_freelist(reg, h.block, h.order)
    PROVE  /\ GoodRegion(r, s, out, {}, limit)
           /\ SameShape(s, reg)
<1> DEFINE all == AllBlocks(r, reg, out, {h})
<1>1. IsRegion(reg) /\ r \in Nat /\ ListsInjective(reg) /\ h \in all
  BY DEF GoodRegion, RegionInv, AllBlocks
<1>2. /\ h.block \in 0..(reg.block_pool_size - 1)
      /\ h \in Blocks /\ h.order \in Orders /\ h.region = r
      /\ h \notin FreeBlocksOf(r, reg)
      /\ h = [region |-> r, block |-> h.block, order |-> h.order]
  BY <1>1, GoodFacts, BlockFacts
<1>3. /\ IsRegion(s) /\ SameShape(s, reg) /\ s.block_pool = reg.block_pool
      /\ FreeBlocksOf(r, s) = FreeBlocksOf(r, reg) \cup {h}
      /\ ListsInjective(s)
  BY <1>1, <1>2, AddToFreelist
<1>4. RegionInv(r, s, out, {}, limit)
  <2>1. FreeBlocksOf(r, s) \cup out \cup {} = FreeBlocksOf(r, reg) \cup out \cup {h}
    BY <1>3
  <2>2. Tiling(FreeBlocksOf(r, reg) \cup out \cup {h}, limit)
    BY DEF GoodRegion, RegionInv
  <2>3. \A c \in FreeBlocksOf(r, s) \cup {} : s.block_pool[c.block] = FreeEntry(c.order)
    BY <1>3 DEF GoodRegion, RegionInv
  <2>4. \A c \in out : s.block_pool[c.block] = UsedEntry(c.order)
    BY <1>3 DEF GoodRegion, RegionInv
  <2>. QED BY <2>1, <2>2, <2>3, <2>4, <1>3 DEF RegionInv
<1>5. /\ out \subseteq Blocks /\ {} \subseteq Blocks
      /\ \A c \in out \cup {} : c.region = r
      /\ limit \in 0..s.block_pool_size
  BY <1>3 DEF GoodRegion, SameShape
<1>. QED BY <1>1, <1>3, <1>4, <1>5 DEF GoodRegion

(* An iteration of the split loop keeps the region good; the buddy's pool  *)
(* entry exists, so the code does not store through NULL.                  *)
LEMMA RegionSplit ==
    ASSUME NEW r, NEW reg, NEW out, NEW limit,
           GoodRegion(r, reg, out, {}, limit), NEW h \in out, h.order > 0,
           NEW o, o = h.order - 1,
           NEW i, i = split_buddy(h.block, o),
           NEW low, low = [h EXCEPT !.order = o],
           NEW t, t = set_block(reg, h.block,
                        [order |-> o, is_free |-> reg.block_pool[h.block].is_free]),
           NEW u, u = set_block(t, i, FreeEntry(o)),
           NEW s, s = add_to_region_freelist(u, i, o)
    PROVE  /\ HasBlock(reg, i)
           /\ GoodRegion(r, s, (out \ {h}) \cup {low}, {}, limit)
           /\ SameShape(s, reg)
           /\ low \in Blocks
           /\ low \notin out
<1> DEFINE all == AllBlocks(r, reg, out, {})
           high == [region |-> h.region, order |-> o, block |-> i]
<1>1. IsRegion(reg) /\ r \in Nat /\ ListsInjective(reg) /\ h \in all
  BY DEF GoodRegion, RegionInv, AllBlocks
<1>2. /\ h.block \in 0..(reg.block_pool_size - 1)
      /\ h \in Blocks /\ h.order \in 0..10 /\ h.order \in Orders /\ h.region = r
      /\ all \in SUBSET Blocks /\ Tiling(all, limit) /\ limit \in Nat
      /\ limit <= reg.block_pool_size /\ reg.block_pool_size \in Nat
      /\ \A c \in all : c.block \in 0..(reg.block_pool_size - 1)
      /\ \A c \in all : c.block = h.block => c = h
      /\ FreeBlocksOf(r, reg) \cap out = {}
  BY <1>1, GoodFacts, BlockFacts
<1>3. o \in Orders /\ o \in 0..9 BY <1>2, PmmAssumption DEF Orders
<1>4. /\ Tiling((all \ {h}) \cup {low, high}, limit)
      /\ low \in Blocks /\ high \in Blocks /\ high.block < limit
  BY <1>1, <1>2, TilingSplit
<1>5. /\ i \in 0..(reg.block_pool_size - 1) /\ HasBlock(reg, i)
  BY <1>2, <1>4, BlockFacts DEF HasBlock
<1>6. i # h.block
  BY <1>2, <1>3, BlockCount, BlockFacts DEF split_buddy
<1>7. i \notin {c.block : c \in all}
  <2>1. SUFFICES ASSUME NEW c \in all, c.block = i PROVE FALSE
    OBVIOUS
  <2>2. c # h BY <2>1, <1>6
  <2>3. Apart(c, h) BY <2>2, <1>1, <1>2 DEF Tiling
  <2>4. /\ BLOCK_COUNT(o) \in Nat \ {0}
        /\ BLOCK_COUNT(h.order) = 2 * BLOCK_COUNT(o)
    <3>1. h.order = o + 1 BY <1>2
    <3>. QED BY <3>1, <1>3, BlockCount
  <2>5. h.block <= i /\ i < EndOf(h) BY <2>4, <1>2, BlockFacts DEF EndOf, split_buddy
  <2>6. i < EndOf(c) /\ EndOf(c) \in Nat /\ EndOf(h) \in Nat BY <2>1, <1>2, BlockFacts
  <2>. QED BY <2>1, <2>3, <2>5, <2>6, <1>2 DEF Apart
<1>8. /\ t = set_block(reg, h.block, UsedEntry(o))
      /\ UsedEntry(o) \in PageEntry /\ FreeEntry(o) \in PageEntry
  <2>1. reg.block_pool[h.block] = UsedEntry(h.order) BY DEF GoodRegion, RegionInv
  <2>. QED BY <2>1, <1>3, UsedEntryOrder, Entries
<1>9. /\ IsRegion(t) /\ SameShape(t, reg) /\ ListsInjective(t)
      /\ t.block_pool[h.block] = UsedEntry(o)
      /\ \A j \in 0..(reg.block_pool_size - 1) : j # h.block => t.block_pool[j] = reg.block_pool[j]
      /\ FreeBlocksOf(r, t) = FreeBlocksOf(r, reg)
  BY <1>1, <1>2, <1>8, SetBlock
<1>10. i \in 0..(t.block_pool_size - 1) BY <1>5, <1>9 DEF SameShape
<1>11. /\ IsRegion(u) /\ SameShape(u, t) /\ ListsInjective(u)
       /\ u.block_pool[i] = FreeEntry(o)
       /\ \A j \in 0..(t.block_pool_size - 1) : j # i => u.block_pool[j] = t.block_pool[j]
       /\ FreeBlocksOf(r, u) = FreeBlocksOf(r, t)
  <2>1. IsRegion(t) /\ ListsInjective(t) BY <1>9
  <2>2. FreeEntry(o) \in PageEntry BY <1>8
  <2> HIDE DEF all, high
  <2>. QED BY <1>10, <2>1, <2>2, SetBlock
<1>12. i \in 0..(u.block_pool_size - 1) BY <1>10, <1>11 DEF SameShape
<1>13. /\ high = [region |-> r, block |-> i, order |-> o]
       /\ high \notin FreeBlocksOf(r, u)
  <2>1. high = [region |-> r, block |-> i, order |-> o] /\ high.block = i BY <1>2
  <2>2. high \notin all BY <2>1, <1>7
  <2>3. FreeBlocksOf(r, u) \subseteq all BY <1>9, <1>11 DEF AllBlocks
  <2>. QED BY <2>1, <2>2, <2>3
<1> HIDE DEF all, high
<1>14. /\ IsRegion(s) /\ SameShape(s, u) /\ s.block_pool = u.block_pool
       /\ FreeBlocksOf(r, s) = FreeBlocksOf(r, u) \cup {high}
       /\ ListsInjective(s)
  <2>1. r \in Nat /\ IsRegion(u) /\ ListsInjective(u) BY <1>1, <1>11
  <2>. QED BY <2>1, <1>3, <1>12, <1>13, AddToFreelist
<1>15. SameShape(s, reg) BY <1>9, <1>11, <1>14 DEF SameShape
<1>16. /\ s.block_pool[i] = FreeEntry(o)
       /\ s.block_pool[h.block] = UsedEntry(o)
       /\ \A c \in all : c # h => s.block_pool[c.block] = reg.block_pool[c.block]
  <2>1. t.block_pool_size = reg.block_pool_size BY <1>9 DEF SameShape
  <2>2. s.block_pool[i] = FreeEntry(o) BY <1>11, <1>14
  <2>3. s.block_pool[h.block] = UsedEntry(o)
    <3>1. h.block \in 0..(t.block_pool_size - 1) BY <2>1, <1>2
    <3>2. u.block_pool[h.block] = t.block_pool[h.block] BY <3>1, <1>6, <1>11
    <3>. QED BY <3>2, <1>9, <1>14
  <2>4. ASSUME NEW c \in all, c # h PROVE s.block_pool[c.block] = reg.block_pool[c.block]
    <3>1. c.block \in 0..(reg.block_pool_size - 1) /\ c.block # h.block /\ c.block # i
      BY <2>4, <1>2, <1>7
    <3>2. u.block_pool[c.block] = t.block_pool[c.block] BY <3>1, <2>1, <1>11
    <3>3. t.block_pool[c.block] = reg.block_pool[c.block] BY <3>1, <1>9
    <3>. QED BY <3>2, <3>3, <1>14
  <2>. QED BY <2>2, <2>3, <2>4
<1>17. /\ low.block = h.block /\ low.order = o /\ low.region = r /\ low # h
       /\ high.block = i /\ high.order = o
  BY <1>2 DEF Blocks, high
<1>18. low \notin all BY <1>2, <1>17
<1>19. RegionInv(r, s, (out \ {h}) \cup {low}, {}, limit)
  <2>1. FreeBlocksOf(r, s) \cup ((out \ {h}) \cup {low}) \cup {} = (all \ {h}) \cup {low, high}
    <3>1. FreeBlocksOf(r, s) = FreeBlocksOf(r, reg) \cup {high} BY <1>9, <1>11, <1>14
    <3>2. all = FreeBlocksOf(r, reg) \cup out BY DEF AllBlocks, all
    <3>3. h \notin FreeBlocksOf(r, reg) BY <1>2
    <3>. QED BY <3>1, <3>2, <3>3
  <2>2. ASSUME NEW c \in FreeBlocksOf(r, s)
        PROVE  s.block_pool[c.block] = FreeEntry(c.order)
    <3>1. CASE c = high BY <3>1, <1>16, <1>17
    <3>2. CASE c # high
      <4>1. c \in FreeBlocksOf(r, reg) /\ c \in all /\ c # h
        BY <3>2, <1>2, <1>9, <1>11, <1>14, ZenonT(60) DEF AllBlocks, all
      <4>. QED BY <4>1, <1>16 DEF GoodRegion, RegionInv
    <3>. QED BY <3>1, <3>2
  <2>3. ASSUME NEW c \in (out \ {h}) \cup {low}
        PROVE  s.block_pool[c.block] = UsedEntry(c.order)
    <3>1. CASE c = low BY <3>1, <1>16, <1>17
    <3>2. CASE c # low
      <4>1. c \in out /\ c \in all /\ c # h BY <3>2 DEF AllBlocks, all
      <4>. QED BY <4>1, <1>16 DEF GoodRegion, RegionInv
    <3>. QED BY <3>1, <3>2
  <2>. QED BY <2>1, <2>2, <2>3, <1>4, <1>14 DEF RegionInv
<1>20. /\ (out \ {h}) \cup {low} \subseteq Blocks
       /\ \A c \in ((out \ {h}) \cup {low}) \cup {} : c.region = r
       /\ limit \in 0..s.block_pool_size
  BY <1>4, <1>15, <1>17 DEF GoodRegion, SameShape
<1>21. low \notin out BY <1>18 DEF AllBlocks, all
<1>. QED BY <1>1, <1>4, <1>5, <1>14, <1>15, <1>19, <1>20, <1>21 DEF GoodRegion

(* An iteration of the coalescing loop keeps the region good; the buddy is *)
(* on its free list, so the panic of remove_from_region_freelist does not  *)
(* fire.                                                                   *)
LEMMA RegionMerge ==
    ASSUME NEW r, NEW reg, NEW out, NEW limit, NEW h,
           GoodRegion(r, reg, out, {h}, limit), limit = reg.block_pool_size,
           CanMerge(reg, h.block, h.order),
           NEW i, i = get_buddy_block(h.block, h.order),
           NEW t, t = remove_from_region_freelist(reg, i, h.order),
           NEW u, u = set_block(t, i, UsedEntry(h.order)),
           NEW m, m = [h EXCEPT !.block = merged_block(h.block, i),
                                !.order = h.order + 1],
           NEW s, s = set_block(u, merged_block(h.block, i), FreeEntry(h.order + 1))
    PROVE  /\ Contains(reg.free_lists[h.order], i)
           /\ GoodRegion(r, s, out, {m}, limit)
           /\ SameShape(s, reg)
           /\ m \in Blocks
           /\ m \notin out
<1> DEFINE all == AllBlocks(r, reg, out, {h})
           low == merged_block(h.block, i)
<1>1. IsRegion(reg) /\ r \in Nat /\ ListsInjective(reg) /\ h \in all
  BY DEF GoodRegion, RegionInv, AllBlocks
<1>2. /\ h.block \in 0..(reg.block_pool_size - 1)
      /\ h \in Blocks /\ h.order \in 0..10 /\ h.order \in Orders /\ h.region = r
      /\ all \in SUBSET Blocks /\ Tiling(all, limit) /\ limit \in Nat
      /\ reg.block_pool_size \in Nat
      /\ \A c \in all : c.block \in 0..(reg.block_pool_size - 1) /\ c.region = r
      /\ \A b, c \in all : c.block = b.block => c = b
      /\ h \notin out /\ h \notin FreeBlocksOf(r, reg)
      /\ FreeBlocksOf(r, reg) \cap out = {}
  <2>1. /\ all \in SUBSET Blocks /\ Tiling(all, limit) /\ limit \in Nat
        /\ reg.block_pool_size \in Nat
        /\ \A c \in all : c.block \in 0..(reg.block_pool_size - 1) /\ c.region = r
        /\ \A b, c \in all : b.block = c.block => b = c
        /\ out \cap {h} = {} /\ FreeBlocksOf(r, reg) \cap {h} = {}
        /\ FreeBlocksOf(r, reg) \cap out = {}
    <3> DEFINE mg == {h}
    <3>1. GoodRegion(r, reg, out, mg, limit) OBVIOUS
    <3> HIDE DEF mg
    <3>2. /\ AllBlocks(r, reg, out, mg) \in SUBSET Blocks
          /\ Tiling(AllBlocks(r, reg, out, mg), limit) /\ limit \in Nat
          /\ reg.block_pool_size \in Nat
          /\ \A b \in AllBlocks(r, reg, out, mg) :
                b.block \in 0..(reg.block_pool_size - 1) /\ b.region = r
          /\ \A b, c \in AllBlocks(r, reg, out, mg) : b.block = c.block => b = c
          /\ out \cap mg = {} /\ FreeBlocksOf(r, reg) \cap mg = {}
          /\ FreeBlocksOf(r, reg) \cap out = {}
      BY <3>1, GoodFacts
    <3>. QED BY <3>2 DEF mg
  <2>2. h \in Blocks BY <1>1, <2>1
  <2>. QED BY <1>1, <2>1, <2>2, BlockFacts
<1> HIDE DEF all
<1>3. /\ h.order < MAX_ORDER /\ i < limit
      /\ reg.block_pool[i].is_free /\ reg.block_pool[i].order = h.order
  BY DEF CanMerge, HasBlock
<1>4. PICK c \in all \ {h} : c.block = i
  <2>1. get_buddy_block(h.block, h.order) < limit BY <1>3
  <2>2. all \in SUBSET Blocks /\ limit \in Nat /\ Tiling(all, limit) BY <1>2
  <2>3. h \in all BY <1>1
  <2>. QED BY <1>3, <2>1, <2>2, <2>3, BuddyIsBlock
<1>5. c \in FreeBlocksOf(r, reg)
  <2>1. c \notin out
    <3>1. SUFFICES ASSUME c \in out PROVE FALSE OBVIOUS
    <3>2. reg.block_pool[i] = UsedEntry(c.order) BY <3>1, <1>4 DEF GoodRegion, RegionInv
    <3>3. c.order \in Orders BY <1>2, <1>4, BlockFacts
    <3>. QED BY <3>2, <3>3, <1>3, Entries
  <2>. QED BY <2>1, <1>4 DEF AllBlocks, all
<1>6. c.order = h.order
  <2>1. reg.block_pool[i] = FreeEntry(c.order) BY <1>4, <1>5 DEF GoodRegion, RegionInv
  <2>2. c.order \in Orders BY <1>2, <1>4, BlockFacts
  <2>. QED BY <2>1, <2>2, <1>3, Entries
<1>7. /\ i \in ToSet(reg.free_lists[h.order]) /\ c.region = r
      /\ c = [region |-> r, block |-> i, order |-> h.order]
  <2>1. c = [region |-> c.region, block |-> c.block, order |-> c.order] BY <1>2, <1>4, BlockFacts
  <2>. QED BY <2>1, <1>1, <1>2, <1>4, <1>5, <1>6, FreeBlocksTyped
<1>8. Contains(reg.free_lists[h.order], i)
  <2>1. reg.free_lists[h.order] \in Seq(0..(reg.block_pool_size - 1)) BY <1>1, <1>2 DEF IsRegion
  <2>. QED BY <2>1, <1>7 DEF Contains, ToSet
<1>9. /\ IsRegion(t) /\ SameShape(t, reg) /\ t.block_pool = reg.block_pool
      /\ FreeBlocksOf(r, t) = FreeBlocksOf(r, reg) \ {c}
      /\ ListsInjective(t)
  BY <1>1, <1>2, <1>7, RemoveFromFreelist
<1>10. /\ h.order + 1 \in Orders /\ UsedEntry(h.order) \in PageEntry
       /\ FreeEntry(h.order + 1) \in PageEntry
  <2>1. h.order + 1 \in Orders BY <1>2, <1>3, PmmAssumption DEF Orders
  <2>. QED BY <2>1, <1>2, Entries
<1>11. i \in 0..(t.block_pool_size - 1) BY <1>2, <1>4, <1>9 DEF SameShape
<1>12. /\ IsRegion(u) /\ SameShape(u, t) /\ ListsInjective(u)
       /\ \A j \in 0..(t.block_pool_size - 1) : j # i => u.block_pool[j] = t.block_pool[j]
       /\ FreeBlocksOf(r, u) = FreeBlocksOf(r, t)
  BY <1>9, <1>10, <1>11, SetBlock
<1>13. low \in {h.block, i} BY DEF merged_block
<1>14. low \in 0..(u.block_pool_size - 1)
  <2>1. u.block_pool_size = reg.block_pool_size BY <1>9, <1>12 DEF SameShape
  <2>2. i \in 0..(reg.block_pool_size - 1) BY <1>2, <1>4
  <2> HIDE DEF low
  <2>. QED BY <2>1, <2>2, <1>2, <1>13
<1> HIDE DEF low
<1>15. /\ IsRegion(s) /\ SameShape(s, u) /\ ListsInjective(s)
       /\ s.block_pool[low] = FreeEntry(h.order + 1)
       /\ \A j \in 0..(u.block_pool_size - 1) : j # low => s.block_pool[j] = u.block_pool[j]
       /\ FreeBlocksOf(r, s) = FreeBlocksOf(r, u)
  <2>1. s = set_block(u, low, FreeEntry(h.order + 1)) BY DEF low
  <2>2. IsRegion(u) /\ ListsInjective(u) BY <1>12
  <2>. QED BY <2>1, <2>2, <1>10, <1>14, SetBlock
<1>16. SameShape(s, reg) BY <1>9, <1>12, <1>15 DEF SameShape
<1>17. /\ m = [region |-> h.region, order |-> h.order + 1, block |-> low]
       /\ m.block = low /\ m.order = h.order + 1 /\ m.region = r
  BY <1>2 DEF Blocks, low
<1>18. Tiling((all \ {h, c}) \cup {m}, limit) /\ m \in Blocks
  <2>1. all \in SUBSET Blocks /\ limit \in Nat /\ Tiling(all, limit) BY <1>2
  <2>2. h \in all /\ c \in all /\ c.block = get_buddy_block(h.block, h.order) BY <1>1, <1>4
  <2>3. m = [region |-> h.region, order |-> h.order + 1, block |-> merged_block(h.block, c.block)]
    BY <1>4, <1>17 DEF low
  <2>4. h.order < MAX_ORDER /\ c.order = h.order BY <1>3, <1>6
  <2>. QED BY <2>1, <2>2, <2>3, <2>4, TilingMerge
<1>19. \A b \in all \ {h, c} : s.block_pool[b.block] = reg.block_pool[b.block]
  <2>1. SUFFICES ASSUME NEW b \in all \ {h, c}
                 PROVE  s.block_pool[b.block] = reg.block_pool[b.block]
    OBVIOUS
  <2>2. t.block_pool_size = reg.block_pool_size /\ u.block_pool_size = reg.block_pool_size
    BY <1>9, <1>12 DEF SameShape
  <2>3. b.block \in 0..(reg.block_pool_size - 1) BY <1>2
  <2>4. b.block # h.block /\ b.block # i BY <1>1, <1>2, <1>4
  <2>5. u.block_pool[b.block] = reg.block_pool[b.block] BY <2>2, <2>3, <2>4, <1>9, <1>12
  <2>6. s.block_pool[b.block] = u.block_pool[b.block] BY <2>2, <2>3, <2>4, <1>13, <1>15
  <2>. QED BY <2>5, <2>6
<1>20. m \notin all
  <2>1. m.order # h.order /\ m.order # c.order BY <1>2, <1>6, <1>17
  <2>2. m.block = h.block \/ m.block = c.block BY <1>4, <1>13, <1>17
  <2>3. h \in all /\ c \in all BY <1>1, <1>4
  <2>. QED BY <2>1, <2>2, <2>3, <1>2
<1>21. RegionInv(r, s, out, {m}, limit)
  <2>1. FreeBlocksOf(r, s) \cup out \cup {m} = (all \ {h, c}) \cup {m}
    <3>1. FreeBlocksOf(r, s) = FreeBlocksOf(r, reg) \ {c} BY <1>9, <1>12, <1>15
    <3>2. all = FreeBlocksOf(r, reg) \cup out \cup {h} BY DEF AllBlocks, all
    <3>3. /\ c \notin out /\ h \notin FreeBlocksOf(r, reg) /\ h \notin out
      BY <1>2, <1>5
    <3>. QED BY <3>1, <3>2, <3>3
  <2>2. FreeBlocksOf(r, s) \cap {m} = {} BY <1>9, <1>12, <1>15, <1>20 DEF AllBlocks, all
  <2>3. ASSUME NEW b \in FreeBlocksOf(r, s) \cup {m}
        PROVE  s.block_pool[b.block] = FreeEntry(b.order)
    <3>1. CASE b = m BY <3>1, <1>15, <1>17
    <3>2. CASE b # m
      <4>1. b \in FreeBlocksOf(r, reg) /\ b \in all \ {h, c}
        BY <3>2, <1>2, <1>9, <1>12, <1>15 DEF AllBlocks, all
      <4>. QED BY <4>1, <1>19 DEF GoodRegion, RegionInv
    <3>. QED BY <3>1, <3>2
  <2>4. ASSUME NEW b \in out
        PROVE  s.block_pool[b.block] = UsedEntry(b.order)
    <3>1. b \in all \ {h, c} BY <1>2, <1>5 DEF AllBlocks, all
    <3>. QED BY <3>1, <1>19 DEF GoodRegion, RegionInv
  <2>. QED BY <2>1, <2>2, <2>3, <2>4, <1>15, <1>18 DEF RegionInv
<1>22. /\ out \subseteq Blocks /\ {m} \subseteq Blocks
       /\ \A b \in out \cup {m} : b.region = r
       /\ limit \in 0..s.block_pool_size
  BY <1>16, <1>17, <1>18 DEF GoodRegion, SameShape
<1>23. m \notin out BY <1>20 DEF AllBlocks, all
<1>. QED BY <1>1, <1>8, <1>15, <1>16, <1>18, <1>21, <1>22, <1>23 DEF GoodRegion

(* A block put at the end of a tiling extends it.                          *)
LEMMA TilingExtend ==
    ASSUME NEW blocks \in SUBSET Blocks, NEW limit \in Nat, Tiling(blocks, limit),
           NEW b \in Blocks, b.block = limit, b.block % BLOCK_COUNT(b.order) = 0
    PROVE  Tiling(blocks \cup {b}, EndOf(b))
<1>1. EndOf(b) \in Nat /\ limit < EndOf(b) BY BlockFacts
<1>2. \A c \in blocks : /\ c.block % BLOCK_COUNT(c.order) = 0
                        /\ EndOf(c) <= limit /\ EndOf(c) \in Nat
  BY BlockFacts DEF Tiling
<1>3. \A c \in blocks \cup {b} : /\ c.block % BLOCK_COUNT(c.order) = 0
                                 /\ EndOf(c) <= EndOf(b)
  BY <1>1, <1>2
<1>4. \A c, d \in blocks \cup {b} : c # d => Apart(c, d)
  BY <1>2 DEF Tiling, Apart
<1>5. ASSUME NEW i \in 0..(EndOf(b) - 1) PROVE \E c \in blocks \cup {b} : Covers(c, i)
  <2>1. CASE i < limit
    <3>1. i \in 0..(limit - 1) BY <2>1
    <3>. QED BY <3>1 DEF Tiling
  <2>2. CASE i >= limit BY <2>2, <1>1 DEF Covers
  <2>. QED BY <2>1, <2>2
<1>. QED BY <1>3, <1>4, <1>5 DEF Tiling

(* An iteration of the carve loop of pmm_add_region extends the carved     *)
(* part of the region by one block.                                        *)
LEMMA RegionCarve ==
    ASSUME NEW r, NEW reg, NEW at,
           GoodRegion(r, reg, {}, {}, at), at < reg.block_pool_size,
           NEW o \in Orders, biggest_order(at, reg.block_pool_size, o),
           NEW t, t = set_block(reg, at, FreeEntry(o)),
           NEW s, s = add_to_region_freelist(t, at, o)
    PROVE  /\ GoodRegion(r, s, {}, {}, at + BLOCK_COUNT(o))
           /\ SameShape(s, reg)
<1> DEFINE b == [region |-> r, block |-> at, order |-> o]
           free == FreeBlocksOf(r, reg)
<1>1. IsRegion(reg) /\ r \in Nat /\ ListsInjective(reg)
  BY DEF GoodRegion, RegionInv
<1>2. /\ free \in SUBSET Blocks /\ Tiling(free, at) /\ at \in Nat
      /\ reg.block_pool_size \in Nat
      /\ \A c \in free : c.block \in 0..(at - 1) /\ c.block \in 0..(reg.block_pool_size - 1)
  <2>1. AllBlocks(r, reg, {}, {}) = free BY DEF AllBlocks
  <2>2. /\ AllBlocks(r, reg, {}, {}) \in SUBSET Blocks
        /\ Tiling(AllBlocks(r, reg, {}, {}), at)
        /\ at \in Nat /\ reg.block_pool_size \in Nat
        /\ \A c \in AllBlocks(r, reg, {}, {}) :
             c.block \in 0..(at - 1) /\ c.block \in 0..(reg.block_pool_size - 1)
    <3> DEFINE em == {}
    <3>1. GoodRegion(r, reg, em, em, at) OBVIOUS
    <3> HIDE DEF em
    <3>2. /\ AllBlocks(r, reg, em, em) \in SUBSET Blocks
          /\ Tiling(AllBlocks(r, reg, em, em), at)
          /\ at \in Nat /\ reg.block_pool_size \in Nat
          /\ \A c \in AllBlocks(r, reg, em, em) :
               c.block \in 0..(at - 1) /\ c.block \in 0..(reg.block_pool_size - 1)
      BY <3>1, GoodFacts
    <3>. QED BY <3>2 DEF em
  <2>. QED BY <2>1, <2>2
<1>3. o \in 0..10 /\ BLOCK_COUNT(o) \in Nat \ {0}
  <2>1. o \in 0..10 BY PmmAssumption DEF Orders
  <2>. QED BY <2>1, BlockCount
<1>4. at % BLOCK_COUNT(o) = 0 /\ at + BLOCK_COUNT(o) <= reg.block_pool_size
  <2>1. CASE o = 0
    <3>1. BLOCK_COUNT(o) = 1 BY <2>1 DEF BLOCK_COUNT
    <3>. QED BY <3>1, <1>2
  <2>2. CASE o # 0
    <3>1. o \in 1..o BY <2>2, <1>3
    <3>. QED BY <3>1 DEF biggest_order, CanGrow
  <2>. QED BY <2>1, <2>2
<1>5. b \in Blocks /\ EndOf(b) = at + BLOCK_COUNT(o) /\ b.block = at /\ b.order = o
  BY <1>1, <1>2 DEF Blocks, EndOf
<1>6. at \in 0..(reg.block_pool_size - 1) BY <1>2
<1>7. FreeEntry(o) \in PageEntry BY Entries
<1>8. /\ IsRegion(t) /\ SameShape(t, reg) /\ ListsInjective(t)
      /\ t.block_pool[at] = FreeEntry(o)
      /\ \A j \in 0..(reg.block_pool_size - 1) : j # at => t.block_pool[j] = reg.block_pool[j]
      /\ FreeBlocksOf(r, t) = free
  BY <1>1, <1>6, <1>7, SetBlock
<1>9. at \in 0..(t.block_pool_size - 1) BY <1>6, <1>8 DEF SameShape
<1>10. b \notin free BY <1>2
<1>11. /\ IsRegion(s) /\ SameShape(s, t) /\ s.block_pool = t.block_pool
       /\ FreeBlocksOf(r, s) = free \cup {b}
       /\ ListsInjective(s)
  <2>1. IsRegion(t) /\ ListsInjective(t) /\ b \notin FreeBlocksOf(r, t) BY <1>8, <1>10
  <2>2. FreeBlocksOf(r, s) = FreeBlocksOf(r, t) \cup {b} /\ IsRegion(s) /\ SameShape(s, t)
        /\ s.block_pool = t.block_pool /\ ListsInjective(s)
    BY <2>1, <1>1, <1>9, AddToFreelist
  <2>. QED BY <2>2, <1>8
<1>12. SameShape(s, reg) BY <1>8, <1>11 DEF SameShape
<1> HIDE DEF b, free
<1>13. Tiling(free \cup {b}, EndOf(b))
  BY <1>2, <1>4, <1>5, TilingExtend
<1>14. RegionInv(r, s, {}, {}, at + BLOCK_COUNT(o))
  <2>1. ASSUME NEW c \in FreeBlocksOf(r, s) PROVE s.block_pool[c.block] = FreeEntry(c.order)
    <3>1. CASE c = b BY <3>1, <1>5, <1>8, <1>11
    <3>2. CASE c # b
      <4>1. c \in free /\ c.block # at /\ c.block \in 0..(reg.block_pool_size - 1)
        BY <3>2, <1>2, <1>11
      <4>2. s.block_pool[c.block] = reg.block_pool[c.block] BY <4>1, <1>8, <1>11
      <4>. QED BY <4>1, <4>2 DEF GoodRegion, RegionInv, free
    <3>. QED BY <3>1, <3>2
  <2>2. Tiling(FreeBlocksOf(r, s) \cup {} \cup {}, at + BLOCK_COUNT(o))
    BY <1>5, <1>11, <1>13
  <2>. QED BY <2>1, <2>2, <1>11 DEF RegionInv
<1>15. at + BLOCK_COUNT(o) \in 0..s.block_pool_size
  BY <1>2, <1>3, <1>4, <1>12 DEF SameShape
<1>. QED BY <1>1, <1>11, <1>12, <1>14, <1>15 DEF GoodRegion
=============================================================================
