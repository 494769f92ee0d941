--------------------------- MODULE PageAllocator ---------------------------
(***************************************************************************)
(* What pmm.h promises of the physical memory manager, without free lists, *)
(* block pools or splitting: a set of regions and the set of blocks that   *)
(* are in use.  A block of order o is a run of 2^o pages whose index in    *)
(* its region is a multiple of 2^o.                                        *)
(*                                                                         *)
(* Out of memory is an outcome of its own, and it is exact: it may only    *)
(* happen when no such run of unused pages exists in any region.           *)
(***************************************************************************)
EXTENDS Integers, Sequences

CONSTANT MaxOrder

VARIABLES
    sizes,      \* the size in pages of each region, in the order they were added
    used,       \* the blocks in use
    status,     \* "booting", "running", "out of memory" or "refused"
    failed      \* the order that could not be served, -1 if none

vars == <<sizes, used, status, failed>>

Unused(r, i, order) ==
    /\ i % (2^order) = 0
    /\ i + 2^order <= sizes[r]
    /\ \A b \in used :
        b.region = r => b.block + 2^b.order <= i \/ i + 2^order <= b.block

Available(order) ==
    \E r \in DOMAIN sizes : \E i \in 0..(sizes[r] - 1) : Unused(r, i, order)

Init ==
    /\ sizes = <<>>
    /\ used = {}
    /\ status = "booting"
    /\ failed = -1

AddRegion ==
    /\ status = "booting"
    /\ Len(sizes') = Len(sizes) + 1
    /\ sizes' = Append(sizes, sizes'[Len(sizes')])
    /\ UNCHANGED <<used, status, failed>>

Booted ==
    /\ status = "booting"
    /\ status' = "running"
    /\ UNCHANGED <<sizes, used, failed>>

Allocate ==
    /\ status = "running"
    /\ \E r \in DOMAIN sizes, order \in 0..MaxOrder : \E i \in 0..(sizes[r] - 1) :
        /\ Unused(r, i, order)
        /\ used' = used \cup {[region |-> r, block |-> i, order |-> order]}
    /\ UNCHANGED <<sizes, status, failed>>

Release ==
    /\ status = "running"
    /\ \E b \in used : used' = used \ {b}
    /\ UNCHANGED <<sizes, status, failed>>

OutOfMemory ==
    /\ status = "running"
    /\ status' = "out of memory"
    /\ failed' \in 0..MaxOrder
    /\ ~Available(failed')
    /\ UNCHANGED <<sizes, used>>

(* A malformed request or boot map stops the machine.                      *)
Refuse ==
    /\ status \in {"booting", "running"}
    /\ status' = "refused"
    /\ UNCHANGED <<sizes, used, failed>>

Next == AddRegion \/ Booted \/ Allocate \/ Release \/ OutOfMemory \/ Refuse

Spec == Init /\ [][Next]_vars
=============================================================================
