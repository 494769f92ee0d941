------------------------------- MODULE MCVmm -------------------------------
(* Instances of Vmm for TLC: six entries to a table, pages of two bytes.   *)
(* The kernel window is at directory entries 0 and 4.                      *)
EXTENDS Vmm

At(pde, pte) == (pde * ENTRIES + pte) * PAGE_SIZE

Mapping(address, frame, flags) ==
    [address |-> address, physical |-> frame * PAGE_SIZE, flags |-> flags]

(* Frame 5 is a device, mapped for writing in one table and read-only in   *)
(* another.  The other arguments have no VMM_FLAG_PRESENT, are unaligned,  *)
(* or inside the window.                                                   *)
Device == 5

MappingsMC ==
    { Mapping(At(1, 0), Device, {"present", "rw"}),
      Mapping(At(2, 0), Device, {"present"}),
      Mapping(At(1, 0), Device, {"rw"}),
      Mapping(At(1, 0) + 1, Device, {"present", "rw"}),
      Mapping(At(0, 4), Device, {"present", "rw"}) }

(* A page that is mapped, an unaligned address, a page without a table.    *)
UnmappedMC == { At(2, 0), At(2, 1) + 1, At(3, 0) }

(* A page that is also mapped, and the neighbour of one.                   *)
AccessedMC == { At(2, 0), At(1, 2) + 1 }
=============================================================================
