------------------------------- MODULE MCPmm -------------------------------
(* Instances of Pmm for TLC.  Addresses are 16 bits wide: 16 pages.        *)
EXTENDS PmmInductive

Ram(base, length) == [base_address |-> base, length |-> length]

(* Two regions.  The first starts inside page 0 and ends inside page 6:    *)
(* five whole pages, which cannot all be in one block.                     *)
TwoRegions == << Ram(100, 6 * 4096), Ram(8 * 4096, 2 * 4096) >>

(* One region of seven pages from address 0 on: blocks of four, two and    *)
(* one page.                                                               *)
LowRegion == << Ram(0, 7 * 4096) >>

(* Maps that stop the boot: a region that reaches the end of the address   *)
(* space, a header and a pool that do not fit the early heap; and a map    *)
(* whose first region holds no whole page.                                 *)
ToTheEnd == << Ram(14 * 4096, 2 * 4096) >>
NoPool == << Ram(0, 15 * 4096) >>
NoHeader == << Ram(0, 4 * 4096), Ram(5 * 4096, 4 * 4096), Ram(10 * 4096, 4096) >>
TooSmall == << Ram(4000, 4096), Ram(3 * 4096, 4096) >>

BootMapsMC == { TwoRegions, LowRegion, ToTheEnd, NoPool, NoHeader, TooSmall }
=============================================================================
