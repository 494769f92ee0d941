----------------------------- MODULE MCPmmDocs -----------------------------
(***************************************************************************)
(* What the repository's documentation says of the PMM and the code does   *)
(* not do: the run of the property ends in a counterexample.               *)
(***************************************************************************)
EXTENDS MCPmm

(* RAM above the end of the address space: on the 32-bit machine, what a   *)
(* boot loader reports beyond 4 GiB.                                       *)
HighMaps == { << Ram(4 * 4096, 4 * 4096), Ram(65536, 2 * 4096) >> }

(* README.md: the PMM is "populated from detected RAM regions": it manages *)
(* nothing else.  pmm_init drops the upper half of a 64-bit base address.  *)
ManagesDetectedRam == pc = "idle" => ManagedPages \subseteq PagesOf(ram_regions)
=============================================================================
