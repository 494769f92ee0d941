-------------------------------- MODULE Boot --------------------------------
(***************************************************************************)
(* The part of kernel_main that turns the boot loader's structure into     *)
(* memory the kernel can allocate: the parser of Multiboot, its print, and *)
(* pmm_init of Pmm, which read one early heap one after the other.         *)
(***************************************************************************)
EXTENDS Multiboot

CONSTANTS MAX_ORDER, AllocOrders

VARIABLES ram_regions, current_ram, g_regions, region, offset, pc, hand,
          target_order, panic, live

Memory == INSTANCE Pmm WITH
    BootMaps <- {<<>>}, AllocPages <- {}, AllocSizes <- {}, StrayAddresses <- {}

pmm_vars == <<ram_regions, current_ram, g_regions, region, offset, pc, hand,
              target_order, panic, live>>
boot_vars == <<g_cursor, parser_vars, pmm_vars>>

BootInit == Init /\ Memory!Init

(* The parse and the print.                                                *)
parse == Next /\ UNCHANGED pmm_vars

(* kernel_main passes the parsed list on.                                  *)
call_pmm_init ==
    /\ step = "done"
    /\ ram_regions' = boot_info.ram_regions
    /\ step' = "pmm"
    /\ UNCHANGED <<g_cursor, info, boot_info, current, entry, report, current_ram,
                   g_regions, region, offset, pc, hand, target_order, panic, live>>

manage == step = "pmm" /\ Memory!Next /\ UNCHANGED parser_vars

halted == step = "panic" /\ UNCHANGED boot_vars

BootNext == parse \/ call_pmm_init \/ manage \/ halted

(* One CPU executes the boot, with nothing beside it.                      *)
BootSpec ==
    /\ BootInit
    /\ [][BootNext]_boot_vars
    /\ WF_boot_vars(parse)
    /\ WF_boot_vars(call_pmm_init)
    /\ WF_boot_vars(step = "pmm" /\ Memory!Running /\ UNCHANGED parser_vars)

(* The pages of the boot loader's memory maps, before anything parsed them.*)
Within(page, e) ==
    /\ e.base_address <= page
    /\ page + Memory!PAGE_SIZE <= e.base_address + e.length

Touches(page, e) ==
    /\ page < e.base_address + e.length
    /\ e.base_address < page + Memory!PAGE_SIZE

Pages == { n * Memory!PAGE_SIZE : n \in 0..((ADDRESS_SPACE \div Memory!PAGE_SIZE) - 1) }


(* The boot comes to an end for every structure whose tags have a size:    *)
(* the walks end, and memory is ready or the machine was stopped.          *)
BootEnds == <>(step = "panic" \/ pc \in {"idle", "panic"})
=============================================================================
