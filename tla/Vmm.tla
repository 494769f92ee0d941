-------------------------------- MODULE Vmm --------------------------------
(***************************************************************************)
(* The virtual memory manager, kernel/src/lib/memory/vmm.c, on an x86 MMU  *)
(* (external): the page directory, the page tables in physical memory, the *)
(* TLB, and the page fault handler, which runs inside whatever instruction *)
(* faulted, the manager's own stores included.                             *)
(*                                                                         *)
(* A page table is reached through the kernel window: the directory entry  *)
(* of KERNEL_VIRTUAL_BASE shares the table of the identity mapping, so a   *)
(* frame beyond the first ENTRIES is not in the window, and a store to a   *)
(* table in such a frame faults.  `stack' holds the activations, innermost *)
(* first: the kernel's access or call, and the handler's above it, each    *)
(* suspended at the store that faulted.  All of them are on the boot       *)
(* stack, which has room for STACK_DEPTH.                                  *)
(*                                                                         *)
(* The kernel's image, its stack and g_page_directories are in frames that *)
(* are neither handed out nor unmapped here.  Interrupt handlers call none *)
(* of these functions.                                                     *)
(***************************************************************************)
EXTENDS Integers, Sequences

CONSTANTS
    ENTRIES,                \* PAGE_ENTRIES: 1024
    PAGE_SIZE,              \* 4096
    KERNEL_VIRTUAL_BASE,    \* 0xC0000000, a multiple of the span of a table
    IDENTITY,               \* the frame of g_identity_table
    FRAMES,                 \* the number of frames of the physical address space
    RAM,                    \* the frames that pmm_init will manage
    STACK_DEPTH,            \* activations that fit on the 4 KiB of the boot stack
    WRITE_PROTECT,          \* CR0.WP, which the boot loader may leave either way
    Mappings,               \* arguments of the kernel's calls of vmm_map_page,
    Unmapped,               \* of vmm_unmap_page,
    Accessed                \* and the addresses it writes to

(* vmm_flag_t, and the bits that each kind of entry has.                   *)
DirectoryFlags == {"rw", "user", "write_through", "cache_disabled"}
TableFlags == DirectoryFlags \cup {"global"}
VmmFlags == TableFlags \cup {"present"}

TableSpan == ENTRIES * PAGE_SIZE
ADDRESS_SPACE == ENTRIES * TableSpan

Index == 0..(ENTRIES - 1)
Frame == 0..(FRAMES - 1)
Address == 0..(ADDRESS_SPACE - 1)

ASSUME VmmAssumption ==
    /\ ENTRIES \in Nat \ {0}
    /\ PAGE_SIZE \in Nat \ {0}
    /\ KERNEL_VIRTUAL_BASE \in Address
    /\ KERNEL_VIRTUAL_BASE % TableSpan = 0
    /\ FRAMES \in ENTRIES..(ENTRIES * ENTRIES)
    /\ IDENTITY \in Index \ {0}
    /\ RAM \subseteq Frame \ {IDENTITY}
    /\ STACK_DEPTH \in Nat \ {0}
    /\ WRITE_PROTECT \in BOOLEAN
    /\ \A m \in Mappings :
        /\ m.address \in Address
        /\ m.physical \in 0..(FRAMES * PAGE_SIZE - 1)
        /\ m.flags \subseteq VmmFlags
    /\ Unmapped \subseteq Address
    /\ Accessed \subseteq Address

VARIABLES
    stage,                  \* how far the boot is
    panic,                  \* kpanic was called, or the stack has overrun
    g_page_directories,
    memory,                 \* the content of each frame, read as a page table
    tlb,                    \* translations the CPU may use without a walk
    free,                   \* the frames pmm_alloc_pages can hand out
    stack,
    result                  \* history: the last call that returned, and what

vars == <<stage, panic, g_page_directories, memory, tlb, free, stack, result>>

(* pde_t and pte_t.                                                        *)
Entry == [present : BOOLEAN, address : Frame, flags : SUBSET TableFlags]
NoEntry == [present |-> FALSE, address |-> 0, flags |-> {}]
Present(frame, flags) == [present |-> TRUE, address |-> frame, flags |-> flags]

EmptyTable == [i \in Index |-> NoEntry]

(* What RAM holds before it is cleared, at its worst: entries that map.    *)
Garbage == [i \in Index |-> Present(0, {"rw"})]

NoCall == [call |-> "none", address |-> 0, frame |-> 0, flags |-> {},
           at |-> "returned", table |-> 0, ok |-> FALSE]

Init ==
    /\ stage = "vmm_preinit"
    /\ panic = FALSE
    /\ g_page_directories = EmptyTable
    /\ memory = [f \in Frame |-> Garbage]
    /\ tlb = {}
    /\ free = {}
    /\ stack = <<>>
    /\ result = NoCall

(***************************************************************************)
(* Addresses, and the MMU.                                                 *)
(***************************************************************************)

kalign_down(address) == address - (address % PAGE_SIZE)

physical_to_virtual(frame) ==
    (frame * PAGE_SIZE + KERNEL_VIRTUAL_BASE) % ADDRESS_SPACE

pde_index(address) == address \div TableSpan
pte_index(address) == (address \div PAGE_SIZE) % ENTRIES

(* A translation: the page, its frame and whether both levels allow        *)
(* writing.  The walk has one or none.                                     *)
Walk(address) ==
    LET pde == g_page_directories[pde_index(address)]
        pte == memory[pde.address][pte_index(address)]
    IN  IF pde.present /\ pte.present
        THEN {[page |-> kalign_down(address), frame |-> pte.address,
               rw |-> "rw" \in pde.flags \cap pte.flags]}
        ELSE {}

Cached(address) == { t \in tlb : t.page = kalign_down(address) }

(* The CPU writes through t: one from the TLB, or from a walk.             *)
Reaches(address, t) ==
    /\ t \in Cached(address) \cup Walk(address)
    /\ t.rw \/ ~WRITE_PROTECT

Denied(address) ==
    \E t \in Cached(address) \cup Walk(address) : ~t.rw /\ WRITE_PROTECT

flush_tlb_entry(entries, address) ==
    { t \in entries : t.page # kalign_down(address) }

(***************************************************************************)
(* Activations.                                                            *)
(***************************************************************************)

top == Head(stack)

Running(call, at) == stack # <<>> /\ top.call \in call /\ top.at = at

Call(call, address, frame, flags, at) ==
    [NoCall EXCEPT !.call = call, !.address = address, !.frame = frame,
                   !.flags = flags, !.at = at]

Continue(activation) == stack' = <<activation>> \o Tail(stack)

KPANIC == panic' = TRUE /\ stack' = <<>>

(* A fault for which the boot stack has no room writes over what lies      *)
(* below it; nothing is said of the kernel after that.                     *)
stack_overruns == Len(stack) >= STACK_DEPTH /\ KPANIC

(* A page fault: isr_handler calls the handler, which vmm_init installed   *)
(* before the first access below.  Bit 0 of the error code says that the   *)
(* page was present, which the handler does not handle.                    *)
vmm_page_fault_handler(address) ==
    /\ \/ /\ Walk(address) = {} /\ Len(stack) < STACK_DEPTH
          /\ stack' = <<Call("fault", kalign_down(address), 0, {"rw", "present"},
                             "alloc")>> \o stack
          /\ UNCHANGED panic
       \/ Walk(address) = {} /\ stack_overruns
       \/ Denied(address) /\ KPANIC
    /\ UNCHANGED <<g_page_directories, memory, tlb, free, result>>

(* A vmm_map_page that gives its caller's frame back when it fails.        *)
Return_frees(ok) ==
    /\ stack' = Tail(stack)
    /\ free' = IF ok THEN free ELSE free \cup {top.frame}
    /\ result' = [top EXCEPT !.at = "returned", !.ok = ok]
    /\ UNCHANGED panic

(* The innermost activation ends.  A mapping that fails in the handler is  *)
(* followed by pmm_free and a panic.                                       *)
Return(ok) ==
    IF top.call = "fault" /\ ~ok
    THEN KPANIC /\ free' = free \cup {top.frame} /\ UNCHANGED result
    ELSE /\ stack' = Tail(stack)
         /\ result' = IF top.call \in {"map", "unmap"}
                      THEN [top EXCEPT !.at = "returned", !.ok = ok]
                      ELSE result
         /\ UNCHANGED <<panic, free>>

(***************************************************************************)
(* Boot.                                                                   *)
(***************************************************************************)

IsWindow(i) == i \in {0, KERNEL_VIRTUAL_BASE \div TableSpan}

(* The entries of the directory that get the identity table: without the   *)
(* higher half, and as they are.                                           *)
identity_only(i) == i = 0

window_entry(i) == IsWindow(i)

vmm_preinit ==
    /\ stage = "vmm_preinit"
    /\ memory' = [memory EXCEPT ![IDENTITY] = [i \in Index |-> Present(i, {"rw"})]]
    /\ g_page_directories' =
        [i \in Index |-> IF window_entry(i) THEN Present(IDENTITY, {"rw"}) ELSE NoEntry]
    /\ stage' = "vmm_init"
    /\ UNCHANGED <<panic, tlb, free, stack, result>>

(* isr_install(EXCEPTION_PAGE_FAULT), before the physical memory manager   *)
(* has anything to hand out.                                               *)
vmm_init ==
    /\ stage = "vmm_init"
    /\ stage' = "pmm_init"
    /\ UNCHANGED <<panic, g_page_directories, memory, tlb, free, stack, result>>

(* pmm_init, whose effect here is that there are frames to hand out.  The  *)
(* second call of vmm_init, right after it, installs the handler again.    *)
pmm_init ==
    /\ stage = "pmm_init"
    /\ stack = <<>>
    /\ free' = RAM
    /\ stage' = "running"
    /\ UNCHANGED <<panic, g_page_directories, memory, tlb, stack, result>>

(***************************************************************************)
(* The kernel's accesses and calls.                                        *)
(***************************************************************************)

(* Parsing the boot information comes before pmm_init and may fault too.   *)
Access ==
    /\ stage \in {"pmm_init", "running"}
    /\ stack = <<>>
    /\ \E a \in Accessed : stack' = <<Call("access", a, 0, {}, "store")>>
    /\ UNCHANGED <<stage, panic, g_page_directories, memory, tlb, free,
                   result>>

(* The instruction runs, now or again after a fault, and writes data.      *)
store ==
    /\ Running({"access"}, "store")
    /\ LET a == top.address
       IN  \/ vmm_page_fault_handler(a)
           \/ /\ \E t \in Cached(a) \cup Walk(a) :
                    /\ Reaches(a, t)
                    /\ memory' = [memory EXCEPT ![t.frame] = Garbage]
                    /\ tlb' = tlb \cup {t}
              /\ Return(TRUE)
              /\ UNCHANGED g_page_directories
    /\ UNCHANGED stage

Aligned(address) == address % PAGE_SIZE = 0

vmm_map_page ==
    /\ stage = "running"
    /\ stack = <<>>
    /\ \E m \in Mappings :
        LET call == Call("map", m.address, m.physical \div PAGE_SIZE, m.flags, "entry")
        IN  IF Aligned(m.address) /\ Aligned(m.physical)
            THEN stack' = <<call>> /\ UNCHANGED result
            ELSE result' = [call EXCEPT !.at = "returned"] /\ UNCHANGED stack
    /\ UNCHANGED <<stage, panic, g_page_directories, memory, tlb, free>>

vmm_unmap_page ==
    /\ stage = "running"
    /\ stack = <<>>
    /\ \E a \in Unmapped :
        LET call == Call("unmap", a, 0, {}, "entry")
            pde == g_page_directories[pde_index(a)]
        IN  IF Aligned(a) /\ pde.present
            THEN /\ stack' = <<[call EXCEPT !.at = "clear", !.table = pde.address]>>
                 /\ UNCHANGED result
            ELSE result' = [call EXCEPT !.at = "returned"] /\ UNCHANGED stack
    /\ UNCHANGED <<stage, panic, g_page_directories, memory, tlb, free>>

(***************************************************************************)
(* The steps of the calls and of the handler.                              *)
(***************************************************************************)

(* pmm_alloc_pages(1) hands out any free frame; if it forgot to unlink it: *)
frame_not_taken(f) == free' = free

pmm_alloc_pages(f) == free' = free \ {f}

(* A handler that gives up quietly when there is no memory.                *)
out_of_memory_ignored == stack' = Tail(stack) /\ UNCHANGED panic

(* Without a free frame pmm_alloc_pages panics.                            *)
out_of_memory == KPANIC

(* The handler's allocation.  Frame 0 has the address NULL, which it takes *)
(* for a failure.                                                          *)
alloc_page ==
    /\ Running({"fault"}, "alloc")
    /\ \/ free = {} /\ out_of_memory /\ UNCHANGED free
       \/ \E f \in free :
            /\ pmm_alloc_pages(f)
            /\ IF f = 0
               THEN KPANIC
               ELSE /\ Continue([top EXCEPT !.frame = f, !.at = "entry"])
                    /\ UNCHANGED panic
    /\ UNCHANGED <<stage, g_page_directories, memory, tlb, result>>

(* A directory entry that is set up anew for every page.                   *)
table_ignored(pde) == FALSE

has_table(pde) == pde.present

(* get_or_create_pte: the table is there, or a frame is allocated for it.  *)
get_or_create_pte ==
    /\ Running({"map", "fault"}, "entry")
    /\ LET pde == g_page_directories[pde_index(top.address)]
       IN  \/ /\ has_table(pde)
              /\ Continue([top EXCEPT !.table = pde.address, !.at = "set"])
              /\ UNCHANGED <<panic, free>>
           \/ ~has_table(pde) /\ free = {} /\ out_of_memory /\ UNCHANGED free
           \/ ~has_table(pde) /\ \E f \in free :
                /\ pmm_alloc_pages(f)
                /\ Continue([top EXCEPT !.table = f,
                                        !.at = IF f = 0 THEN "failed" ELSE "create"])
                /\ UNCHANGED panic
    /\ UNCHANGED <<stage, g_page_directories, memory, tlb, result>>

map_failed ==
    /\ Running({"map", "fault"}, "failed")
    /\ Return(FALSE)
    /\ UNCHANGED <<stage, g_page_directories, memory, tlb>>

(* What a table created without kmemset would hold.                        *)
table_dirty(frame) == memory[frame]

kmemset_table(frame) == EmptyTable

(* The new table is cleared, and entered into the directory.               *)
create_table ==
    /\ Running({"map", "fault"}, "create")
    /\ LET pt_virtual == physical_to_virtual(top.table)
       IN  \/ vmm_page_fault_handler(pt_virtual)
           \/ /\ \E t \in Cached(pt_virtual) \cup Walk(pt_virtual) :
                    /\ Reaches(pt_virtual, t)
                    /\ memory' = [memory EXCEPT ![t.frame] = kmemset_table(t.frame)]
                    /\ tlb' = tlb \cup {t}
              /\ g_page_directories' =
                    [g_page_directories EXCEPT ![pde_index(top.address)] =
                        Present(top.table, top.flags \cap DirectoryFlags)]
              /\ Continue([top EXCEPT !.at = "set"])
              /\ UNCHANGED <<panic, free, result>>
    /\ UNCHANGED stage

entry_taken(entry) == entry.present

(* The rest of vmm_map_page: the entry, if it is unused.                   *)
set_entry ==
    /\ Running({"map", "fault"}, "set")
    /\ LET pt_virtual == physical_to_virtual(top.table)
           i == pte_index(top.address)
           new == [present |-> "present" \in top.flags, address |-> top.frame,
                   flags |-> top.flags \cap TableFlags]
       IN  \/ vmm_page_fault_handler(pt_virtual)
           \/ /\ \E t \in Cached(pt_virtual) \cup Walk(pt_virtual) :
                    /\ Reaches(pt_virtual, t)
                    /\ IF entry_taken(memory[t.frame][i])
                       THEN /\ tlb' = tlb \cup {t}
                            /\ Continue([top EXCEPT !.at = "failed"])
                            /\ UNCHANGED <<memory, panic, free, result>>
                       ELSE /\ memory' = [memory EXCEPT ![t.frame][i] = new]
                            /\ tlb' = flush_tlb_entry(tlb \cup {t}, top.address)
                            /\ IF top.call = "fault"
                               THEN /\ Continue([top EXCEPT !.at = "zero"])
                                    /\ UNCHANGED <<panic, free, result>>
                               ELSE Return(TRUE)
              /\ UNCHANGED g_page_directories
    /\ UNCHANGED stage

(* The end of the handler: the page it mapped is cleared.                  *)
zero_page ==
    /\ Running({"fault"}, "zero")
    /\ LET a == top.address
       IN  \/ vmm_page_fault_handler(a)
           \/ /\ \E t \in Cached(a) \cup Walk(a) :
                    /\ Reaches(a, t)
                    /\ memory' = [memory EXCEPT ![t.frame] = EmptyTable]
                    /\ tlb' = tlb \cup {t}
              /\ Return(TRUE)
              /\ UNCHANGED g_page_directories
    /\ UNCHANGED stage

(* An unmapping that leaves the TLB alone.                                 *)
flush_forgotten(entries, address) == entries

flush_unmapped(entries, address) == flush_tlb_entry(entries, address)

(* The rest of vmm_unmap_page.                                             *)
clear_entry ==
    /\ Running({"unmap"}, "clear")
    /\ LET pt_virtual == physical_to_virtual(top.table)
           i == pte_index(top.address)
       IN  \/ vmm_page_fault_handler(pt_virtual)
           \/ /\ \E t \in Cached(pt_virtual) \cup Walk(pt_virtual) :
                    /\ Reaches(pt_virtual, t)
                    /\ IF memory[t.frame][i].present
                       THEN /\ memory' = [memory EXCEPT ![t.frame][i] = NoEntry]
                            /\ tlb' = flush_unmapped(tlb \cup {t}, top.address)
                            /\ Return(TRUE)
                       ELSE /\ tlb' = tlb \cup {t}
                            /\ Return(FALSE)
                            /\ UNCHANGED memory
              /\ UNCHANGED g_page_directories
    /\ UNCHANGED stage

Boot == vmm_preinit \/ vmm_init \/ pmm_init

Steps ==
    \/ store
    \/ alloc_page
    \/ get_or_create_pte
    \/ map_failed
    \/ create_table
    \/ set_entry
    \/ zero_page
    \/ clear_entry

(* kpanic's hlt loop.                                                      *)
Halted == panic /\ UNCHANGED vars

Next ==
    \/ ~panic /\ (Boot \/ Access \/ vmm_map_page \/ vmm_unmap_page \/ Steps)
    \/ Halted

Spec == Init /\ [][Next]_vars

(* The CPU keeps executing the code it is in.                              *)
FairSpec == Spec /\ WF_vars(~panic /\ Steps)

(***************************************************************************)
(* What the manager promises.                                              *)
(***************************************************************************)

Activation == [call : {"none", "access", "map", "unmap", "fault"},
               address : Address, frame : Frame, flags : SUBSET VmmFlags,
               at : {"store", "alloc", "entry", "create", "set", "zero", "clear",
                     "failed", "returned"},
               table : Frame, ok : BOOLEAN]

TypeOK ==
    /\ stage \in {"vmm_preinit", "vmm_init", "pmm_init", "running"}
    /\ panic \in BOOLEAN
    /\ g_page_directories \in [Index -> Entry]
    /\ memory \in [Frame -> [Index -> Entry]]
    /\ tlb \subseteq [page : Address, frame : Frame, rw : BOOLEAN]
    /\ free \subseteq RAM
    /\ stack \in Seq(Activation)
    /\ result \in Activation

(* A vmm_map_page that returned true with VMM_FLAG_PRESENT has mapped the  *)
(* page to the frame it was given, and later page faults do not undo it.   *)
MapMeansMapped ==
    result.call = "map" /\ result.ok /\ "present" \in result.flags =>
        \E t \in Walk(result.address) : t.frame = result.frame

(* The TLB never holds a translation that the tables do not: vmm_map_page  *)
(* and vmm_unmap_page flush the address they change.  That is enough for a *)
(* page with one address, as every page is outside the kernel window.      *)
TlbCoherent == \A t \in tlb : t \in Walk(t.page)

(* A frame has one use, however deep the handler nests: a frame that an    *)
(* activation holds, or that is a page table, is not free and is neither   *)
(* held nor a table elsewhere.                                             *)
Held(f) ==
    { <<i, "page">> : i \in { j \in DOMAIN stack :
        stack[j].call = "fault" /\ stack[j].at # "alloc" /\ stack[j].frame = f } }
    \cup { <<i, "new table">> : i \in { j \in DOMAIN stack :
        stack[j].at = "create" /\ stack[j].table = f } }
    \cup { <<i, "table">> : i \in { j \in Index :
        ~IsWindow(j) /\ g_page_directories[j].present
            /\ g_page_directories[j].address = f } }

OneUsePerFrame ==
    \A f \in RAM :
        /\ f \in free => Held(f) = {}
        /\ \A u, w \in Held(f) : u = w

(* The page fault handler causes no page fault, neither when it creates a  *)
(* table nor when it clears the page: one handler at most is on the boot   *)
(* stack, as long as the window shows every frame it may get.              *)
FaultsDoNotNest ==
    \A i, j \in DOMAIN stack : stack[i].call = "fault" /\ stack[j].call = "fault" => i = j

(* An access completes, after a page fault if need be, or the kernel       *)
(* panics; so does every call.                                             *)
CallsReturn == (stack # <<>>) ~> (stack = <<>>)

(* The pages outside the kernel window, and what is behind them.           *)
OpenPages ==
    { a \in Address : Aligned(a) /\ ~IsWindow(pde_index(a)) }

Translation ==
    LET mapped == { a \in OpenPages : Walk(a) # {} }
    IN  [a \in mapped |-> (CHOOSE t \in Walk(a) : TRUE).frame]

(* The tables change the translation of one page at a time, the one the    *)
(* running call is about; creating a table maps nothing; and no frame of   *)
(* RAM is behind two pages.                                                *)
Abstract == INSTANCE AddressSpace WITH
    Pages <- OpenPages,
    Ram <- RAM,
    mapping <- IF stage = "vmm_preinit" THEN [a \in {} |-> 0] ELSE Translation,
    managed <- stage = "running",
    unused <- free

ImplementsAddressSpace == Abstract!Spec
=============================================================================
