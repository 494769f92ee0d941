----------------------------- MODULE VmmProofs -----------------------------
(***************************************************************************)
(* What TLAPS proves of Vmm, for every size of the tables, every set of    *)
(* frames, every access and every call of the kernel: the types, and that  *)
(* the page fault handler, however deep it nests, never puts one frame to  *)
(* two uses.  And for every instance whose RAM is inside the kernel window *)
(* (InWindow): what vmm_map_page reports is in the tables, the TLB agrees  *)
(* with them, page faults do not nest, and the tables implement an address *)
(* space.                                                                  *)
(***************************************************************************)
EXTENDS Vmm, TLAPS

(***************************************************************************)
(* Addresses.                                                              *)
(***************************************************************************)

(* The sizes are positive, and the frames of the kernel window exist.      *)
LEMMA Sizes ==
    /\ TableSpan \in Nat \ {0}
    /\ ADDRESS_SPACE \in Nat \ {0}
    /\ 0 \in Address /\ 0 \in Index /\ 0 \in Frame
    /\ IDENTITY \in Frame
    /\ Index \subseteq Frame
<1>1. ENTRIES \in Nat \ {0} /\ PAGE_SIZE \in Nat \ {0} /\ FRAMES \in Nat /\ FRAMES >= ENTRIES
  BY VmmAssumption
<1>2. \A m, n \in Nat \ {0} : m * n \in Nat \ {0}
  OBVIOUS
<1>3. TableSpan \in Nat \ {0}
  BY <1>1, <1>2 DEF TableSpan
<1>4. ADDRESS_SPACE \in Nat \ {0}
  BY <1>1, <1>2, <1>3 DEF ADDRESS_SPACE
<1> QED
  BY <1>1, <1>3, <1>4, VmmAssumption DEF Address, Index, Frame

(* A quotient is below the bound that the dividend's is a multiple of.     *)
LEMMA QuotientBelow ==
    ASSUME NEW n \in Nat, NEW d \in Nat \ {0}, NEW x \in 0..(n * d - 1)
    PROVE  x \div d \in 0..(n - 1)
<1> DEFINE q == x \div d
<1>1. q \in Nat /\ q * d <= x
  <2>1. x \in Nat
    OBVIOUS
  <2>2. x = d * q + (x % d) /\ x % d \in 0..(d - 1) /\ q \in Int
    BY <2>1
  <2>3. q >= 0
    BY <2>1
  <2> HIDE DEF q
  <2> QED
    BY <2>1, <2>2, <2>3
<1> HIDE DEF q
<1>2. ASSUME q >= n PROVE FALSE
  <2>1. q * d >= n * d
    BY <1>1, <1>2
  <2>2. x \in Int /\ n * d \in Int /\ q * d \in Int
    BY <1>1
  <2>3. x <= n * d - 1
    BY <2>2
  <2> QED
    BY <1>1, <2>1, <2>2, <2>3
<1> QED
  BY <1>1, <1>2 DEF q

(* The two indices of an address, its page, and the address at which the   *)
(* manager reaches a frame.                                                *)
LEMMA Indices ==
    ASSUME NEW a \in Address
    PROVE  pde_index(a) \in Index /\ pte_index(a) \in Index /\ kalign_down(a) \in Address
<1>1. pde_index(a) \in Index
  BY Sizes, VmmAssumption, QuotientBelow DEF pde_index, Index, Address, ADDRESS_SPACE
<1>2. pte_index(a) \in Index
  BY Sizes, VmmAssumption DEF pte_index, Index, Address
<1>3. kalign_down(a) \in Address
  BY Sizes, VmmAssumption DEF kalign_down, Address
<1> QED
  BY <1>1, <1>2, <1>3

(* The kernel sees every frame in its window.                              *)
LEMMA Reached ==
    ASSUME NEW f \in Frame
    PROVE  physical_to_virtual(f) \in Address
<1>1. f * PAGE_SIZE \in Nat /\ KERNEL_VIRTUAL_BASE \in Nat
  BY VmmAssumption DEF Frame, Address
<1> QED
  BY <1>1, Sizes DEF physical_to_virtual, Address

(* A mapping is of a frame.                                                *)
LEMMA MappingFrame ==
    ASSUME NEW m \in Mappings
    PROVE  m.physical \div PAGE_SIZE \in Frame
  BY VmmAssumption, QuotientBelow DEF Frame

(***************************************************************************)
(* Types.                                                                  *)
(***************************************************************************)

TlbEntry == [page : Address, frame : Frame, rw : BOOLEAN]

(* What the CPU may write through, from the TLB or from the tables.        *)
LEMMA Translations ==
    ASSUME TypeOK, NEW a \in Address
    PROVE  Cached(a) \cup Walk(a) \subseteq TlbEntry
<1>1. Cached(a) \subseteq TlbEntry
  BY DEF TypeOK, Cached, TlbEntry
<1>2. Walk(a) \subseteq TlbEntry
  <2>1. g_page_directories[pde_index(a)] \in Entry
    BY Indices DEF TypeOK
  <2>2. memory[g_page_directories[pde_index(a)].address][pte_index(a)] \in Entry
    BY <2>1, Indices DEF TypeOK, Entry
  <2> DEFINE e == g_page_directories[pde_index(a)]
             l == memory[e.address][pte_index(a)]
  <2>3. l.address \in Frame /\ kalign_down(a) \in Address
    BY <2>2, Indices DEF Entry
  <2> DEFINE rw == "rw" \in e.flags \cap l.flags
  <2>4. Walk(a) \subseteq {[page |-> kalign_down(a), frame |-> l.address, rw |-> rw]}
    BY Zenon DEF Walk
  <2>5. rw \in BOOLEAN
    OBVIOUS
  <2> HIDE DEF rw
  <2> QED
    BY <2>3, <2>4, <2>5 DEF TlbEntry
<1> QED
  BY <1>1, <1>2

(* The entries that the code writes, and what a fresh frame may hold.      *)
LEMMA Entries ==
    /\ NoEntry \in Entry
    /\ \A f \in Frame, flags \in SUBSET TableFlags : Present(f, flags) \in Entry
    /\ EmptyTable \in [Index -> Entry]
    /\ Garbage \in [Index -> Entry]
<1>1. NoEntry \in Entry
  BY Sizes DEF NoEntry, Entry
<1>2. \A f \in Frame, flags \in SUBSET TableFlags : Present(f, flags) \in Entry
  BY DEF Present, Entry
<1>3. Present(0, {"rw"}) \in Entry
  BY <1>2, Sizes DEF TableFlags, DirectoryFlags
<1> QED
  BY <1>1, <1>2, <1>3 DEF EmptyTable, Garbage

(* The caller of nothing.                                                  *)
LEMMA NoCallType == NoCall \in Activation
  BY Sizes DEF NoCall, Activation

(* The types hold at boot.                                                 *)
LEMMA TypeInit == Init => TypeOK
<1> SUFFICES ASSUME Init PROVE TypeOK
  OBVIOUS
<1>1. memory \in [Frame -> [Index -> Entry]] /\ g_page_directories \in [Index -> Entry]
  BY Entries DEF Init
<1>2. stack \in Seq(Activation) /\ result \in Activation
  BY NoCallType DEF Init
<1> QED
  BY <1>1, <1>2 DEF Init, TypeOK

(* The stack after a call, a return and a change of the innermost          *)
(* activation.                                                             *)
LEMMA StackType ==
    ASSUME NEW s \in Seq(Activation), NEW a \in Activation
    PROVE  /\ <<>> \in Seq(Activation)
           /\ <<a>> \in Seq(Activation)
           /\ <<a>> \o s \in Seq(Activation)
           /\ s # <<>> => Head(s) \in Activation /\ Tail(s) \in Seq(Activation)
                          /\ <<a>> \o Tail(s) \in Seq(Activation)
  OBVIOUS

(* A page fault keeps the types of what it changes.                        *)
LEMMA FaultType ==
    ASSUME TypeOK, NEW a \in Address, vmm_page_fault_handler(a), UNCHANGED stage
    PROVE  TypeOK'
<1> DEFINE call == Call("fault", kalign_down(a), 0, {"rw", "present"}, "alloc")
<1>1. call \in Activation
  BY Indices, Sizes DEF Call, NoCall, Activation, VmmFlags, TableFlags, DirectoryFlags
<1>2. <<call>> \o stack \in Seq(Activation)
  BY <1>1, StackType DEF TypeOK
<1>3. stack' \in {<<>>, <<call>> \o stack}
  BY Zenon DEF vmm_page_fault_handler, stack_overruns, KPANIC
<1> HIDE DEF call
<1>5. stack' \in Seq(Activation)
  BY <1>1, <1>2, <1>3, StackType, Zenon DEF vmm_page_fault_handler, stack_overruns, KPANIC
<1>4. panic' \in BOOLEAN
  BY Zenon DEF vmm_page_fault_handler, stack_overruns, KPANIC, TypeOK
<1> QED
  BY <1>4, <1>5 DEF TypeOK, vmm_page_fault_handler

(* So does the end of the innermost activation.                            *)
LEMMA ReturnType ==
    ASSUME TypeOK, stack # <<>>, NEW ok \in BOOLEAN, Return(ok),
           top.call = "fault" => top.frame \in RAM
    PROVE  /\ panic' \in BOOLEAN
           /\ free' \subseteq RAM
           /\ stack' \in Seq(Activation)
           /\ result' \in Activation
<1>1. top \in Activation /\ Tail(stack) \in Seq(Activation)
  BY StackType DEF TypeOK, top
<1>2. [top EXCEPT !.at = "returned", !.ok = ok] \in Activation
  BY <1>1 DEF Activation
<1>3. panic' \in BOOLEAN
  BY Zenon DEF Return, KPANIC, TypeOK
<1>4. free' \subseteq RAM
  BY Zenon DEF Return, KPANIC, TypeOK
<1>5. stack' \in Seq(Activation)
  BY <1>1, StackType, Zenon DEF Return, KPANIC
<1>6. result' \in Activation
  BY <1>2, Zenon DEF Return, KPANIC, TypeOK
<1> QED
  BY <1>3, <1>4, <1>5, <1>6

(* A store leaves pages and tables in memory, and translations in the TLB. *)
LEMMA StoreType ==
    ASSUME TypeOK, NEW a \in Address, NEW t \in Cached(a) \cup Walk(a)
    PROVE  /\ t \in TlbEntry
           /\ tlb \cup {t} \subseteq TlbEntry
           /\ \A page \in [Index -> Entry] :
                [memory EXCEPT ![t.frame] = page] \in [Frame -> [Index -> Entry]]
           /\ \A i \in Index, e \in Entry :
                [memory EXCEPT ![t.frame][i] = e] \in [Frame -> [Index -> Entry]]
<1>1. t \in TlbEntry
  BY Translations
<1>2. t.frame \in Frame /\ memory \in [Frame -> [Index -> Entry]] /\ tlb \subseteq TlbEntry
  BY <1>1 DEF TypeOK, TlbEntry
<1> HIDE DEF TypeOK
<1> QED
  BY <1>1, <1>2

(* The frames that the handler holds are the allocator's.                  *)
Handed(s) ==
    \A i \in DOMAIN s : s[i].call = "fault" /\ s[i].at # "alloc" => s[i].frame \in RAM

(* The types, one operation at a time: a store or the fault it raises,     *)
LEMMA StoreStep ==
    ASSUME TypeOK, store
    PROVE  TypeOK'
<1> DEFINE a == top.address
<1>1. stack # <<>> /\ top.call = "access" /\ top.at = "store" /\ UNCHANGED stage
  BY Zenon DEF store, Running
<1>2. a \in Address
  BY <1>1, StackType DEF TypeOK, top, Activation
<1>3. CASE vmm_page_fault_handler(a)
  BY <1>1, <1>2, <1>3, FaultType
<1>4. ASSUME NEW t \in Cached(a) \cup Walk(a),
             memory' = [memory EXCEPT ![t.frame] = Garbage],
             tlb' = tlb \cup {t}, Return(TRUE), UNCHANGED g_page_directories
      PROVE  TypeOK'
  <2>1. tlb' \subseteq TlbEntry /\ memory' \in [Frame -> [Index -> Entry]]
    BY <1>2, <1>4, StoreType, Entries, Zenon
  <2>2. panic' \in BOOLEAN /\ free' \subseteq RAM /\ stack' \in Seq(Activation)
          /\ result' \in Activation
    BY <1>1, <1>4, ReturnType
  <2> QED
    BY <1>1, <1>4, <2>1, <2>2 DEF TypeOK, TlbEntry
<1> QED
  BY <1>3, <1>4, Zenon DEF store

(* a page allocated,                                                       *)
LEMMA AllocStep ==
    ASSUME TypeOK, alloc_page
    PROVE  TypeOK'
<1>1. stack # <<>> /\ top.call = "fault" /\ top.at = "alloc"
  BY Zenon DEF alloc_page, Running
<1>2. top \in Activation
  BY <1>1, StackType DEF TypeOK, top
<1>3. UNCHANGED <<stage, g_page_directories, memory, tlb, result>>
  BY Zenon DEF alloc_page
<1>4. panic' \in BOOLEAN /\ free' \subseteq RAM
  BY Zenon DEF alloc_page, out_of_memory, KPANIC, pmm_alloc_pages, TypeOK
<1>5. \/ stack' = <<>>
      \/ \E f \in free : stack' = <<[top EXCEPT !.frame = f, !.at = "entry"]>> \o Tail(stack)
  BY Zenon DEF alloc_page, out_of_memory, KPANIC, Continue
<1>6. \A f \in free : [top EXCEPT !.frame = f, !.at = "entry"] \in Activation
  BY <1>2, VmmAssumption DEF TypeOK, Activation
<1>7. stack' \in Seq(Activation)
  BY <1>1, <1>2, <1>5, <1>6, StackType, Zenon DEF TypeOK
<1> QED
  BY <1>3, <1>4, <1>7 DEF TypeOK

(* the walk of the tables,                                                 *)
LEMMA EntryStep ==
    ASSUME TypeOK, get_or_create_pte
    PROVE  TypeOK'
<1> DEFINE pde == g_page_directories[pde_index(top.address)]
           old == [top EXCEPT !.table = pde.address, !.at = "set"]
           new(f) == [top EXCEPT !.table = f, !.at = IF f = 0 THEN "failed" ELSE "create"]
<1>1. stack # <<>>
  BY Zenon DEF get_or_create_pte, Running
<1>2. top \in Activation
  BY <1>1, StackType DEF TypeOK, top
<1>3. UNCHANGED <<stage, g_page_directories, memory, tlb, result>>
  BY Zenon DEF get_or_create_pte
<1>4. panic' \in BOOLEAN /\ free' \subseteq RAM
  BY Zenon DEF get_or_create_pte, out_of_memory, KPANIC, pmm_alloc_pages, TypeOK
<1>5. \/ stack' = <<>>
      \/ stack' = <<old>> \o Tail(stack)
      \/ \E f \in free : stack' = <<new(f)>> \o Tail(stack)
  BY Zenon DEF get_or_create_pte, out_of_memory, KPANIC, Continue
<1>6. \A f \in free : new(f) \in Activation
  BY <1>2, VmmAssumption DEF TypeOK, Activation
<1>7. old \in Activation
  <2>1. top.address \in Address
    BY <1>2 DEF Activation
  <2>2. pde \in Entry
    BY <2>1, Indices DEF TypeOK
  <2>3. pde.address \in Frame
    BY <2>2 DEF Entry
  <2> HIDE DEF pde
  <2> QED
    BY <1>2, <2>3 DEF Activation
<1> HIDE DEF pde, old, new
<1>8. stack' \in Seq(Activation)
  BY <1>1, <1>2, <1>5, <1>6, <1>7, StackType, Zenon DEF TypeOK
<1> QED
  BY <1>3, <1>4, <1>8 DEF TypeOK

(* a mapping that fails,                                                   *)
LEMMA FailStep ==
    ASSUME TypeOK, Handed(stack), map_failed
    PROVE  TypeOK'
<1>1. stack # <<>> /\ top.at = "failed" /\ Return(FALSE)
      /\ UNCHANGED <<stage, g_page_directories, memory, tlb>>
  BY Zenon DEF map_failed, Running
<1>2. top.call = "fault" => top.frame \in RAM
  BY <1>1 DEF Handed, top, TypeOK
<1>3. panic' \in BOOLEAN /\ free' \subseteq RAM /\ stack' \in Seq(Activation)
        /\ result' \in Activation
  BY <1>1, <1>2, ReturnType
<1> QED
  BY <1>1, <1>3 DEF TypeOK

(* The innermost activation goes on at another place.                      *)
LEMMA ContinueType ==
    ASSUME TypeOK, stack # <<>>, NEW at \in {"set", "zero", "failed"},
           Continue([top EXCEPT !.at = at])
    PROVE  stack' \in Seq(Activation)
<1>1. top \in Activation
  BY StackType DEF TypeOK, top
<1>2. [top EXCEPT !.at = at] \in Activation
  BY <1>1 DEF Activation
<1> QED
  BY <1>2, StackType, Zenon DEF Continue, TypeOK

(* a table entered into its directory,                                     *)
LEMMA CreateStep ==
    ASSUME TypeOK, create_table
    PROVE  TypeOK'
<1> DEFINE a == physical_to_virtual(top.table)
           d == top.flags \cap DirectoryFlags
<1>1. stack # <<>> /\ UNCHANGED stage
  BY Zenon DEF create_table, Running
<1>2. top \in Activation
  BY <1>1, StackType DEF TypeOK, top
<1>3. a \in Address
  BY <1>2, Reached DEF Activation
<1>4. CASE vmm_page_fault_handler(a)
  BY <1>1, <1>3, <1>4, FaultType
<1>5. ASSUME NEW t \in Cached(a) \cup Walk(a),
             memory' = [memory EXCEPT ![t.frame] = kmemset_table(t.frame)],
             tlb' = tlb \cup {t},
             g_page_directories' =
                [g_page_directories EXCEPT ![pde_index(top.address)] = Present(top.table, d)],
             Continue([top EXCEPT !.at = "set"]),
             UNCHANGED <<panic, free, result>>
      PROVE  TypeOK'
  <2>1. tlb' \subseteq TlbEntry /\ memory' \in [Frame -> [Index -> Entry]]
    BY <1>3, <1>5, StoreType, Entries, Zenon DEF kmemset_table
  <2>2. Present(top.table, d) \in Entry
    <3>1. top.table \in Frame /\ d \in SUBSET TableFlags
      BY <1>2 DEF Activation, TableFlags
    <3> QED
      BY <3>1, Entries, Zenon
  <2>3. g_page_directories' \in [Index -> Entry]
    BY <1>5, <2>2 DEF TypeOK
  <2>4. stack' \in Seq(Activation)
    BY <1>1, <1>5, ContinueType
  <2> QED
    BY <1>1, <1>5, <2>1, <2>3, <2>4 DEF TypeOK, TlbEntry
<1> QED
  BY <1>4, <1>5, Zenon DEF create_table

(* a page entry written,                                                   *)
LEMMA SetStep ==
    ASSUME TypeOK, Handed(stack), set_entry
    PROVE  TypeOK'
<1> DEFINE a == physical_to_virtual(top.table)
           i == pte_index(top.address)
           new == [present |-> "present" \in top.flags, address |-> top.frame,
                   flags |-> top.flags \cap TableFlags]
<1>1. stack # <<>> /\ top.at = "set" /\ UNCHANGED stage
  BY Zenon DEF set_entry, Running
<1>2. top \in Activation
  BY <1>1, StackType DEF TypeOK, top
<1>3. top.call = "fault" => top.frame \in RAM
  BY <1>1 DEF Handed, top, TypeOK
<1>4. new \in Entry
  <2> DEFINE p == "present" \in top.flags
  <2>1. p \in BOOLEAN
    OBVIOUS
  <2> HIDE DEF p
  <2>2. [present |-> p, address |-> top.frame, flags |-> top.flags \cap TableFlags] \in Entry
    BY <1>2, <2>1 DEF Activation, Entry
  <2> QED
    BY <2>2 DEF p
<1> HIDE DEF new
<1>5. CASE vmm_page_fault_handler(a)
  BY <1>1, <1>2, <1>5, Reached, FaultType DEF Activation
<1>6. ASSUME NEW t \in Cached(a) \cup Walk(a), UNCHANGED g_page_directories,
             tlb' = tlb \cup {t}, Continue([top EXCEPT !.at = "failed"]),
             UNCHANGED <<memory, panic, free, result>>
      PROVE  TypeOK'
  <2>1. tlb' \subseteq TlbEntry
    BY <1>2, <1>6, Reached, StoreType DEF Activation
  <2>2. stack' \in Seq(Activation)
    BY <1>1, <1>6, ContinueType
  <2> QED
    BY <1>1, <1>6, <2>1, <2>2 DEF TypeOK, TlbEntry
<1>7. ASSUME NEW t \in Cached(a) \cup Walk(a), UNCHANGED g_page_directories,
             memory' = [memory EXCEPT ![t.frame][i] = new],
             tlb' = flush_tlb_entry(tlb \cup {t}, top.address),
             \/ /\ Continue([top EXCEPT !.at = "zero"])
                /\ UNCHANGED <<panic, free, result>>
             \/ Return(TRUE)
      PROVE  TypeOK'
  <2>1. a \in Address /\ i \in Index
    BY <1>2, Reached, Indices DEF Activation
  <2>2. tlb' \subseteq TlbEntry
    BY <1>7, <2>1, StoreType DEF flush_tlb_entry
  <2>3. memory' \in [Frame -> [Index -> Entry]]
    BY <1>4, <1>7, <2>1, StoreType, Zenon
  <2>4. panic' \in BOOLEAN /\ free' \subseteq RAM /\ stack' \in Seq(Activation)
          /\ result' \in Activation
    <3>1. CASE Continue([top EXCEPT !.at = "zero"]) /\ UNCHANGED <<panic, free, result>>
      BY <1>1, <3>1, ContinueType DEF TypeOK
    <3>2. CASE Return(TRUE)
      BY <1>1, <1>3, <3>2, ReturnType
    <3> QED
      BY <1>7, <3>1, <3>2
  <2> QED
    BY <1>1, <1>7, <2>2, <2>3, <2>4 DEF TypeOK, TlbEntry
<1> QED
  BY <1>5, <1>6, <1>7, Zenon DEF set_entry, new

(* a page zeroed,                                                          *)
LEMMA ZeroStep ==
    ASSUME TypeOK, Handed(stack), zero_page
    PROVE  TypeOK'
<1> DEFINE a == top.address
<1>1. stack # <<>> /\ top.at = "zero" /\ UNCHANGED stage
  BY Zenon DEF zero_page, Running
<1>2. a \in Address
  BY <1>1, StackType DEF TypeOK, top, Activation
<1>5. top.call = "fault" => top.frame \in RAM
  BY <1>1 DEF Handed, top, TypeOK
<1>3. CASE vmm_page_fault_handler(a)
  BY <1>1, <1>2, <1>3, FaultType
<1>4. ASSUME NEW t \in Cached(a) \cup Walk(a),
             memory' = [memory EXCEPT ![t.frame] = EmptyTable],
             tlb' = tlb \cup {t}, Return(TRUE), UNCHANGED g_page_directories
      PROVE  TypeOK'
  <2>1. tlb' \subseteq TlbEntry /\ memory' \in [Frame -> [Index -> Entry]]
    BY <1>2, <1>4, StoreType, Entries, Zenon
  <2>2. panic' \in BOOLEAN /\ free' \subseteq RAM /\ stack' \in Seq(Activation)
          /\ result' \in Activation
    BY <1>1, <1>4, <1>5, ReturnType
  <2> QED
    BY <1>1, <1>4, <2>1, <2>2 DEF TypeOK, TlbEntry
<1> QED
  BY <1>3, <1>4, Zenon DEF zero_page

(* a page entry cleared                                                    *)
LEMMA ClearStep ==
    ASSUME TypeOK, clear_entry
    PROVE  TypeOK'
<1> DEFINE a == physical_to_virtual(top.table)
           i == pte_index(top.address)
<1>1. stack # <<>> /\ top.call = "unmap" /\ UNCHANGED stage
  BY Zenon DEF clear_entry, Running
<1>2. top \in Activation
  BY <1>1, StackType DEF TypeOK, top
<1>3. a \in Address /\ i \in Index
  BY <1>2, Reached, Indices DEF Activation
<1>4. CASE vmm_page_fault_handler(a)
  BY <1>1, <1>3, <1>4, FaultType
<1>5. ASSUME NEW t \in Cached(a) \cup Walk(a), UNCHANGED g_page_directories,
             \/ memory' = [memory EXCEPT ![t.frame][i] = NoEntry]
             \/ memory' = memory,
             tlb' \subseteq tlb \cup {t},
             Return(TRUE) \/ Return(FALSE)
      PROVE  TypeOK'
  <2>1. tlb' \subseteq TlbEntry
    BY <1>3, <1>5, StoreType
  <2>2. memory' \in [Frame -> [Index -> Entry]]
    <3>1. memory \in [Frame -> [Index -> Entry]] /\ NoEntry \in Entry
      BY Entries DEF TypeOK
    <3>2. [memory EXCEPT ![t.frame][i] = NoEntry] \in [Frame -> [Index -> Entry]]
      BY <1>3, <1>5, <3>1, StoreType, Zenon
    <3> QED
      BY <1>5, <3>1, <3>2
  <2>3. panic' \in BOOLEAN /\ free' \subseteq RAM /\ stack' \in Seq(Activation)
          /\ result' \in Activation
    BY <1>1, <1>5, ReturnType
  <2> QED
    BY <1>1, <1>5, <2>1, <2>2, <2>3 DEF TypeOK, TlbEntry
<1>6. \A x : flush_unmapped(tlb \cup {x}, top.address) \subseteq tlb \cup {x}
  BY DEF flush_unmapped, flush_tlb_entry
<1> QED
  BY <1>4, <1>5, <1>6, Zenon DEF clear_entry

(* The kernel's accesses and calls start one activation.                   *)
LEMMA CallStep ==
    ASSUME TypeOK, Access \/ vmm_map_page \/ vmm_unmap_page
    PROVE  TypeOK'
<1>1. CASE Access
  <2>1. PICK a \in Accessed : stack' = <<Call("access", a, 0, {}, "store")>>
    BY <1>1, Zenon DEF Access
  <2>2. Call("access", a, 0, {}, "store") \in Activation
    BY VmmAssumption, Sizes DEF Call, NoCall, Activation
  <2>3. stack' \in Seq(Activation)
    BY <2>1, <2>2, StackType, Zenon DEF TypeOK
  <2> QED
    BY <1>1, <2>3 DEF Access, TypeOK
<1>2. CASE vmm_map_page
  <2> DEFINE new(m) == Call("map", m.address, m.physical \div PAGE_SIZE, m.flags, "entry")
  <2>1. PICK m \in Mappings :
            \/ stack' = <<new(m)>> /\ UNCHANGED result
            \/ result' = [new(m) EXCEPT !.at = "returned"] /\ UNCHANGED stack
    BY <1>2, Zenon DEF vmm_map_page
  <2>2. new(m) \in Activation
    BY VmmAssumption, MappingFrame, Sizes DEF Call, NoCall, Activation
  <2> HIDE DEF new
  <2>3. [new(m) EXCEPT !.at = "returned"] \in Activation
    BY <2>2 DEF Activation
  <2>4. stack' \in Seq(Activation) /\ result' \in Activation
    BY <2>1, <2>2, <2>3, StackType, Zenon DEF TypeOK
  <2> QED
    BY <1>2, <2>4 DEF vmm_map_page, TypeOK
<1>3. CASE vmm_unmap_page
  <2> DEFINE new(a) == Call("unmap", a, 0, {}, "entry")
             pde(a) == g_page_directories[pde_index(a)]
             go(a) == [new(a) EXCEPT !.at = "clear", !.table = pde(a).address]
  <2>1. PICK a \in Unmapped :
            \/ stack' = <<go(a)>> /\ UNCHANGED result
            \/ result' = [new(a) EXCEPT !.at = "returned"] /\ UNCHANGED stack
    BY <1>3, Zenon DEF vmm_unmap_page
  <2>2. new(a) \in Activation
    BY VmmAssumption, Sizes DEF Call, NoCall, Activation
  <2>3. pde(a) \in Entry
    BY VmmAssumption, Indices DEF TypeOK
  <2>4. pde(a).address \in Frame
    BY <2>3 DEF Entry
  <2> HIDE DEF new, pde
  <2>5. [new(a) EXCEPT !.at = "returned"] \in Activation /\ go(a) \in Activation
    BY <2>2, <2>4 DEF Activation
  <2> HIDE DEF go
  <2>6. stack' \in Seq(Activation) /\ result' \in Activation
    BY <2>1, <2>2, <2>5, StackType, Zenon DEF TypeOK
  <2> QED
    BY <1>3, <2>6 DEF vmm_unmap_page, TypeOK
<1> QED
  BY <1>1, <1>2, <1>3

(* and the boot steps.                                                     *)
LEMMA BootStep ==
    ASSUME TypeOK, Boot
    PROVE  TypeOK'
<1>1. CASE vmm_preinit
  <2>1. \A f \in Frame : Present(f, {"rw"}) \in Entry
    BY Entries DEF TableFlags, DirectoryFlags
  <2>2. [i \in Index |-> Present(i, {"rw"})] \in [Index -> Entry]
    BY <2>1, Sizes
  <2>3. memory' \in [Frame -> [Index -> Entry]]
    BY <1>1, <2>2 DEF vmm_preinit, TypeOK
  <2>4. g_page_directories' \in [Index -> Entry]
    BY <1>1, <2>1, Sizes, Entries DEF vmm_preinit
  <2> QED
    BY <1>1, <2>3, <2>4 DEF vmm_preinit, TypeOK
<1>2. CASE vmm_init
  BY <1>2 DEF vmm_init, TypeOK
<1>3. CASE pmm_init
  BY <1>3 DEF pmm_init, TypeOK
<1> QED
  BY <1>1, <1>2, <1>3 DEF Boot

(* The types are inductive, given what the activations hold.               *)
LEMMA TypeStep ==
    ASSUME TypeOK, Handed(stack), [Next]_vars
    PROVE  TypeOK'
<1>1. CASE UNCHANGED vars
  BY <1>1 DEF vars, TypeOK
<1>2. CASE Steps
  BY <1>2, StoreStep, AllocStep, EntryStep, FailStep, CreateStep, SetStep, ZeroStep, ClearStep
     DEF Steps
<1> QED
  BY <1>1, <1>2, BootStep, CallStep DEF Next, Halted

(***************************************************************************)
(* One use for each frame.  The three uses of a frame, as predicates on an *)
(* activation and on a directory, and what it means that nobody shares.    *)
(***************************************************************************)

HoldsPage(a, f) == a.call = "fault" /\ a.at # "alloc" /\ a.frame = f
HoldsTable(a, f) == a.at = "create" /\ a.table = f
Holds(a, f) == HoldsPage(a, f) \/ HoldsTable(a, f)
IsTable(d, j, f) == ~IsWindow(j) /\ d[j].present /\ d[j].address = f

Exclusive(s, d, unused) ==
    \A f \in RAM :
        /\ \A i \in DOMAIN s : Holds(s[i], f) =>
            /\ f \notin unused
            /\ ~(HoldsPage(s[i], f) /\ HoldsTable(s[i], f))
            /\ \A j \in Index : ~IsTable(d, j, f)
            /\ \A k \in DOMAIN s : Holds(s[k], f) => k = i
        /\ \A j \in Index : IsTable(d, j, f) =>
            /\ f \notin unused
            /\ \A k \in Index : IsTable(d, k, f) => k = j

(* Before pmm_init there is nothing to allocate, so that the handler does  *)
(* not get past its allocation and no table is made.                       *)
NothingYet ==
    /\ free = {}
    /\ \A i \in DOMAIN stack : stack[i].at \in {"store", "alloc"}
    /\ \A j \in Index, f \in RAM : ~IsTable(g_page_directories, j, f)

(* The inductive invariant.                                                *)
VmmInv ==
    /\ TypeOK
    /\ Handed(stack)
    /\ Exclusive(stack, g_page_directories, free)
    /\ stage # "running" => NothingYet

(* It says what OneUsePerFrame says.                                       *)
LEMMA ExclusiveMeansOneUse ==
    ASSUME Exclusive(stack, g_page_directories, free)
    PROVE  OneUsePerFrame
<1> SUFFICES ASSUME NEW f \in RAM
             PROVE  /\ f \in free => Held(f) = {}
                    /\ \A u, w \in Held(f) : u = w
  BY DEF OneUsePerFrame
<1>1. \A u \in Held(f) :
        \/ \E i \in DOMAIN stack : u = <<i, "page">> /\ HoldsPage(stack[i], f)
        \/ \E i \in DOMAIN stack : u = <<i, "new table">> /\ HoldsTable(stack[i], f)
        \/ \E j \in Index : u = <<j, "table">> /\ IsTable(g_page_directories, j, f)
  BY Zenon DEF Held, HoldsPage, HoldsTable, IsTable
<1>2. f \in free => Held(f) = {}
  BY <1>1, Zenon DEF Exclusive, Holds
<1>3. \A u, w \in Held(f) : u = w
  BY <1>1, Zenon DEF Exclusive, Holds
<1> QED
  BY <1>2, <1>3

(* The stack with another innermost activation, with one more, and without *)
(* its innermost.                                                          *)
LEMMA Positions ==
    ASSUME NEW s \in Seq(Activation), NEW a \in Activation
    PROVE  /\ DOMAIN (<<a>> \o s) = 1..(Len(s) + 1)
           /\ (<<a>> \o s)[1] = a
           /\ \A i \in DOMAIN s : (<<a>> \o s)[i + 1] = s[i]
           /\ \A i \in DOMAIN (<<a>> \o s) :
                i = 1 \/ (i - 1 \in DOMAIN s /\ (<<a>> \o s)[i] = s[i - 1])
           /\ s # <<>> =>
                /\ 1 \in DOMAIN s /\ Head(s) = s[1]
                /\ \A i \in DOMAIN Tail(s) : i + 1 \in DOMAIN s /\ Tail(s)[i] = s[i + 1]
                /\ DOMAIN (<<a>> \o Tail(s)) = DOMAIN s
                /\ (<<a>> \o Tail(s))[1] = a
                /\ \A i \in DOMAIN s : i # 1 => (<<a>> \o Tail(s))[i] = s[i]
  OBVIOUS

(* A page fault is one more activation, which holds nothing.               *)
LEMMA PushKeeps ==
    ASSUME NEW s \in Seq(Activation), NEW a \in Activation, NEW d, NEW unused,
           Handed(s), Exclusive(s, d, unused),
           \A f : ~Holds(a, f)
    PROVE  Handed(<<a>> \o s) /\ Exclusive(<<a>> \o s, d, unused)
<1> DEFINE t == <<a>> \o s
<1>1. t[1] = a /\ \A i \in DOMAIN t : i = 1 \/ (i - 1 \in DOMAIN s /\ t[i] = s[i - 1])
  BY Positions
<1>2. DOMAIN t \subseteq Int
  BY Positions
<1> HIDE DEF t
<1>3. Handed(t)
  <2> SUFFICES ASSUME NEW i \in DOMAIN t, t[i].call = "fault", t[i].at # "alloc"
               PROVE  t[i].frame \in RAM
    BY DEF Handed
  <2> QED
    BY <1>1 DEF Handed, Holds, HoldsPage
<1>4. Exclusive(t, d, unused)
  <2> SUFFICES ASSUME NEW f \in RAM
               PROVE  /\ \A i \in DOMAIN t : Holds(t[i], f) =>
                        /\ f \notin unused
                        /\ ~(HoldsPage(t[i], f) /\ HoldsTable(t[i], f))
                        /\ \A j \in Index : ~IsTable(d, j, f)
                        /\ \A k \in DOMAIN t : Holds(t[k], f) => k = i
                      /\ \A j \in Index : IsTable(d, j, f) =>
                        /\ f \notin unused
                        /\ \A k \in Index : IsTable(d, k, f) => k = j
    BY Zenon DEF Exclusive
  <2>1. \A i \in DOMAIN t : Holds(t[i], f) => i - 1 \in DOMAIN s /\ t[i] = s[i - 1]
    BY <1>1
  <2> QED
    BY <1>2, <2>1 DEF Exclusive
<1> QED
  BY <1>3, <1>4 DEF t

(* A return is one less.                                                   *)
LEMMA PopKeeps ==
    ASSUME NEW s \in Seq(Activation), s # <<>>, NEW d, NEW unused,
           Handed(s), Exclusive(s, d, unused)
    PROVE  Handed(Tail(s)) /\ Exclusive(Tail(s), d, unused)
<1> DEFINE t == Tail(s)
<1>1. \A i \in DOMAIN t : i + 1 \in DOMAIN s /\ t[i] = s[i + 1] /\ i \in Int
  BY NoCallType, Positions
<1> HIDE DEF t
<1>2. Handed(t)
  BY <1>1 DEF Handed
<1>3. Exclusive(t, d, unused)
  BY <1>1 DEF Exclusive
<1> QED
  BY <1>2, <1>3 DEF t

(* The innermost activation changes: it may hold what it held before, and  *)
(* a frame that was unused.                                                *)
LEMMA ChangeKeeps ==
    ASSUME NEW s \in Seq(Activation), s # <<>>, NEW a \in Activation, NEW d,
           NEW unused, NEW rest, rest \subseteq unused,
           Handed(s), Exclusive(s, d, unused),
           \A f : HoldsPage(a, f) => f \in RAM,
           \A f \in RAM : Holds(a, f) =>
                /\ f \notin rest
                /\ Holds(Head(s), f) \/ f \in unused
                /\ ~(HoldsPage(a, f) /\ HoldsTable(a, f))
    PROVE  Handed(<<a>> \o Tail(s)) /\ Exclusive(<<a>> \o Tail(s), d, rest)
<1> DEFINE t == <<a>> \o Tail(s)
<1>1. /\ DOMAIN t = DOMAIN s
      /\ 1 \in DOMAIN s /\ Head(s) = s[1]
      /\ t[1] = a
      /\ \A i \in DOMAIN s : i # 1 => t[i] = s[i]
  BY Positions
<1> HIDE DEF t
<1>2. Handed(t)
  <2> SUFFICES ASSUME NEW i \in DOMAIN t, t[i].call = "fault", t[i].at # "alloc"
               PROVE  t[i].frame \in RAM
    BY DEF Handed
  <2> QED
    BY <1>1 DEF Handed, HoldsPage
<1>3. Exclusive(t, d, rest)
  <2> SUFFICES ASSUME NEW f \in RAM
               PROVE  /\ \A i \in DOMAIN t : Holds(t[i], f) =>
                        /\ f \notin rest
                        /\ ~(HoldsPage(t[i], f) /\ HoldsTable(t[i], f))
                        /\ \A j \in Index : ~IsTable(d, j, f)
                        /\ \A k \in DOMAIN t : Holds(t[k], f) => k = i
                      /\ \A j \in Index : IsTable(d, j, f) =>
                        /\ f \notin rest
                        /\ \A k \in Index : IsTable(d, k, f) => k = j
    BY Zenon DEF Exclusive
  <2> QED
    BY <1>1 DEF Exclusive
<1> QED
  BY <1>2, <1>3 DEF t

(* The table that the innermost activation made goes into the directory.   *)
LEMMA EnterKeeps ==
    ASSUME NEW s \in Seq(Activation), s # <<>>, NEW a \in Activation,
           NEW d \in [Index -> Entry], NEW p \in Index, NEW flags, NEW unused,
           Handed(s), Exclusive(s, d, unused),
           HoldsTable(Head(s), a.table),
           \A f : ~HoldsTable(a, f),
           \A f : HoldsPage(a, f) => HoldsPage(Head(s), f)
    PROVE  /\ Handed(<<a>> \o Tail(s))
           /\ Exclusive(<<a>> \o Tail(s), [d EXCEPT ![p] = Present(a.table, flags)], unused)
<1> DEFINE t == <<a>> \o Tail(s)
           e == [d EXCEPT ![p] = Present(a.table, flags)]
<1>1. /\ DOMAIN t = DOMAIN s
      /\ 1 \in DOMAIN s /\ Head(s) = s[1]
      /\ t[1] = a
      /\ \A i \in DOMAIN s : i # 1 => t[i] = s[i]
  BY Positions
<1>2. \A j \in Index, f \in RAM :
        IsTable(e, j, f) => IF j = p THEN f = a.table ELSE IsTable(d, j, f)
  BY DEF IsTable, Present
<1> HIDE DEF t, e
<1>3. Handed(t)
  <2> SUFFICES ASSUME NEW i \in DOMAIN t, t[i].call = "fault", t[i].at # "alloc"
               PROVE  t[i].frame \in RAM
    BY DEF Handed
  <2> QED
    BY <1>1 DEF Handed, HoldsPage
<1>4. Exclusive(t, e, unused)
  <2> SUFFICES ASSUME NEW f \in RAM
               PROVE  /\ \A i \in DOMAIN t : Holds(t[i], f) =>
                        /\ f \notin unused
                        /\ ~(HoldsPage(t[i], f) /\ HoldsTable(t[i], f))
                        /\ \A j \in Index : ~IsTable(e, j, f)
                        /\ \A k \in DOMAIN t : Holds(t[k], f) => k = i
                      /\ \A j \in Index : IsTable(e, j, f) =>
                        /\ f \notin unused
                        /\ \A k \in Index : IsTable(e, k, f) => k = j
    BY Zenon DEF Exclusive
  <2>1. \A i \in DOMAIN t : Holds(t[i], f) => Holds(s[i], f)
    BY <1>1 DEF Holds
  <2>2. \A i \in DOMAIN t : HoldsTable(t[i], f) => i # 1 /\ HoldsTable(s[i], f)
    BY <1>1
  <2>3. \A i \in DOMAIN t : HoldsPage(t[i], f) => HoldsPage(s[i], f)
    BY <1>1
  <2>4. CASE f # a.table
    BY <1>1, <1>2, <2>1, <2>2, <2>3, <2>4 DEF Exclusive
  <2>5. CASE f = a.table
    <3>1. Holds(s[1], f) /\ HoldsTable(s[1], f)
      BY <1>1, <2>5 DEF Holds
    <3>2. \A i \in DOMAIN t : ~Holds(t[i], f)
      BY <1>1, <2>1, <2>2, <2>3, <3>1 DEF Exclusive, Holds
    <3>3. \A j \in Index : IsTable(e, j, f) => j = p
      BY <1>1, <1>2, <3>1 DEF Exclusive
    <3>4. f \notin unused
      BY <1>1, <3>1 DEF Exclusive
    <3> QED
      BY <3>2, <3>3, <3>4
  <2> QED
    BY <2>4, <2>5
<1> QED
  BY <1>3, <1>4 DEF t, e

(* A panic leaves no activation; a frame that only the last one held may   *)
(* become unused.                                                          *)
LEMMA ClearKeeps ==
    ASSUME NEW s, NEW d, NEW unused, Exclusive(s, d, unused), NEW rest,
           \A f \in RAM : f \in rest => f \in unused \/ \A j \in Index : ~IsTable(d, j, f)
    PROVE  Handed(<<>>) /\ Exclusive(<<>>, d, rest)
<1>1. DOMAIN <<>> = {}
  OBVIOUS
<1>2. Handed(<<>>)
  BY <1>1, Zenon DEF Handed
<1>3. Exclusive(<<>>, d, rest)
  BY <1>1, Zenon DEF Exclusive
<1> QED
  BY <1>2, <1>3

(* What a step establishes besides the types.                              *)
Kept ==
    /\ Handed(stack')
    /\ Exclusive(stack', g_page_directories', free')
    /\ stage' # "running" => NothingYet'

(* The uses of frames, one operation at a time: a fault begins,            *)
LEMMA FaultUses ==
    ASSUME VmmInv, NEW a \in Address, vmm_page_fault_handler(a), UNCHANGED stage
    PROVE  Kept
<1> DEFINE call == Call("fault", kalign_down(a), 0, {"rw", "present"}, "alloc")
<1>1. call \in Activation
  BY Indices, Sizes DEF Call, NoCall, Activation, VmmFlags, TableFlags, DirectoryFlags
<1>2. (\A f : ~Holds(call, f)) /\ call.at = "alloc"
  BY DEF Call, NoCall, Holds, HoldsPage, HoldsTable
<1>3. stack' = <<call>> \o stack \/ stack' = <<>>
  BY Zenon DEF vmm_page_fault_handler, stack_overruns, KPANIC
<1>4. UNCHANGED <<g_page_directories, free>>
  BY Zenon DEF vmm_page_fault_handler
<1>5. stack \in Seq(Activation) /\ Handed(stack) /\ Exclusive(stack, g_page_directories, free)
  BY DEF VmmInv, TypeOK
<1> HIDE DEF call
<1>6. CASE stack' = <<call>> \o stack
  <2>1. Handed(stack') /\ Exclusive(stack', g_page_directories', free')
    BY <1>1, <1>2, <1>4, <1>5, <1>6, PushKeeps
  <2>2. \A i \in DOMAIN stack' : i = 1 \/ (i - 1 \in DOMAIN stack /\ stack'[i] = stack[i - 1])
    BY <1>1, <1>5, <1>6, Positions
  <2>3. stack'[1] = call
    BY <1>1, <1>5, <1>6, Positions
  <2>4. stage' # "running" => NothingYet'
    BY <1>2, <1>4, <2>2, <2>3 DEF VmmInv, NothingYet
  <2> QED
    BY <2>1, <2>4 DEF Kept
<1>7. CASE stack' = <<>>
  <2>1. Handed(stack') /\ Exclusive(stack', g_page_directories', free')
    BY <1>4, <1>5, <1>7, ClearKeeps
  <2>2. stage' # "running" => NothingYet'
    BY <1>4, <1>7 DEF VmmInv, NothingYet
  <2> QED
    BY <2>1, <2>2 DEF Kept
<1> QED
  BY <1>3, <1>6, <1>7

(* The innermost activation ends well, or fails outside the handler.       *)
LEMMA ReturnUses ==
    ASSUME VmmInv, stack # <<>>, stack' = Tail(stack),
           UNCHANGED <<stage, g_page_directories, free>>
    PROVE  Kept
<1>1. stack \in Seq(Activation) /\ Handed(stack) /\ Exclusive(stack, g_page_directories, free)
  BY DEF VmmInv, TypeOK
<1>2. Handed(stack') /\ Exclusive(stack', g_page_directories', free')
  BY <1>1, PopKeeps
<1>3. \A i \in DOMAIN stack' : i + 1 \in DOMAIN stack /\ stack'[i] = stack[i + 1]
  BY <1>1, NoCallType, Positions
<1>4. stage' # "running" => NothingYet'
  BY <1>3 DEF VmmInv, NothingYet
<1> QED
  BY <1>2, <1>4 DEF Kept

(* A place that nobody reaches before pmm_init.                            *)
LEMMA MustRun ==
    ASSUME VmmInv, stack # <<>>, top.at \notin {"store", "alloc"}
    PROVE  stage = "running"
<1>1. 1 \in DOMAIN stack /\ top = stack[1]
  BY NoCallType, Positions DEF VmmInv, TypeOK, top
<1> QED
  BY <1>1 DEF VmmInv, NothingYet

(* The innermost activation goes on, with the frames it had.               *)
LEMMA ContinueUses ==
    ASSUME VmmInv, stack # <<>>, top.at \notin {"store", "alloc", "create"},
           NEW at \in {"set", "zero", "failed"}, Continue([top EXCEPT !.at = at]),
           UNCHANGED <<stage, g_page_directories, free>>
    PROVE  Kept
<1> DEFINE new == [top EXCEPT !.at = at]
<1>1. stack \in Seq(Activation) /\ Handed(stack) /\ Exclusive(stack, g_page_directories, free)
  BY DEF VmmInv, TypeOK
<1>2. top \in Activation /\ 1 \in DOMAIN stack /\ top = stack[1]
  BY <1>1, StackType, NoCallType, Positions DEF top
<1>3. new \in Activation /\ new.call = top.call /\ new.frame = top.frame /\ new.at = at
  BY <1>2 DEF Activation
<1>4. stack' = <<new>> \o Tail(stack)
  BY DEF Continue
<1> HIDE DEF new
<1>5. \A f : HoldsPage(new, f) => f \in RAM
  BY <1>1, <1>2, <1>3 DEF Handed, HoldsPage
<1>6. \A f : Holds(new, f) => Holds(Head(stack), f) /\ ~HoldsTable(new, f)
  BY <1>3 DEF Holds, HoldsPage, HoldsTable, top
<1>7. \A f \in RAM : Holds(Head(stack), f) => f \notin free
  BY <1>1, <1>2 DEF Exclusive, top
<1>8. Handed(stack') /\ Exclusive(stack', g_page_directories', free')
  BY <1>1, <1>3, <1>4, <1>5, <1>6, <1>7, ChangeKeeps
<1> QED
  BY <1>8, MustRun DEF Kept

(* a store is done or raises one,                                          *)
LEMMA StoreUses ==
    ASSUME VmmInv, store
    PROVE  Kept
<1>1. stack # <<>> /\ top.call = "access" /\ UNCHANGED stage
  BY Zenon DEF store, Running
<1>2. top.address \in Address
  BY <1>1, StackType DEF VmmInv, TypeOK, top, Activation
<1>3. CASE vmm_page_fault_handler(top.address)
  BY <1>1, <1>2, <1>3, FaultUses
<1>4. CASE Return(TRUE) /\ UNCHANGED g_page_directories
  BY <1>1, <1>4, ReturnUses DEF Return
<1> QED
  BY <1>3, <1>4, Zenon DEF store

(* a free frame gets its first use,                                        *)
LEMMA AllocUses ==
    ASSUME VmmInv, alloc_page
    PROVE  Kept
<1> DEFINE new(f) == [top EXCEPT !.frame = f, !.at = "entry"]
<1>1. stack # <<>> /\ top.call = "fault" /\ top.at = "alloc"
      /\ UNCHANGED <<stage, g_page_directories>>
  BY Zenon DEF alloc_page, Running
<1>2. stack \in Seq(Activation) /\ Handed(stack) /\ Exclusive(stack, g_page_directories, free)
      /\ free \subseteq RAM
  BY DEF VmmInv, TypeOK
<1>3. top \in Activation /\ 1 \in DOMAIN stack /\ top = stack[1]
  BY <1>1, <1>2, StackType, NoCallType, Positions DEF top
<1>4. CASE stack' = <<>> /\ free' \subseteq free
  <2>1. Handed(stack') /\ Exclusive(stack', g_page_directories', free')
    BY <1>1, <1>2, <1>4, ClearKeeps
  <2>2. stage' # "running" => NothingYet'
    BY <1>1, <1>4 DEF VmmInv, NothingYet
  <2> QED
    BY <2>1, <2>2 DEF Kept
<1>5. ASSUME NEW f \in free, free' = free \ {f}, Continue([top EXCEPT !.frame = f, !.at = "entry"])
      PROVE  Kept
  <2>1. new(f) \in Activation /\ new(f).at = "entry" /\ new(f).frame = f
    BY <1>2, <1>3, VmmAssumption DEF Activation
  <2>2. stack' = <<new(f)>> \o Tail(stack)
    BY <1>5 DEF Continue
  <2> HIDE DEF new
  <2>3. \A g : Holds(new(f), g) => g = f /\ ~HoldsTable(new(f), g)
    BY <2>1 DEF Holds, HoldsPage, HoldsTable
  <2>4. \A g : HoldsPage(new(f), g) => g \in RAM
    BY <1>2, <2>3 DEF Holds
  <2>5. Handed(stack') /\ Exclusive(stack', g_page_directories', free')
    BY <1>1, <1>2, <1>5, <2>1, <2>2, <2>3, <2>4, ChangeKeeps
  <2>6. stage = "running"
    BY <1>5 DEF VmmInv, NothingYet
  <2> QED
    BY <1>1, <2>5, <2>6 DEF Kept
<1> QED
  BY <1>4, <1>5, Zenon DEF alloc_page, out_of_memory, KPANIC, pmm_alloc_pages

(* the walk of the tables,                                                 *)
LEMMA EntryUses ==
    ASSUME VmmInv, get_or_create_pte
    PROVE  Kept
<1> DEFINE pde == g_page_directories[pde_index(top.address)]
           old == [top EXCEPT !.table = pde.address, !.at = "set"]
           new(f) == [top EXCEPT !.table = f, !.at = IF f = 0 THEN "failed" ELSE "create"]
<1>1. stack # <<>> /\ top.at = "entry" /\ UNCHANGED <<stage, g_page_directories>>
  BY Zenon DEF get_or_create_pte, Running
<1>2. stack \in Seq(Activation) /\ Handed(stack) /\ Exclusive(stack, g_page_directories, free)
      /\ free \subseteq RAM
  BY DEF VmmInv, TypeOK
<1>3. top \in Activation /\ 1 \in DOMAIN stack /\ top = stack[1]
  BY <1>1, <1>2, StackType, NoCallType, Positions DEF top
<1>4. \A f : HoldsPage(top, f) => f \in RAM
  BY <1>2, <1>3 DEF Handed, HoldsPage
<1>5. \A f \in RAM : Holds(Head(stack), f) => f \notin free
  BY <1>2, <1>3 DEF Exclusive, top
<1>6. stage = "running"
  BY <1>1, MustRun
<1>7. CASE stack' = <<>> /\ UNCHANGED free
  <2>1. Handed(stack') /\ Exclusive(stack', g_page_directories', free')
    BY <1>1, <1>2, <1>7, ClearKeeps
  <2> QED
    BY <1>1, <1>6, <2>1 DEF Kept
<1>8. CASE Continue([top EXCEPT !.table = pde.address, !.at = "set"]) /\ UNCHANGED free
  <2>1. pde.address \in Frame
    BY <1>3, Indices DEF VmmInv, TypeOK, Activation, Entry
  <2> HIDE DEF pde
  <2>2. old \in Activation /\ old.at = "set" /\ old.frame = top.frame /\ old.call = top.call
    BY <1>3, <2>1 DEF Activation
  <2>3. stack' = <<old>> \o Tail(stack)
    BY <1>8 DEF Continue
  <2> HIDE DEF old
  <2>4. \A f : Holds(old, f) => HoldsPage(top, f) /\ HoldsPage(old, f) /\ ~HoldsTable(old, f)
    BY <1>1, <2>2 DEF Holds, HoldsPage, HoldsTable
  <2>5. \A f : HoldsPage(old, f) => f \in RAM
    BY <1>4, <2>4 DEF Holds
  <2>6. \A f \in RAM : Holds(old, f) => f \notin free /\ Holds(Head(stack), f)
    BY <1>5, <2>4 DEF Holds, top
  <2>7. Handed(stack') /\ Exclusive(stack', g_page_directories', free')
    BY <1>1, <1>2, <1>8, <2>2, <2>3, <2>4, <2>5, <2>6, ChangeKeeps
  <2> QED
    BY <1>1, <1>6, <2>7 DEF Kept
<1>9. ASSUME NEW f \in free, free' = free \ {f},
             Continue([top EXCEPT !.table = f, !.at = IF f = 0 THEN "failed" ELSE "create"])
      PROVE  Kept
  <2>1. new(f) \in Activation /\ new(f).at \in {"failed", "create"} /\ new(f).table = f
        /\ new(f).call = top.call /\ new(f).frame = top.frame
    BY <1>2, <1>3, VmmAssumption DEF Activation
  <2>2. stack' = <<new(f)>> \o Tail(stack)
    BY <1>9 DEF Continue
  <2> HIDE DEF new
  <2>3. \A g : HoldsPage(new(f), g) => HoldsPage(top, g) /\ g \in RAM
    BY <1>1, <1>4, <2>1 DEF HoldsPage
  <2>4. \A g : HoldsTable(new(f), g) => g = f
    BY <2>1 DEF HoldsTable
  <2>5. \A g \in RAM : Holds(new(f), g) =>
            /\ g \notin free \ {f}
            /\ Holds(Head(stack), g) \/ g \in free
            /\ ~(HoldsPage(new(f), g) /\ HoldsTable(new(f), g))
    BY <1>5, <2>3, <2>4 DEF Holds, top
  <2>6. Handed(stack') /\ Exclusive(stack', g_page_directories', free')
    BY <1>1, <1>2, <1>9, <2>1, <2>2, <2>3, <2>5, ChangeKeeps
  <2> QED
    BY <1>1, <1>6, <2>6 DEF Kept
<1> QED
  BY <1>7, <1>8, <1>9, Zenon DEF get_or_create_pte, out_of_memory, KPANIC, pmm_alloc_pages

(* A handler that cannot map its page gives the frame back and panics.     *)
LEMMA FailUses ==
    ASSUME VmmInv, map_failed
    PROVE  Kept
<1>1. stack # <<>> /\ top.at = "failed" /\ Return(FALSE)
      /\ UNCHANGED <<stage, g_page_directories>>
  BY Zenon DEF map_failed, Running
<1>2. Exclusive(stack, g_page_directories, free) /\ 1 \in DOMAIN stack /\ top = stack[1]
  BY <1>1, NoCallType, Positions DEF VmmInv, TypeOK, top
<1>3. CASE top.call = "fault"
  <2>1. stack' = <<>> /\ free' = free \cup {top.frame}
    BY <1>1, <1>3, Zenon DEF Return, KPANIC
  <2>2. Holds(stack[1], top.frame)
    BY <1>1, <1>2, <1>3 DEF Holds, HoldsPage
  <2>3. \A f \in RAM : f \in free' =>
            f \in free \/ \A j \in Index : ~IsTable(g_page_directories, j, f)
    BY <1>2, <2>1, <2>2 DEF Exclusive
  <2>4. Handed(stack') /\ Exclusive(stack', g_page_directories', free')
    BY <1>1, <1>2, <2>1, <2>3, ClearKeeps
  <2> QED
    BY <1>1, <2>4, MustRun DEF Kept
<1>4. CASE top.call # "fault"
  BY <1>1, <1>4, ReturnUses DEF Return
<1> QED
  BY <1>3, <1>4

(* a frame becomes a table,                                                *)
LEMMA CreateUses ==
    ASSUME VmmInv, create_table
    PROVE  Kept
<1> DEFINE new == [top EXCEPT !.at = "set"]
           d == top.flags \cap DirectoryFlags
           p == pde_index(top.address)
<1>1. stack # <<>> /\ top.at = "create" /\ UNCHANGED stage
  BY Zenon DEF create_table, Running
<1>2. stack \in Seq(Activation) /\ Handed(stack) /\ Exclusive(stack, g_page_directories, free)
      /\ g_page_directories \in [Index -> Entry]
  BY DEF VmmInv, TypeOK
<1>3. top \in Activation
  BY <1>1, <1>2, StackType DEF top
<1>4. CASE vmm_page_fault_handler(physical_to_virtual(top.table))
  BY <1>1, <1>3, <1>4, Reached, FaultUses DEF Activation
<1>5. CASE /\ g_page_directories' =
                [g_page_directories EXCEPT ![pde_index(top.address)] =
                    Present(top.table, top.flags \cap DirectoryFlags)]
           /\ Continue([top EXCEPT !.at = "set"])
           /\ UNCHANGED free
  <2>1. new \in Activation /\ new.at = "set" /\ new.table = top.table
        /\ new.call = top.call /\ new.frame = top.frame /\ p \in Index
    BY <1>3, Indices DEF Activation
  <2>2. stack' = <<new>> \o Tail(stack)
    BY <1>5 DEF Continue
  <2> HIDE DEF new, d
  <2>3. HoldsTable(Head(stack), new.table) /\ \A f : ~HoldsTable(new, f)
    BY <1>1, <2>1 DEF HoldsTable, top
  <2>4. \A f : HoldsPage(new, f) => HoldsPage(Head(stack), f)
    BY <1>1, <2>1 DEF HoldsPage, top
  <2>5. g_page_directories' = [g_page_directories EXCEPT ![p] = Present(new.table, d)]
    BY <1>5, <2>1 DEF d
  <2> HIDE DEF p
  <2>6. /\ Handed(<<new>> \o Tail(stack))
        /\ Exclusive(<<new>> \o Tail(stack),
                     [g_page_directories EXCEPT ![p] = Present(new.table, d)], free)
    BY ONLY <1>1, <1>2, <2>1, <2>3, <2>4, EnterKeeps
  <2>7. Handed(stack') /\ Exclusive(stack', g_page_directories', free')
    BY <1>5, <2>2, <2>5, <2>6
  <2> QED
    BY <1>1, <2>7, MustRun DEF Kept
<1> QED
  BY <1>4, <1>5, Zenon DEF create_table

(* a frame becomes a page,                                                 *)
LEMMA SetUses ==
    ASSUME VmmInv, set_entry
    PROVE  Kept
<1>1. stack # <<>> /\ top.at = "set" /\ UNCHANGED stage
  BY Zenon DEF set_entry, Running
<1>2. top \in Activation
  BY <1>1, StackType DEF VmmInv, TypeOK, top
<1>3. CASE vmm_page_fault_handler(physical_to_virtual(top.table))
  BY <1>1, <1>2, <1>3, Reached, FaultUses DEF Activation
<1>4. CASE /\ Continue([top EXCEPT !.at = "failed"]) \/ Continue([top EXCEPT !.at = "zero"])
           /\ UNCHANGED <<g_page_directories, free>>
  BY <1>1, <1>4, ContinueUses
<1>5. CASE Return(TRUE) /\ UNCHANGED g_page_directories
  BY <1>1, <1>5, ReturnUses DEF Return
<1> QED
  BY <1>3, <1>4, <1>5, Zenon DEF set_entry

(* a page is zeroed,                                                       *)
LEMMA ZeroUses ==
    ASSUME VmmInv, zero_page
    PROVE  Kept
<1>1. stack # <<>> /\ UNCHANGED stage
  BY Zenon DEF zero_page, Running
<1>2. top.address \in Address
  BY <1>1, StackType DEF VmmInv, TypeOK, top, Activation
<1>3. CASE vmm_page_fault_handler(top.address)
  BY <1>1, <1>2, <1>3, FaultUses
<1>4. CASE Return(TRUE) /\ UNCHANGED g_page_directories
  BY <1>1, <1>4, ReturnUses DEF Return
<1> QED
  BY <1>3, <1>4, Zenon DEF zero_page

(* a page entry is cleared,                                                *)
LEMMA ClearUses ==
    ASSUME VmmInv, clear_entry
    PROVE  Kept
<1>1. stack # <<>> /\ top.call = "unmap" /\ UNCHANGED stage
  BY Zenon DEF clear_entry, Running
<1>2. top \in Activation
  BY <1>1, StackType DEF VmmInv, TypeOK, top
<1>3. CASE vmm_page_fault_handler(physical_to_virtual(top.table))
  BY <1>1, <1>2, <1>3, Reached, FaultUses DEF Activation
<1>4. CASE (Return(TRUE) \/ Return(FALSE)) /\ UNCHANGED g_page_directories
  BY <1>1, <1>4, ReturnUses DEF Return
<1> QED
  BY <1>3, <1>4, Zenon DEF clear_entry

(* a call or an access begins                                              *)
LEMMA CallUses ==
    ASSUME VmmInv, Access \/ vmm_map_page \/ vmm_unmap_page, Handed(stack)
    PROVE  Kept
<1>1. Exclusive(stack, g_page_directories, free) /\ stack = <<>>
  BY Zenon DEF VmmInv, Access, vmm_map_page, vmm_unmap_page
<1>2. UNCHANGED <<stage, g_page_directories, free>>
  BY Zenon DEF Access, vmm_map_page, vmm_unmap_page
<1>3. ASSUME NEW a, stack' = <<a>>, a.call # "fault", a.at # "create",
             stage # "running" => a.at = "store"
      PROVE  Kept
  <2>1. DOMAIN stack' = {1} /\ stack'[1] = a
    BY <1>3
  <2>2. \A f : ~Holds(a, f)
    BY <1>3 DEF Holds, HoldsPage, HoldsTable
  <2>3. Handed(stack')
    BY <1>3, <2>1 DEF Handed
  <2>4. Exclusive(stack', g_page_directories', free')
    BY <1>1, <1>2, <2>1, <2>2, Zenon DEF Exclusive
  <2>5. stage' # "running" => NothingYet'
    BY <1>2, <1>3, <2>1 DEF VmmInv, NothingYet
  <2> QED
    BY <2>3, <2>4, <2>5 DEF Kept
<1>4. CASE UNCHANGED stack
  BY <1>2, <1>4 DEF VmmInv, Kept, NothingYet
<1>5. CASE Access
  BY <1>3, <1>5 DEF Access, Call, NoCall
<1>6. CASE vmm_map_page
  <2>1. stage = "running" /\ (UNCHANGED stack
          \/ \E m \in Mappings : stack' =
                <<Call("map", m.address, m.physical \div PAGE_SIZE, m.flags, "entry")>>)
    BY <1>6, Zenon DEF vmm_map_page
  <2> QED
    BY <1>3, <1>4, <2>1 DEF Call, NoCall
<1>7. CASE vmm_unmap_page
  <2>1. stage = "running" /\ (UNCHANGED stack
          \/ \E a \in Unmapped : stack' =
                <<[Call("unmap", a, 0, {}, "entry") EXCEPT
                        !.at = "clear", !.table = g_page_directories[pde_index(a)].address]>>)
    BY <1>7, Zenon DEF vmm_unmap_page
  <2> QED
    BY <1>3, <1>4, <2>1 DEF Call, NoCall
<1> QED
  BY <1>5, <1>6, <1>7

(* and the boot steps.                                                     *)
LEMMA BootUses ==
    ASSUME VmmInv, Boot
    PROVE  Kept
<1>1. Handed(stack) /\ Exclusive(stack, g_page_directories, free)
  BY DEF VmmInv
<1>2. CASE vmm_preinit
  <2>1. UNCHANGED <<stack, free>> /\ stage = "vmm_preinit"
    BY <1>2 DEF vmm_preinit
  <2>2. \A j \in Index, f \in RAM : ~IsTable(g_page_directories', j, f)
    BY <1>2 DEF vmm_preinit, window_entry, IsTable, NoEntry
  <2>3. Exclusive(stack', g_page_directories', free')
    BY <1>1, <2>1, <2>2 DEF Exclusive
  <2>4. NothingYet'
    BY <2>1, <2>2 DEF VmmInv, NothingYet
  <2> QED
    BY <1>1, <2>1, <2>3, <2>4 DEF Kept
<1>3. CASE vmm_init
  BY <1>1, <1>3 DEF vmm_init, VmmInv, Kept, NothingYet
<1>4. CASE pmm_init
  <2>1. stack = <<>> /\ UNCHANGED <<stack, g_page_directories>> /\ stage = "pmm_init"
        /\ stage' = "running"
    BY <1>4 DEF pmm_init
  <2>2. \A j \in Index, f \in RAM : ~IsTable(g_page_directories, j, f)
    BY <2>1 DEF VmmInv, NothingYet
  <2>3. Exclusive(stack', g_page_directories', free')
    BY <1>1, <2>1, <2>2, ClearKeeps
  <2> QED
    BY <1>1, <2>1, <2>3 DEF Kept
<1> QED
  BY <1>2, <1>3, <1>4 DEF Boot

(* No step gives a frame a second use.                                     *)
LEMMA UseStep ==
    ASSUME VmmInv, [Next]_vars
    PROVE  Kept
<1>1. CASE UNCHANGED vars
  BY <1>1 DEF vars, VmmInv, Kept, NothingYet
<1>2. CASE Steps
  BY <1>2, StoreUses, AllocUses, EntryUses, FailUses, CreateUses, SetUses, ZeroUses, ClearUses
     DEF Steps
<1>3. Handed(stack)
  BY DEF VmmInv
<1> QED
  BY <1>1, <1>2, <1>3, BootUses, CallUses DEF Next, Halted

(* No frame has a use at boot.                                             *)
LEMMA UseInit == Init => VmmInv
<1> SUFFICES ASSUME Init PROVE VmmInv
  OBVIOUS
<1>1. TypeOK
  BY TypeInit
<1>2. DOMAIN stack = {} /\ free = {}
  BY DEF Init
<1>3. \A j \in Index, f \in RAM : ~IsTable(g_page_directories, j, f)
  BY DEF Init, EmptyTable, NoEntry, IsTable
<1>4. Handed(stack)
  BY <1>2, Zenon DEF Handed
<1>5. Exclusive(stack, g_page_directories, free)
  BY <1>2, <1>3, Zenon DEF Exclusive
<1>6. NothingYet
  BY <1>2, <1>3, Zenon DEF NothingYet
<1> QED
  BY <1>1, <1>4, <1>5, <1>6 DEF VmmInv

(***************************************************************************)
(* The theorems.                                                           *)
(***************************************************************************)

(* VmmInv holds in every reachable state.                                  *)
THEOREM VmmInvariant == Spec => []VmmInv
<1>1. Init => VmmInv
  BY UseInit
<1>2. VmmInv /\ [Next]_vars => VmmInv'
  <2> SUFFICES ASSUME VmmInv, [Next]_vars PROVE VmmInv'
    OBVIOUS
  <2>1. TypeOK'
    BY TypeStep DEF VmmInv
  <2>2. Kept
    BY UseStep
  <2> QED
    BY <2>1, <2>2 DEF VmmInv, Kept
<1> QED
  BY <1>1, <1>2, PTL DEF Spec

(* The manager never leaves its types: an index computed from an address   *)
(* is in its table, a frame that an entry names exists, and only frames of *)
(* the allocator are unused.                                               *)
THEOREM VmmTypeTheorem == Spec => []TypeOK
<1>1. VmmInv => TypeOK
  BY DEF VmmInv
<1> QED
  BY <1>1, VmmInvariant, PTL

(* However deep page faults nest inside vmm_map_page and the handler, a    *)
(* frame that one of them holds, or that became a page table, is held by   *)
(* nobody else, is no other table and is not unused.                       *)
THEOREM OneUseTheorem == Spec => []OneUsePerFrame
<1>1. VmmInv => OneUsePerFrame
  BY ExclusiveMeansOneUse DEF VmmInv
<1> QED
  BY <1>1, VmmInvariant, PTL

(***************************************************************************)
(* RAM inside the window.  As long as every frame of the allocator is in   *)
(* the kernel window and the kernel maps devices only and leaves the       *)
(* window alone, the manager's own stores reach the tables they are meant  *)
(* for.  The tables are then what the MMU sees of them: the translations   *)
(* at each pair of indices, which calls change one at a time.              *)
(***************************************************************************)

InWindow ==
    /\ RAM \subseteq Index
    /\ \A m \in Mappings : m.physical \div PAGE_SIZE \notin RAM \cup {IDENTITY}
    /\ \A a \in Unmapped \cup Accessed : ~IsWindow(pde_index(a))

(* The address with given indices.                                         *)
At(j, k) == (j * ENTRIES + k) * PAGE_SIZE

Writable(pde, pte) == "rw" \in pde.flags \cap pte.flags

(* The translation through entry k of table j, or none.                    *)
Slot(d, m, j, k) ==
    LET pde == d[j]
        pte == m[pde.address][k]
    IN  IF pde.present /\ pte.present
        THEN {[page |-> At(j, k), frame |-> pte.address, rw |-> Writable(pde, pte)]}
        ELSE {}

Seen(d, m) == [j \in Index |-> [k \in Index |-> Slot(d, m, j, k)]]

(* The window is as vmm_preinit made it, and other tables are in frames of *)
(* the allocator.                                                          *)
WindowOK(d, m) ==
    /\ \A i \in Index : m[IDENTITY][i] = Present(i, {"rw"})
    /\ \A j \in Index : IF IsWindow(j) THEN d[j] = Present(IDENTITY, {"rw"})
                        ELSE d[j].present => d[j].address \in RAM

(* Outside the window, the frame f is behind the page at j and k.          *)
Behind(seen, j, k, f) == ~IsWindow(j) /\ \E t \in seen[j][k] : t.frame = f

(* The innermost activation holds f and has not mapped it.                 *)
Pending(s, f) == s # <<>> /\ Holds(Head(s), f) /\ Head(s).at # "zero"

(* A frame that is neither unused, nor a table, nor about to be mapped.    *)
Settled(d, s, unused, f) ==
    /\ f \notin unused
    /\ \A j \in Index : ~IsTable(d, j, f)
    /\ ~Pending(s, f)

(* A frame of RAM behind a page is behind no other and has no other use.   *)
PagesOK(seen, d, s, unused) ==
    \A j, k \in Index, f \in Frame : Behind(seen, j, k, f) =>
        /\ f # IDENTITY
        /\ f \in RAM =>
            /\ Settled(d, s, unused, f)
            /\ \A i, l \in Index : Behind(seen, i, l, f) => i = j /\ l = k

(* The handler runs for an access, and nothing faults inside it.           *)
OpenAccess(a) == a.call = "access" /\ a.at = "store" /\ ~IsWindow(pde_index(a.address))

Shallow(s) ==
    /\ Len(s) <= 2
    /\ Len(s) = 1 => s[1].call # "fault"
    /\ Len(s) = 2 => s[1].call = "fault" /\ OpenAccess(s[2])

(* Where the running call is, and what it has found.                       *)
MapOK(a) ==
    /\ a.at \in {"entry", "create", "set", "failed"}
    /\ a.frame \notin RAM \cup {IDENTITY}
    /\ Aligned(a.address)

FaultOK(a) ==
    /\ a.at \in {"alloc", "entry", "create", "set", "failed", "zero"}
    /\ "present" \in a.flags
    /\ Aligned(a.address)
    /\ ~IsWindow(pde_index(a.address))

UnmapOK(a) ==
    /\ a.at = "clear"
    /\ Aligned(a.address)
    /\ ~IsWindow(pde_index(a.address))

CallOK(a) ==
    \/ OpenAccess(a)
    \/ a.call = "map" /\ MapOK(a)
    \/ a.call = "fault" /\ FaultOK(a)
    \/ a.call = "unmap" /\ UnmapOK(a)

FoundOK(seen, d, a) ==
    /\ a.at = "create" => ~d[pde_index(a.address)].present /\ a.table \in RAM
    /\ a.at \in {"set", "clear"} =>
        d[pde_index(a.address)].present /\ d[pde_index(a.address)].address = a.table
    /\ a.at = "zero" => Behind(seen, pde_index(a.address), pte_index(a.address), a.frame)

StackOK(seen, d, s) ==
    Shallow(s) /\ (s # <<>> => CallOK(Head(s)) /\ FoundOK(seen, d, Head(s)))

(* The last mapping that succeeded is in the tables.                       *)
ResultOK(seen, r) ==
    r.call = "map" /\ r.ok /\ "present" \in r.flags =>
        Behind(seen, pde_index(r.address), pte_index(r.address), r.frame)

(* The TLB holds what the MMU sees.                                        *)
TlbOK(seen, entries) == \A t \in entries : \E j, k \in Index : t \in seen[j][k]

(* The inductive invariant, together with VmmInv.                          *)
TablesOK(seen) ==
    /\ WindowOK(g_page_directories, memory)
    /\ PagesOK(seen, g_page_directories, stack, free)
    /\ StackOK(seen, g_page_directories, stack)
    /\ ResultOK(seen, result)
    /\ TlbOK(seen, tlb)

WindowInv ==
    IF stage = "vmm_preinit"
    THEN tlb = {} /\ stack = <<>> /\ result = NoCall
    ELSE TablesOK(Seen(g_page_directories, memory))

(* Division is unique.                                                     *)
LEMMA DivUnique ==
    ASSUME NEW d \in Nat \ {0}, NEW q \in Nat, NEW r \in 0..(d - 1)
    PROVE  (d * q + r) \div d = q /\ (d * q + r) % d = r
<1> DEFINE x == d * q + r
           u == x \div d
           v == x % d
<1>1. x \in Nat /\ d * q \in Nat
  OBVIOUS
<1> HIDE DEF x
<1>2. x = d * u + v /\ v \in 0..(d - 1) /\ u \in Int
  BY <1>1
<1>3. x = d * q + r
  BY DEF x
<1> HIDE DEF u, v
<1>4. ASSUME u < q PROVE FALSE
  <2>1. d * (u + 1) <= d * q
    BY <1>2, <1>4
  <2>2. d * (u + 1) = d * u + d
    BY <1>2
  <2> QED
    BY <1>1, <1>2, <1>3, <2>1, <2>2
<1>5. ASSUME u > q PROVE FALSE
  <2>1. d * (q + 1) <= d * u
    BY <1>2, <1>5
  <2>2. d * (q + 1) = d * q + d
    OBVIOUS
  <2> QED
    BY <1>1, <1>2, <1>3, <2>1, <2>2
<1>6. u = q
  BY <1>2, <1>4, <1>5
<1>7. v = r
  BY <1>1, <1>2, <1>3, <1>6
<1> QED
  BY <1>6, <1>7 DEF u, v, x

(* The indices of that address, and of the bytes of its page.              *)
LEMMA AtIndices ==
    ASSUME NEW j \in Index, NEW k \in Index, NEW r \in 0..(PAGE_SIZE - 1)
    PROVE  /\ pde_index(At(j, k) + r) = j
           /\ pte_index(At(j, k) + r) = k
           /\ kalign_down(At(j, k) + r) = At(j, k)
           /\ At(j, k) + r \in Nat
<1> DEFINE E == ENTRIES
           P == PAGE_SIZE
           n == j * E + k
           a == n * P + r
<1>1. E \in Nat \ {0} /\ P \in Nat \ {0} /\ j \in Nat /\ k \in 0..(E - 1) /\ r \in 0..(P - 1)
  BY VmmAssumption DEF Index
<1> HIDE DEF E, P
<1>2. n \in Nat /\ n = E * j + k /\ a = P * n + r /\ a \in Nat
  BY <1>1
<1>3. a \div P = n /\ a % P = r
  <2> HIDE DEF n
  <2>1. (P * n + r) \div P = n /\ (P * n + r) % P = r
    BY <1>1, <1>2, DivUnique
  <2> QED
    BY <1>2, <2>1
<1>4. n % E = k
  <2>1. (E * j + k) % E = k
    BY <1>1, DivUnique
  <2> QED
    BY <1>2, <2>1
<1>5. a \div (E * P) = j
  <2> DEFINE l == k * P + r
             D == E * P
  <2>1. D \in Nat \ {0}
    BY <1>1
  <2>2. a = D * j + l
    BY <1>1, <1>2
  <2>3. l \in 0..(D - 1)
    <3>1. l \in Nat
      BY <1>1
    <3>2. k * P <= (E - 1) * P
      BY <1>1
    <3>3. (E - 1) * P = D - P
      BY <1>1
    <3> QED
      BY <1>1, <2>1, <3>1, <3>2, <3>3
  <2> HIDE DEF l, D
  <2>4. (D * j + l) \div D = j
    BY <1>1, <2>1, <2>3, DivUnique
  <2> QED
    BY <2>2, <2>4 DEF D
<1>6. At(j, k) = n * P /\ n * P \in Int
  BY <1>1, <1>2 DEF At, E, P
<1>7. pde_index(a) = j
  BY <1>5 DEF pde_index, TableSpan, E, P
<1>8. pte_index(a) = k
  BY <1>3, <1>4 DEF pte_index, E, P
<1>9. kalign_down(a) = n * P
  <2>1. kalign_down(a) = a - r
    BY <1>3 DEF kalign_down, P
  <2> HIDE DEF n
  <2> QED
    BY <1>1, <1>2, <1>6, <2>1
<1> HIDE DEF n
<1> QED
  BY <1>2, <1>6, <1>7, <1>8, <1>9

(* Every address has indices, and its page is theirs.                      *)
LEMMA AddressAt ==
    ASSUME NEW a \in Address
    PROVE  /\ kalign_down(a) = At(pde_index(a), pte_index(a))
           /\ \E r \in 0..(PAGE_SIZE - 1) : a = At(pde_index(a), pte_index(a)) + r
<1> DEFINE E == ENTRIES
           P == PAGE_SIZE
           q == a \div P
           r == a % P
           h == q \div E
           k == q % E
<1>1. E \in Nat \ {0} /\ P \in Nat \ {0} /\ a \in Nat
  BY VmmAssumption DEF Address
<1>2. a = P * q + r /\ r \in 0..(P - 1) /\ q \in Int /\ q >= 0
  BY <1>1
<1> HIDE DEF q, r
<1>3. q = E * h + k /\ k \in 0..(E - 1) /\ h \in Int /\ h >= 0
  BY <1>1, <1>2
<1> HIDE DEF h, k
<1>4. h \in Index /\ k \in Index
  <2>1. h * (E * P) <= a
    <3>1. h * (E * P) = P * (E * h)
      BY <1>1, <1>3
    <3>2. P * (E * h) <= P * q
      BY <1>1, <1>2, <1>3
    <3> QED
      BY <1>1, <1>2, <1>3, <3>1, <3>2
  <2>2. a < E * (E * P)
    BY <1>1 DEF Address, ADDRESS_SPACE, TableSpan, E, P
  <2>3. ASSUME h >= E PROVE FALSE
    <3>1. E * P \in Nat \ {0}
      BY <1>1
    <3>2. h * (E * P) >= E * (E * P)
      BY <1>1, <1>3, <2>3, <3>1
    <3>3. h * (E * P) \in Int /\ E * (E * P) \in Int
      BY <1>1, <1>3, <3>1
    <3> QED
      BY <1>1, <2>1, <2>2, <3>2, <3>3
  <2> QED
    BY <1>1, <1>3, <2>3 DEF Index, E
<1>5. a = At(h, k) + r
  BY <1>1, <1>2, <1>3 DEF At, E, P
<1>6. pde_index(a) = h /\ pte_index(a) = k /\ kalign_down(a) = At(h, k)
  BY <1>2, <1>4, <1>5, AtIndices DEF P
<1> QED
  BY <1>2, <1>5, <1>6 DEF P

(* The page at given indices has these indices, and no other page does.    *)
LEMMA PageAt ==
    ASSUME NEW j \in Index, NEW k \in Index
    PROVE  /\ pde_index(At(j, k)) = j
           /\ pte_index(At(j, k)) = k
           /\ kalign_down(At(j, k)) = At(j, k)
<1>1. At(j, k) + 0 = At(j, k) /\ 0 \in 0..(PAGE_SIZE - 1)
  BY VmmAssumption DEF At, Index
<1>2. /\ pde_index(At(j, k) + 0) = j
      /\ pte_index(At(j, k) + 0) = k
      /\ kalign_down(At(j, k) + 0) = At(j, k)
  BY <1>1, AtIndices
<1> QED
  BY <1>1, <1>2

(* Addresses of one page have the same indices.                            *)
LEMMA SamePage ==
    ASSUME NEW a \in Address
    PROVE  /\ pde_index(kalign_down(a)) = pde_index(a)
           /\ pte_index(kalign_down(a)) = pte_index(a)
           /\ Aligned(kalign_down(a))
           /\ Aligned(a) => kalign_down(a) = a
<1>0. PAGE_SIZE \in Nat \ {0}
  BY VmmAssumption
<1>2. /\ pde_index(kalign_down(a)) = pde_index(a)
      /\ pte_index(kalign_down(a)) = pte_index(a)
      /\ kalign_down(kalign_down(a)) = kalign_down(a)
  BY PageAt, AddressAt, Indices
<1>3. Aligned(kalign_down(a)) /\ (Aligned(a) => kalign_down(a) = a)
  <2>1. a \in Nat /\ kalign_down(a) \in Nat
    BY Indices DEF Address
  <2>2. kalign_down(kalign_down(a)) = kalign_down(a)
    BY <1>2
  <2> DEFINE b == kalign_down(a)
  <2>3. b = b - (b % PAGE_SIZE)
    BY <2>2 DEF kalign_down
  <2>4. b \in Nat
    BY <2>1
  <2> HIDE DEF b
  <2>5. b % PAGE_SIZE = 0
    BY <1>0, <2>3, <2>4
  <2>6. Aligned(kalign_down(a))
    BY <2>5 DEF Aligned, b
  <2>7. Aligned(a) => kalign_down(a) = a
    BY <2>1 DEF Aligned, kalign_down
  <2> QED
    BY <2>6, <2>7
<1> QED
  BY <1>2, <1>3

WindowIndex == KERNEL_VIRTUAL_BASE \div TableSpan

(* The kernel window shows frame f at its f-th page.                       *)
LEMMA WindowAddress ==
    ASSUME NEW f \in Index
    PROVE  /\ WindowIndex \in Index /\ IsWindow(WindowIndex)
           /\ physical_to_virtual(f) = At(WindowIndex, f)
           /\ physical_to_virtual(f) \in Address
           /\ pde_index(physical_to_virtual(f)) = WindowIndex
           /\ pte_index(physical_to_virtual(f)) = f
           /\ kalign_down(physical_to_virtual(f)) = At(WindowIndex, f)
<1> DEFINE E == ENTRIES
           P == PAGE_SIZE
           w == WindowIndex
           K == KERNEL_VIRTUAL_BASE
<1>1. E \in Nat \ {0} /\ P \in Nat \ {0} /\ f \in 0..(E - 1) /\ K \in Nat /\ w \in Index
      /\ w \in 0..(E - 1) /\ f \in Frame
  <2>1. KERNEL_VIRTUAL_BASE \in Address
    BY VmmAssumption
  <2>2. w \in Index
    BY <2>1, Indices DEF WindowIndex, pde_index
  <2>3. KERNEL_VIRTUAL_BASE \in Nat
    BY <2>1 DEF Address
  <2> QED
    BY <2>2, <2>3, VmmAssumption, Sizes DEF Index
<1>2. K = w * (E * P)
  <2>1. TableSpan \in Nat \ {0} /\ K \in Nat /\ K % TableSpan = 0
    BY <1>1, Sizes, VmmAssumption
  <2>2. K = TableSpan * w + (K % TableSpan) /\ w \in Int
    BY <2>1 DEF WindowIndex
  <2> HIDE DEF w, K
  <2>3. K = TableSpan * w
    BY <2>1, <2>2
  <2> QED
    BY <1>1, <2>3 DEF TableSpan, E, P
<1> HIDE DEF E, P, w, K
<1>3. f * P + K = (w * E + f) * P
  <2>1. w * (E * P) = (w * E) * P
    BY <1>1
  <2>2. (w * E + f) * P = (w * E) * P + f * P
    BY <1>1
  <2>3. w * (E * P) \in Int /\ f * P \in Int
    BY <1>1
  <2> QED
    BY <1>2, <2>1, <2>2, <2>3
<1>4. f * P + K \in 0..(E * (E * P) - 1)
  <2>1. w * (E * P) <= (E - 1) * (E * P)
    <3>1. E * P \in Nat
      BY <1>1
    <3> QED
      BY <1>1, <3>1
  <2>2. f * P <= (E - 1) * P
    BY <1>1
  <2>3. (E - 1) * (E * P) = E * (E * P) - E * P
    BY <1>1
  <2>4. (E - 1) * P = E * P - P
    BY <1>1
  <2>5. w * (E * P) \in Nat /\ f * P \in Nat /\ E * P \in Nat /\ E * (E * P) \in Nat
    BY <1>1
  <2> QED
    BY <1>1, <1>2, <2>1, <2>2, <2>3, <2>4, <2>5
<1>5. physical_to_virtual(f) = f * P + K
  <2> DEFINE x == f * P + K
             A == E * (E * P)
  <2>1. A = ADDRESS_SPACE
    BY DEF A, ADDRESS_SPACE, TableSpan, E, P
  <2>2. A \in Nat \ {0} /\ x \in 0..(A - 1)
    BY <1>4, <2>1, Sizes
  <2>3. physical_to_virtual(f) = x % A
    BY <2>1 DEF physical_to_virtual, x, P, K
  <2> HIDE DEF x, A
  <2> QED
    BY <2>2, <2>3 DEF x
<1>6. physical_to_virtual(f) = At(w, f)
  BY <1>3, <1>5 DEF At, E, P
<1>7. /\ pde_index(At(w, f)) = w
      /\ pte_index(At(w, f)) = f
      /\ kalign_down(At(w, f)) = At(w, f)
  BY <1>1, PageAt
<1>8. IsWindow(w)
  BY DEF IsWindow, w, WindowIndex
<1>9. physical_to_virtual(f) \in Address
  BY <1>1, Reached
<1> QED
  BY <1>1, <1>6, <1>7, <1>8, <1>9 DEF w

(***************************************************************************)
(* What the MMU sees.                                                      *)
(***************************************************************************)

(* A walk finds the translation at the indices of the address, before a    *)
(* step and after it.                                                      *)
LEMMA WalkSeen ==
    ASSUME NEW a \in Address
    PROVE  /\ Walk(a) = Seen(g_page_directories, memory)[pde_index(a)][pte_index(a)]
           /\ Walk(a)' = Seen(g_page_directories', memory')[pde_index(a)][pte_index(a)]
<1>1. pde_index(a) \in Index /\ pte_index(a) \in Index
      /\ kalign_down(a) = At(pde_index(a), pte_index(a))
  BY Indices, AddressAt
<1>2. \A d, m : Seen(d, m)[pde_index(a)][pte_index(a)] = Slot(d, m, pde_index(a), pte_index(a))
  BY <1>1 DEF Seen
<1>3. Walk(a) = Slot(g_page_directories, memory, pde_index(a), pte_index(a))
  BY <1>1, Zenon DEF Walk, Slot, Writable
<1>4. Walk(a)' = Slot(g_page_directories', memory', pde_index(a), pte_index(a))
  BY <1>1, Zenon DEF Walk, Slot, Writable
<1> QED
  BY <1>2, <1>3, <1>4

(* At most one translation at each place, of the page there.               *)
LEMMA SlotIsOne ==
    ASSUME NEW d, NEW m, NEW j \in Index, NEW k \in Index
    PROVE  /\ Seen(d, m)[j][k] = Slot(d, m, j, k)
           /\ \A t \in Seen(d, m)[j][k] : t.page = At(j, k)
           /\ \A t, u \in Seen(d, m)[j][k] : t = u
<1>1. Seen(d, m)[j][k] = Slot(d, m, j, k)
  BY DEF Seen
<1>2. \A t \in Slot(d, m, j, k) : t.page = At(j, k)
  BY DEF Slot
<1>3. \A t, u \in Slot(d, m, j, k) : t = u
  BY Zenon DEF Slot
<1> QED
  BY <1>1, <1>2, <1>3

(* The CPU uses what the MMU sees, from the TLB or not.                    *)
LEMMA UsesSeen ==
    ASSUME TypeOK, NEW seen, seen = Seen(g_page_directories, memory), TlbOK(seen, tlb),
           NEW a \in Address
    PROVE  /\ Walk(a) = seen[pde_index(a)][pte_index(a)]
           /\ Cached(a) \cup Walk(a) = Walk(a)
<1>1. Walk(a) = seen[pde_index(a)][pte_index(a)]
  BY WalkSeen
<1>2. ASSUME NEW t \in Cached(a) PROVE t \in Walk(a)
  <2>1. t \in tlb /\ t.page = kalign_down(a)
    BY <1>2 DEF Cached
  <2>2. PICK j \in Index, k \in Index : t \in seen[j][k]
    BY <2>1 DEF TlbOK
  <2>3. t.page = At(j, k)
    BY <2>2, SlotIsOne
  <2>4. j = pde_index(a) /\ k = pte_index(a)
    <3>1. pde_index(At(j, k)) = j /\ pte_index(At(j, k)) = k
      BY PageAt
    <3>2. pde_index(kalign_down(a)) = pde_index(a) /\ pte_index(kalign_down(a)) = pte_index(a)
      BY SamePage
    <3> QED
      BY <2>1, <2>3, <3>1, <3>2
  <2> QED
    BY <1>1, <2>2, <2>4
<1> QED
  BY <1>1, <1>2

(* A coherent TLB is one that holds what the MMU sees.                     *)
LEMMA CoherentTlb ==
    ASSUME TypeOK, NEW seen, seen = Seen(g_page_directories, memory), TlbOK(seen, tlb)
    PROVE  TlbCoherent
<1> SUFFICES ASSUME NEW t \in tlb PROVE t \in Walk(t.page)
  BY DEF TlbCoherent
<1>1. PICK j \in Index, k \in Index : t \in seen[j][k]
  BY DEF TlbOK
<1>2. t.page = At(j, k) /\ t.page \in Address
  BY <1>1, SlotIsOne DEF TypeOK
<1>3. j = pde_index(t.page) /\ k = pte_index(t.page)
  BY <1>2, PageAt
<1> QED
  BY <1>1, <1>2, <1>3, WalkSeen

(* The window shows every frame it has, for writing.                       *)
LEMMA WindowShows ==
    ASSUME NEW d, NEW m, WindowOK(d, m), NEW f \in Index
    PROVE  \E t : Seen(d, m)[WindowIndex][f] = {t} /\ t.frame = f /\ t.rw
<1>1. WindowIndex \in Index /\ IsWindow(WindowIndex)
  BY WindowAddress
<1>2. d[WindowIndex] = Present(IDENTITY, {"rw"}) /\ m[IDENTITY][f] = Present(f, {"rw"})
  BY <1>1 DEF WindowOK
<1> DEFINE pde == d[WindowIndex]
           pte == m[IDENTITY][f]
           w == Writable(pde, pte)
           t == [page |-> At(WindowIndex, f), frame |-> f, rw |-> w]
<1>3. pde.present /\ pde.address = IDENTITY /\ pte.present /\ pte.address = f
  BY <1>2 DEF Present
<1>4. w
  BY <1>2 DEF Writable, Present
<1>5. Seen(d, m)[WindowIndex][f] = {t}
  <2>1. Slot(d, m, WindowIndex, f) = {t}
    BY <1>3, Zenon DEF Slot
  <2>2. Seen(d, m)[WindowIndex][f] = Slot(d, m, WindowIndex, f)
    BY <1>1, SlotIsOne
  <2> QED
    BY <2>1, <2>2, Zenon
<1>6. t.frame = f /\ t.rw
  <2> HIDE DEF w
  <2> QED
    BY <1>4
<1> QED
  BY <1>5, <1>6

(* Two states of the tables look the same when their entries do.           *)
LEMMA SameSeen ==
    ASSUME NEW d, NEW m, NEW e, NEW n,
           \A j \in Index, k \in Index : Slot(e, n, j, k) = Slot(d, m, j, k)
    PROVE  Seen(e, n) = Seen(d, m)
  BY DEF Seen

(* Data written into a frame that is no table changes nothing.             *)
LEMMA DataKeeps ==
    ASSUME NEW d, NEW m \in [Frame -> [Index -> Entry]], d \in [Index -> Entry], WindowOK(d, m),
           NEW f, f # IDENTITY, \A j \in Index : ~IsTable(d, j, f), NEW content
    PROVE  /\ Seen(d, [m EXCEPT ![f] = content]) = Seen(d, m)
           /\ WindowOK(d, [m EXCEPT ![f] = content])
<1> DEFINE n == [m EXCEPT ![f] = content]
<1>1. \A g \in Frame : g # f => n[g] = m[g]
  OBVIOUS
<1> HIDE DEF n
<1>2. n[IDENTITY] = m[IDENTITY]
  BY <1>1, Sizes
<1>3. ASSUME NEW j \in Index, NEW k \in Index
      PROVE  Slot(d, n, j, k) = Slot(d, m, j, k)
  <2>1. d[j].address \in Frame
    BY DEF Entry
  <2>2. CASE ~d[j].present
    BY <2>2 DEF Slot
  <2>3. CASE d[j].present /\ IsWindow(j)
    <3>1. d[j].address = IDENTITY
      BY <2>3 DEF WindowOK, Present
    <3> QED
      BY <1>2, <3>1 DEF Slot
  <2>4. CASE d[j].present /\ ~IsWindow(j)
    <3>1. d[j].address # f
      BY <2>4 DEF IsTable
    <3>2. n[d[j].address] = m[d[j].address]
      BY <1>1, <2>1, <3>1
    <3> QED
      BY <3>2 DEF Slot
  <2> QED
    BY <2>2, <2>3, <2>4
<1>4. Seen(d, n) = Seen(d, m)
  BY <1>3, SameSeen
<1>5. WindowOK(d, n)
  BY <1>2 DEF WindowOK
<1> QED
  BY <1>4, <1>5 DEF n

(* A table that is cleared before it is entered maps nothing.              *)
LEMMA CreateMapsNothing ==
    ASSUME NEW d, NEW m \in [Frame -> [Index -> Entry]], d \in [Index -> Entry], WindowOK(d, m),
           NEW f \in RAM, \A j \in Index : ~IsTable(d, j, f),
           NEW p \in Index, ~d[p].present, NEW flags
    PROVE  /\ Seen([d EXCEPT ![p] = Present(f, flags)], [m EXCEPT ![f] = EmptyTable]) = Seen(d, m)
           /\ WindowOK([d EXCEPT ![p] = Present(f, flags)], [m EXCEPT ![f] = EmptyTable])
<1> DEFINE n == [m EXCEPT ![f] = EmptyTable]
           e == [d EXCEPT ![p] = Present(f, flags)]
<1>1. f # IDENTITY /\ f \in Frame
  BY VmmAssumption
<1>2. Seen(d, n) = Seen(d, m) /\ WindowOK(d, n)
  BY <1>1, DataKeeps
<1>3. ~IsWindow(p)
  BY DEF WindowOK, Present
<1>4. /\ \A j \in Index : j # p => e[j] = d[j]
      /\ e[p].present /\ e[p].address = f
  BY DEF Present
<1>5. \A k \in Index : ~n[f][k].present
  BY <1>1 DEF EmptyTable, NoEntry
<1> HIDE DEF e, n
<1>6. ASSUME NEW j \in Index, NEW k \in Index
      PROVE  Slot(e, n, j, k) = Slot(d, n, j, k)
  BY <1>4, <1>5 DEF Slot
<1>7. Seen(e, n) = Seen(d, n)
  BY <1>6, SameSeen
<1>8. WindowOK(e, n)
  BY <1>2, <1>3, <1>4 DEF WindowOK
<1> QED
  BY <1>2, <1>7, <1>8 DEF e, n

(* The tables after one entry, of the table at p, was written: the window  *)
(* is as it was, and the MMU sees the same everywhere but at p and i.      *)
OneChange(d, m, n, p, i, new) ==
    /\ WindowOK(d, n)
    /\ \A j, k \in Index : ~(j = p /\ k = i) => Seen(d, n)[j][k] = Seen(d, m)[j][k]
    /\ ~new.present => Seen(d, n)[p][i] = {}
    /\ new.present => \E t : Seen(d, n)[p][i] = {t} /\ t.frame = new.address
    /\ Seen(d, m)[p][i] = {} <=> ~m[d[p].address][i].present

(* An entry of one table is written, and no table shares its frame.        *)
LEMMA EntryChangesOne ==
    ASSUME NEW d, NEW m \in [Frame -> [Index -> Entry]], d \in [Index -> Entry], WindowOK(d, m),
           NEW p \in Index, ~IsWindow(p), d[p].present,
           \A j \in Index : IsTable(d, j, d[p].address) => j = p,
           NEW i \in Index, NEW new,
           NEW n, n = [m EXCEPT ![d[p].address][i] = new]
    PROVE  OneChange(d, m, n, p, i, new)
<1> DEFINE f == d[p].address
<1>1. f \in RAM /\ f # IDENTITY /\ f \in Frame
  BY VmmAssumption DEF WindowOK
<1> HIDE DEF f
<1>2. n = [m EXCEPT ![f][i] = new]
  BY DEF f
<1>3. \A g \in Frame : g # f => n[g] = m[g]
  BY <1>1, <1>2
<1>4. /\ \A k \in Index : k # i => n[f][k] = m[f][k]
      /\ n[f][i] = new
  BY <1>1, <1>2
<1>5. n[IDENTITY] = m[IDENTITY]
  BY <1>1, <1>3, Sizes
<1>6. WindowOK(d, n)
  BY <1>5 DEF WindowOK
<1>7. ASSUME NEW j \in Index, NEW k \in Index, ~(j = p /\ k = i)
      PROVE  Slot(d, n, j, k) = Slot(d, m, j, k)
  <2>1. d[j].address \in Frame
    BY DEF Entry
  <2>2. CASE ~d[j].present
    BY <2>2 DEF Slot
  <2>3. CASE d[j].present /\ IsWindow(j)
    <3>1. d[j].address = IDENTITY
      BY <2>3 DEF WindowOK, Present
    <3> QED
      BY <1>5, <3>1 DEF Slot
  <2>4. CASE d[j].present /\ ~IsWindow(j) /\ j # p
    <3>1. d[j].address # f
      BY <2>4 DEF IsTable, f
    <3> QED
      BY <1>3, <2>1, <3>1 DEF Slot
  <2>5. CASE j = p
    <3>1. k # i /\ d[j].address = f
      BY <1>7, <2>5 DEF f
    <3> QED
      BY <1>4, <3>1 DEF Slot
  <2> QED
    BY <2>2, <2>3, <2>4, <2>5
<1>8. \A j, k \in Index : ~(j = p /\ k = i) => Seen(d, n)[j][k] = Seen(d, m)[j][k]
  <2> SUFFICES ASSUME NEW j \in Index, NEW k \in Index, ~(j = p /\ k = i)
               PROVE  Seen(d, n)[j][k] = Seen(d, m)[j][k]
    BY Zenon
  <2>1. Seen(d, n)[j][k] = Slot(d, n, j, k) /\ Seen(d, m)[j][k] = Slot(d, m, j, k)
    BY SlotIsOne
  <2> QED
    BY <1>7, <2>1, Zenon
<1>9. ~new.present => Seen(d, n)[p][i] = {}
  <2>1. ~new.present => Slot(d, n, p, i) = {}
    BY <1>4 DEF Slot, f
  <2> QED
    BY <2>1, SlotIsOne
<1>10. new.present => \E t : Seen(d, n)[p][i] = {t} /\ t.frame = new.address
  <2> SUFFICES ASSUME new.present
               PROVE  \E t : Seen(d, n)[p][i] = {t} /\ t.frame = new.address
    OBVIOUS
  <2> DEFINE w == Writable(d[p], new)
             t == [page |-> At(p, i), frame |-> new.address, rw |-> w]
  <2>1. Slot(d, n, p, i) = {t}
    BY <1>4 DEF Slot, f
  <2>2. Seen(d, n)[p][i] = {t}
    BY <2>1, SlotIsOne
  <2>3. t.frame = new.address
    <3> HIDE DEF w
    <3> QED
      OBVIOUS
  <2> QED
    BY <2>2, <2>3
<1>11. Seen(d, m)[p][i] = {} <=> ~m[d[p].address][i].present
  <2>1. Seen(d, m)[p][i] = Slot(d, m, p, i)
    BY SlotIsOne
  <2>2. m[d[p].address][i].present => Slot(d, m, p, i) # {}
    BY DEF Slot
  <2>3. ~m[d[p].address][i].present => Slot(d, m, p, i) = {}
    BY DEF Slot
  <2> QED
    BY <2>1, <2>2, <2>3, Zenon
<1> QED
  BY <1>6, <1>8, <1>9, <1>10, <1>11, Zenon DEF OneChange

(***************************************************************************)
(* The parts of the invariant, under changes of what they are about.       *)
(***************************************************************************)

(* Fewer pages, and frames that stay settled.                              *)
LEMMA PagesKept ==
    ASSUME NEW seen, NEW d, NEW s, NEW unused, PagesOK(seen, d, s, unused),
           NEW seen2, NEW d2, NEW s2, NEW unused2,
           \A j, k \in Index, f \in Frame : Behind(seen2, j, k, f) => Behind(seen, j, k, f),
           \A f \in RAM : Settled(d, s, unused, f) => Settled(d2, s2, unused2, f)
    PROVE  PagesOK(seen2, d2, s2, unused2)
<1> SUFFICES ASSUME NEW j \in Index, NEW k \in Index, NEW f \in Frame, Behind(seen2, j, k, f)
             PROVE  /\ f # IDENTITY
                    /\ f \in RAM =>
                        /\ Settled(d2, s2, unused2, f)
                        /\ \A i, l \in Index : Behind(seen2, i, l, f) => i = j /\ l = k
  BY Zenon DEF PagesOK
<1>1. Behind(seen, j, k, f)
  BY Zenon
<1>2. f # IDENTITY /\ (f \in RAM => Settled(d, s, unused, f))
  BY <1>1, Zenon DEF PagesOK
<1>3. f \in RAM => \A i, l \in Index : Behind(seen2, i, l, f) => i = j /\ l = k
  BY <1>1, Zenon DEF PagesOK
<1> QED
  BY <1>2, <1>3, Zenon

(* One more page, with a frame that was pending or is the kernel's.        *)
LEMMA PagesEntered ==
    ASSUME NEW seen, NEW d, NEW s, NEW unused, PagesOK(seen, d, s, unused),
           NEW seen2, NEW s2, NEW p \in Index, NEW i \in Index, NEW new \in Frame,
           \A j, k \in Index, f \in Frame : Behind(seen2, j, k, f) =>
                Behind(seen, j, k, f) \/ (j = p /\ k = i /\ f = new),
           new # IDENTITY,
           new \in RAM => Pending(s, new) /\ Settled(d, s2, unused, new),
           \A f \in RAM : Settled(d, s, unused, f) => Settled(d, s2, unused, f)
    PROVE  PagesOK(seen2, d, s2, unused)
<1>1. new \in RAM => \A j, k \in Index : ~Behind(seen, j, k, new)
  BY Zenon DEF PagesOK, Settled
<1> SUFFICES ASSUME NEW j \in Index, NEW k \in Index, NEW f \in Frame, Behind(seen2, j, k, f)
             PROVE  /\ f # IDENTITY
                    /\ f \in RAM =>
                        /\ Settled(d, s2, unused, f)
                        /\ \A h, l \in Index : Behind(seen2, h, l, f) => h = j /\ l = k
  BY Zenon DEF PagesOK
<1>2. CASE f = new /\ f \in RAM
  <2>1. \A h, l \in Index : Behind(seen2, h, l, f) => h = p /\ l = i
    BY <1>1, <1>2, Zenon
  <2> QED
    BY <1>2, <2>1, Zenon
<1>3. CASE f # new
  <2>1. \A h, l \in Index : Behind(seen2, h, l, f) => Behind(seen, h, l, f)
    BY <1>3, Zenon
  <2>2. Behind(seen, j, k, f)
    BY <2>1, Zenon
  <2>3. f # IDENTITY /\ (f \in RAM => Settled(d, s, unused, f))
    BY <2>2, Zenon DEF PagesOK
  <2>4. ASSUME f \in RAM, NEW h \in Index, NEW l \in Index, Behind(seen2, h, l, f)
        PROVE  h = j /\ l = k
    <3>1. Behind(seen, h, l, f)
      BY <2>1, <2>4, Zenon
    <3> QED
      BY <2>2, <2>4, <3>1, Zenon DEF PagesOK
  <2> QED
    BY <2>3, <2>4, Zenon
<1>4. CASE f = new /\ f \notin RAM
  BY <1>4, Zenon
<1> QED
  BY <1>2, <1>3, <1>4

(* The TLB takes a translation that the MMU sees.                          *)
LEMMA TlbTakes ==
    ASSUME NEW seen, NEW entries, TlbOK(seen, entries),
           NEW j \in Index, NEW k \in Index, NEW t \in seen[j][k],
           NEW seen2, \A h, l \in Index : seen[h][l] \subseteq seen2[h][l],
           NEW entries2, entries2 \subseteq entries \cup {t}
    PROVE  TlbOK(seen2, entries2)
<1> SUFFICES ASSUME NEW u \in entries2 PROVE \E h, l \in Index : u \in seen2[h][l]
  BY Zenon DEF TlbOK
<1>1. CASE u = t
  BY <1>1
<1>2. CASE u \in entries
  <2>1. \E h, l \in Index : u \in seen[h][l]
    BY <1>2, Zenon DEF TlbOK
  <2> QED
    BY <2>1, Zenon
<1> QED
  BY <1>1, <1>2

(* The stack is empty,                                                     *)
LEMMA StackEmpty ==
    ASSUME NEW seen, NEW d
    PROVE  StackOK(seen, d, <<>>) /\ \A f : ~Pending(<<>>, f)
  BY DEF StackOK, Shallow, Pending

(* has one activation, which is not the handler's,                         *)
LEMMA StackOne ==
    ASSUME NEW seen, NEW d, NEW a \in Activation, a.call # "fault", CallOK(a),
           FoundOK(seen, d, a)
    PROVE  StackOK(seen, d, <<a>>)
<1> DEFINE s == <<a>>
<1>1. Len(s) = 1 /\ s[1] = a /\ Head(s) = a /\ s # <<>>
  OBVIOUS
<1> HIDE DEF s
<1> QED
  BY <1>1 DEF StackOK, Shallow, s

(* or its innermost activation goes on,                                    *)
LEMMA StackChange ==
    ASSUME NEW seen, NEW d, NEW s \in Seq(Activation), s # <<>>, StackOK(seen, d, s),
           NEW seen2, NEW d2, NEW a \in Activation, a.call = Head(s).call, CallOK(a),
           FoundOK(seen2, d2, a)
    PROVE  /\ StackOK(seen2, d2, <<a>> \o Tail(s))
           /\ <<a>> \o Tail(s) # <<>> /\ Head(<<a>> \o Tail(s)) = a
<1> DEFINE r == <<a>> \o Tail(s)
<1>1. Len(r) = Len(s) /\ r[1] = a /\ Head(r) = a /\ r # <<>> /\ (Len(s) = 2 => r[2] = s[2])
      /\ Len(s) \in Nat \ {0} /\ Head(s) = s[1]
  OBVIOUS
<1> HIDE DEF r
<1>2. Shallow(r)
  BY <1>1 DEF StackOK, Shallow
<1> QED
  BY <1>1, <1>2 DEF StackOK, r

(* an access faults,                                                       *)
LEMMA StackPush ==
    ASSUME NEW seen, NEW d, NEW s \in Seq(Activation), s # <<>>, StackOK(seen, d, s),
           OpenAccess(Head(s)), NEW a \in Activation, a.call = "fault", CallOK(a),
           FoundOK(seen, d, a)
    PROVE  StackOK(seen, d, <<a>> \o s) /\ Head(<<a>> \o s) = a
<1> DEFINE r == <<a>> \o s
<1>1. Len(r) = Len(s) + 1 /\ r[1] = a /\ Head(r) = a /\ r # <<>> /\ r[2] = s[1]
      /\ Len(s) \in Nat \ {0} /\ Head(s) = s[1]
  OBVIOUS
<1> HIDE DEF r
<1>2. Len(s) = 1
  <2>1. Len(s) <= 2 /\ (Len(s) = 2 => s[1].call = "fault")
    BY DEF StackOK, Shallow
  <2>2. s[1].call = "access"
    BY <1>1 DEF OpenAccess
  <2> DEFINE n == Len(s)
  <2>3. n # 2 /\ n <= 2 /\ n \in Nat \ {0}
    BY <1>1, <2>1, <2>2
  <2> HIDE DEF n
  <2>4. n = 1
    BY ONLY <2>3
  <2> QED
    BY <2>4 DEF n
<1>3. Shallow(r)
  BY <1>1, <1>2 DEF Shallow
<1> QED
  BY <1>1, <1>3 DEF StackOK, r

(* or the innermost activation returns.                                    *)
LEMMA StackPop ==
    ASSUME NEW seen, NEW d, NEW s \in Seq(Activation), s # <<>>, StackOK(seen, d, s),
           NEW seen2, NEW d2
    PROVE  /\ StackOK(seen2, d2, Tail(s))
           /\ \A f : ~Pending(Tail(s), f)
           /\ Head(s).call # "fault" => Tail(s) = <<>>
<1> DEFINE r == Tail(s)
<1>1. Len(s) \in Nat \ {0} /\ Head(s) = s[1] /\ Len(r) = Len(s) - 1
      /\ (Len(s) = 1 => r = <<>>) /\ (Len(s) = 2 => r # <<>> /\ Head(r) = s[2] /\ r[1] = s[2])
  <2>1. Len(s) \in Nat \ {0} /\ Head(s) = s[1] /\ Len(r) = Len(s) - 1 /\ r \in Seq(Activation)
    OBVIOUS
  <2>2. \A i \in 1..Len(r) : r[i] = s[i + 1]
    OBVIOUS
  <2> HIDE DEF r
  <2>3. Len(s) = 1 => r = <<>>
    BY <2>1
  <2>4. ASSUME Len(s) = 2 PROVE r # <<>> /\ r[1] = s[2] /\ Head(r) = r[1]
    <3>1. Len(r) = 1 /\ 1 \in 1..Len(r)
      BY <2>1, <2>4
    <3>2. r # <<>>
      BY <3>1
    <3>3. r[1] = s[1 + 1]
      BY <2>2, <3>1
    <3>4. Head(r) = r[1]
      BY <2>1, <3>2
    <3> QED
      BY <3>2, <3>3, <3>4
  <2> QED
    BY <2>1, <2>3, <2>4
<1> HIDE DEF r
<1>2. CASE Len(s) = 1
  BY <1>1, <1>2, StackEmpty DEF r
<1>3. CASE Len(s) = 2
  <2>1. s[1].call = "fault" /\ OpenAccess(Head(r)) /\ Head(r) = r[1]
    BY <1>1, <1>3 DEF StackOK, Shallow
  <2>2. Shallow(r)
    BY <1>1, <1>3, <2>1 DEF Shallow, OpenAccess
  <2>3. CallOK(Head(r)) /\ FoundOK(seen2, d2, Head(r))
    BY <2>1 DEF CallOK, FoundOK, OpenAccess
  <2>4. \A f : ~Pending(r, f)
    BY <2>1 DEF Pending, Holds, HoldsPage, HoldsTable, OpenAccess
  <2> QED
    BY <1>1, <2>1, <2>2, <2>3, <2>4 DEF StackOK, r
<1> QED
  BY <1>1, <1>2, <1>3 DEF StackOK, Shallow

(***************************************************************************)
(* The invariant, one operation at a time.                                 *)
(***************************************************************************)

TablesKept(seen) ==
    /\ WindowOK(g_page_directories', memory')
    /\ PagesOK(seen, g_page_directories', stack', free')
    /\ StackOK(seen, g_page_directories', stack')
    /\ ResultOK(seen, result')
    /\ TlbOK(seen, tlb')

(* The running call, and the place in the tables that it is about.         *)
LEMMA Innermost ==
    ASSUME VmmInv, NEW seen, TablesOK(seen), stack # <<>>
    PROVE  /\ top \in Activation /\ stack \in Seq(Activation) /\ top = stack[1]
           /\ 1 \in DOMAIN stack
           /\ CallOK(top) /\ FoundOK(seen, g_page_directories, top)
           /\ top.address \in Address
           /\ pde_index(top.address) \in Index /\ pte_index(top.address) \in Index
           /\ \A f : HoldsPage(top, f) => f \in RAM
           /\ \A f \in RAM : Holds(top, f) =>
                f \notin free /\ \A j \in Index : ~IsTable(g_page_directories, j, f)
<1>1. stack \in Seq(Activation) /\ Handed(stack) /\ Exclusive(stack, g_page_directories, free)
  BY DEF VmmInv, TypeOK
<1>2. top \in Activation /\ 1 \in DOMAIN stack /\ top = stack[1]
  BY <1>1, StackType, NoCallType, Positions DEF top
<1>3. top.address \in Address
  BY <1>2 DEF Activation
<1>4. CallOK(top) /\ FoundOK(seen, g_page_directories, top)
  BY DEF TablesOK, StackOK, top
<1>5. \A f : HoldsPage(top, f) => f \in RAM
  BY <1>1, <1>2 DEF Handed, HoldsPage
<1>6. \A f \in RAM : Holds(top, f) =>
        f \notin free /\ \A j \in Index : ~IsTable(g_page_directories, j, f)
  BY <1>1, <1>2, Zenon DEF Exclusive
<1> QED
  BY <1>1, <1>2, <1>3, <1>4, <1>5, <1>6, Indices

(* A store through the window reaches the frame it is meant for.           *)
LEMMA WindowStore ==
    ASSUME VmmInv, NEW seen, seen = Seen(g_page_directories, memory), TablesOK(seen),
           NEW f \in Index
    PROVE  /\ ~vmm_page_fault_handler(physical_to_virtual(f))
           /\ \A t \in Cached(physical_to_virtual(f)) \cup Walk(physical_to_virtual(f)) :
                /\ t.frame = f
                /\ WindowIndex \in Index /\ IsWindow(WindowIndex)
                /\ t \in seen[WindowIndex][f]
<1> DEFINE v == physical_to_virtual(f)
<1>1. v \in Address /\ pde_index(v) = WindowIndex /\ pte_index(v) = f
      /\ WindowIndex \in Index /\ IsWindow(WindowIndex)
  BY WindowAddress
<1>2. PICK t : seen[WindowIndex][f] = {t} /\ t.frame = f /\ t.rw
  BY WindowShows DEF TablesOK
<1>3. TypeOK /\ TlbOK(seen, tlb)
  BY DEF VmmInv, TablesOK
<1>4. Walk(v) = {t} /\ Cached(v) \cup Walk(v) = {t}
  <2>1. Walk(v) = seen[pde_index(v)][pte_index(v)] /\ Cached(v) \cup Walk(v) = Walk(v)
    BY <1>1, <1>3, UsesSeen
  <2> QED
    BY <1>1, <1>2, <2>1
<1>5. ~vmm_page_fault_handler(v)
  <2>1. ~Denied(v)
    BY <1>2, <1>4, Zenon DEF Denied
  <2> QED
    BY <1>4, <2>1, Zenon DEF vmm_page_fault_handler
<1> QED
  BY <1>1, <1>2, <1>4, <1>5

(* Tables that stay as they are, while calls begin, go on and end.         *)
LEMMA QuietStep ==
    ASSUME NEW seen, seen = Seen(g_page_directories, memory), TablesOK(seen),
           UNCHANGED <<g_page_directories, memory, tlb>>,
           StackOK(seen, g_page_directories, stack'),
           \A f \in RAM : Settled(g_page_directories, stack, free, f) =>
                f \notin free' /\ ~Pending(stack', f),
           ResultOK(seen, result')
    PROVE  /\ TablesKept(Seen(g_page_directories', memory'))
           /\ Seen(g_page_directories', memory') = seen
<1>1. Seen(g_page_directories', memory') = seen
  BY Zenon
<1>2. PagesOK(seen, g_page_directories, stack, free) /\ WindowOK(g_page_directories, memory)
      /\ TlbOK(seen, tlb)
  BY DEF TablesOK
<1>3. \A f \in RAM : Settled(g_page_directories, stack, free, f) =>
        Settled(g_page_directories, stack', free', f)
  BY Zenon DEF Settled
<1>4. PagesOK(seen, g_page_directories, stack', free')
  BY <1>2, <1>3, PagesKept
<1> QED
  BY <1>1, <1>2, <1>4 DEF TablesKept

(* A page is written: its frame is no table.                               *)
LEMMA WriteStep ==
    ASSUME VmmInv, NEW seen, seen = Seen(g_page_directories, memory), TablesOK(seen),
           NEW p \in Index, NEW i \in Index, NEW t \in seen[p][i], ~IsWindow(p),
           NEW content, memory' = [memory EXCEPT ![t.frame] = content],
           tlb' = tlb \cup {t},
           stack # <<>>, stack' = Tail(stack),
           UNCHANGED <<g_page_directories, free, result>>
    PROVE  /\ TablesKept(Seen(g_page_directories', memory'))
           /\ Seen(g_page_directories', memory') = seen
<1>1. /\ memory \in [Frame -> [Index -> Entry]] /\ g_page_directories \in [Index -> Entry]
      /\ stack \in Seq(Activation)
  BY DEF VmmInv, TypeOK
<1>2. /\ WindowOK(g_page_directories, memory)
      /\ PagesOK(seen, g_page_directories, stack, free)
      /\ StackOK(seen, g_page_directories, stack)
      /\ ResultOK(seen, result)
      /\ TlbOK(seen, tlb)
  BY DEF TablesOK
<1>3. t.frame \in Frame /\ Behind(seen, p, i, t.frame)
  <2>1. t \in Slot(g_page_directories, memory, p, i)
    BY SlotIsOne
  <2> DEFINE e == g_page_directories[p]
             l == memory[e.address][i]
             w == Writable(e, l)
  <2>2. e.address \in Frame
    BY <1>1 DEF Entry
  <2>3. l.address \in Frame
    BY <1>1, <2>2 DEF Entry
  <2>4. t = [page |-> At(p, i), frame |-> l.address, rw |-> w]
    BY <2>1, Zenon DEF Slot
  <2>5. t.frame = l.address
    <3> HIDE DEF w, l
    <3> QED
      BY <2>4
  <2>6. Behind(seen, p, i, t.frame)
    BY Zenon DEF Behind
  <2> QED
    BY <2>3, <2>5, <2>6
<1>4. t.frame # IDENTITY /\ \A j \in Index : ~IsTable(g_page_directories, j, t.frame)
  <2>1. t.frame # IDENTITY /\ (t.frame \in RAM =>
            Settled(g_page_directories, stack, free, t.frame))
    BY <1>2, <1>3, Zenon DEF PagesOK
  <2>2. \A j \in Index : IsTable(g_page_directories, j, t.frame) => t.frame \in RAM
    BY <1>2 DEF WindowOK, IsTable
  <2> QED
    BY <2>1, <2>2, Zenon DEF Settled
<1>5. Seen(g_page_directories, memory') = seen /\ WindowOK(g_page_directories, memory')
  <2> DEFINE d == g_page_directories
             n == [memory EXCEPT ![t.frame] = content]
  <2>1. Seen(d, n) = Seen(d, memory) /\ WindowOK(d, n)
    BY <1>1, <1>2, <1>4, DataKeeps, Zenon
  <2> QED
    BY <2>1, Zenon
<1>6. StackOK(seen, g_page_directories, stack') /\ \A f : ~Pending(stack', f)
  BY <1>1, <1>2, StackPop
<1>7. \A f \in RAM : Settled(g_page_directories, stack, free, f) =>
        Settled(g_page_directories, stack', free, f)
  BY <1>6, Zenon DEF Settled
<1>8. PagesOK(seen, g_page_directories, stack', free)
  BY <1>2, <1>7, PagesKept
<1>9. TlbOK(seen, tlb')
  BY <1>2, TlbTakes
<1>10. UNCHANGED <<g_page_directories, free, result>>
  OBVIOUS
<1> QED
  BY <1>2, <1>5, <1>6, <1>8, <1>9, <1>10 DEF TablesKept

(* An access is done, or faults, outside the handler;                      *)
LEMMA StoreTables ==
    ASSUME VmmInv, NEW seen, seen = Seen(g_page_directories, memory), TablesOK(seen), store
    PROVE  /\ TablesKept(Seen(g_page_directories', memory'))
           /\ Seen(g_page_directories', memory') = seen
           /\ UNCHANGED free
<1> DEFINE a == top.address
           call == Call("fault", kalign_down(a), 0, {"rw", "present"}, "alloc")
<1>1. stack # <<>> /\ top.call = "access" /\ top.at = "store"
  BY Zenon DEF store, Running
<1>2. /\ top \in Activation /\ stack \in Seq(Activation) /\ CallOK(top) /\ a \in Address
      /\ pde_index(a) \in Index /\ pte_index(a) \in Index
  BY <1>1, Innermost
<1>3. OpenAccess(top)
  BY <1>1, <1>2 DEF CallOK
<1>4. ResultOK(seen, result) /\ StackOK(seen, g_page_directories, stack) /\ TlbOK(seen, tlb)
      /\ TypeOK
  BY DEF TablesOK, VmmInv
<1>5. CASE vmm_page_fault_handler(a)
  <2>1. UNCHANGED <<g_page_directories, memory, tlb, free, result>>
        /\ (stack' = <<>> \/ stack' = <<call>> \o stack)
    BY <1>5, Zenon DEF vmm_page_fault_handler, stack_overruns, KPANIC
  <2>2. call \in Activation /\ call.call = "fault" /\ call.at = "alloc"
        /\ call.address = kalign_down(a) /\ call.flags = {"rw", "present"}
    BY <1>2, Indices, Sizes DEF Call, NoCall, Activation, VmmFlags, TableFlags, DirectoryFlags
  <2> HIDE DEF call
  <2>3. CallOK(call) /\ FoundOK(seen, g_page_directories, call)
    <3>1. Aligned(call.address) /\ ~IsWindow(pde_index(call.address))
      BY <1>2, <1>3, <2>2, SamePage DEF OpenAccess
    <3> QED
      BY <2>2, <3>1 DEF CallOK, FaultOK, FoundOK
  <2>4. StackOK(seen, g_page_directories, stack') /\ \A f : ~Pending(stack', f)
    <3>1. CASE stack' = <<>>
      BY <3>1, StackEmpty
    <3>2. CASE stack' = <<call>> \o stack
      <4>1. StackOK(seen, g_page_directories, stack') /\ Head(stack') = call
        BY <1>1, <1>2, <1>3, <1>4, <2>2, <2>3, <3>2, StackPush DEF top
      <4>2. \A f : ~Pending(stack', f)
        BY <2>2, <4>1 DEF Pending, Holds, HoldsPage, HoldsTable
      <4> QED
        BY <4>1, <4>2
    <3> QED
      BY <2>1, <3>1, <3>2
  <2>5. \A f \in RAM : Settled(g_page_directories, stack, free, f) =>
          f \notin free' /\ ~Pending(stack', f)
    BY <2>1, <2>4, Zenon DEF Settled
  <2>6. ResultOK(seen, result') /\ UNCHANGED <<g_page_directories, memory, tlb>>
    BY <1>4, <2>1
  <2> QED
    BY <2>1, <2>4, <2>5, <2>6, QuietStep
<1>6. ASSUME NEW t \in Cached(a) \cup Walk(a), memory' = [memory EXCEPT ![t.frame] = Garbage],
             tlb' = tlb \cup {t}, Return(TRUE), UNCHANGED g_page_directories
      PROVE  /\ TablesKept(Seen(g_page_directories', memory'))
             /\ Seen(g_page_directories', memory') = seen
             /\ UNCHANGED free
  <2>1. t \in seen[pde_index(a)][pte_index(a)]
    BY <1>2, <1>4, <1>6, UsesSeen
  <2>2. stack' = Tail(stack) /\ UNCHANGED <<free, result>>
    BY <1>1, <1>6 DEF Return
  <2>3. ~IsWindow(pde_index(a))
    BY <1>3 DEF OpenAccess
  <2> HIDE DEF a
  <2> QED
    BY <1>1, <1>2, <1>6, <2>1, <2>2, <2>3, WriteStep
<1> QED
  BY <1>5, <1>6, Zenon DEF store

(* the handler takes a frame, which is behind no page,                     *)
LEMMA AllocTables ==
    ASSUME VmmInv, NEW seen, seen = Seen(g_page_directories, memory), TablesOK(seen), alloc_page
    PROVE  TablesKept(Seen(g_page_directories', memory'))
<1>1. /\ stack # <<>> /\ top.call = "fault" /\ top.at = "alloc"
      /\ UNCHANGED <<g_page_directories, memory, tlb, result>>
  BY Zenon DEF alloc_page, Running
<1>2. top \in Activation /\ stack \in Seq(Activation) /\ CallOK(top)
  BY <1>1, Innermost
<1>3. ResultOK(seen, result) /\ StackOK(seen, g_page_directories, stack)
  BY DEF TablesOK
<1>4. CASE stack' = <<>> /\ free' \subseteq free
  <2>1. StackOK(seen, g_page_directories, stack') /\ \A f : ~Pending(stack', f)
    BY <1>4, StackEmpty
  <2>2. \A f \in RAM : Settled(g_page_directories, stack, free, f) =>
          f \notin free' /\ ~Pending(stack', f)
    BY <1>4, <2>1, Zenon DEF Settled
  <2> QED
    BY <1>1, <1>3, <2>1, <2>2, QuietStep
<1>5. ASSUME NEW f \in free, free' = free \ {f},
             Continue([top EXCEPT !.frame = f, !.at = "entry"])
      PROVE  TablesKept(Seen(g_page_directories', memory'))
  <2> DEFINE new == [top EXCEPT !.frame = f, !.at = "entry"]
  <2>1. new \in Activation /\ new.at = "entry" /\ new.frame = f /\ new.call = "fault"
        /\ new.address = top.address /\ new.flags = top.flags
    BY <1>1, <1>2, <1>5, VmmAssumption DEF Activation, VmmInv, TypeOK
  <2>2. stack' = <<new>> \o Tail(stack)
    BY <1>5 DEF Continue
  <2> HIDE DEF new
  <2>3. CallOK(new) /\ FoundOK(seen, g_page_directories, new)
    BY <1>1, <1>2, <2>1 DEF CallOK, FaultOK, FoundOK, OpenAccess
  <2>4. StackOK(seen, g_page_directories, stack') /\ stack' # <<>> /\ Head(stack') = new
    BY <1>1, <1>2, <1>3, <2>1, <2>2, <2>3, StackChange DEF top
  <2>5. \A g : Pending(stack', g) => g = f
    BY <2>1, <2>4 DEF Pending, Holds, HoldsPage, HoldsTable
  <2>6. \A g \in RAM : Settled(g_page_directories, stack, free, g) =>
          g \notin free' /\ ~Pending(stack', g)
    BY <1>5, <2>5, Zenon DEF Settled
  <2>7. ResultOK(seen, result')
    BY <1>1, <1>3
  <2> QED
    BY <1>1, <2>4, <2>6, <2>7, QuietStep
<1> QED
  BY <1>4, <1>5, Zenon DEF alloc_page, out_of_memory, KPANIC, pmm_alloc_pages

(* a table is found, or a frame for one is taken,                          *)
LEMMA EntryTables ==
    ASSUME VmmInv, NEW seen, seen = Seen(g_page_directories, memory), TablesOK(seen),
           get_or_create_pte
    PROVE  TablesKept(Seen(g_page_directories', memory'))
<1> DEFINE pde == g_page_directories[pde_index(top.address)]
           old == [top EXCEPT !.table = pde.address, !.at = "set"]
           new(f) == [top EXCEPT !.table = f, !.at = IF f = 0 THEN "failed" ELSE "create"]
<1>1. /\ stack # <<>> /\ top.call \in {"map", "fault"} /\ top.at = "entry"
      /\ UNCHANGED <<g_page_directories, memory, tlb, result>>
  BY Zenon DEF get_or_create_pte, Running
<1>2. /\ top \in Activation /\ stack \in Seq(Activation) /\ CallOK(top)
      /\ top.address \in Address /\ pde_index(top.address) \in Index
  BY <1>1, Innermost
<1>3. ResultOK(seen, result) /\ StackOK(seen, g_page_directories, stack)
      /\ ResultOK(seen, result')
  BY <1>1 DEF TablesOK
<1>4. CASE stack' = <<>> /\ UNCHANGED free
  <2>1. StackOK(seen, g_page_directories, stack') /\ \A f : ~Pending(stack', f)
    BY <1>4, StackEmpty
  <2>2. \A f \in RAM : Settled(g_page_directories, stack, free, f) =>
          f \notin free' /\ ~Pending(stack', f)
    BY <1>4, <2>1, Zenon DEF Settled
  <2> QED
    BY <1>1, <1>3, <2>1, <2>2, QuietStep
<1>5. CASE /\ pde.present /\ UNCHANGED free
           /\ Continue([top EXCEPT !.table = pde.address, !.at = "set"])
  <2>1. pde.address \in Frame
    BY <1>2 DEF VmmInv, TypeOK, Entry
  <2>2. /\ old \in Activation /\ old.at = "set" /\ old.table = pde.address
        /\ old.call = top.call /\ old.address = top.address /\ old.flags = top.flags
        /\ old.frame = top.frame
    <3> HIDE DEF pde
    <3> QED
      BY <1>2, <2>1 DEF Activation
  <2>3. stack' = <<old>> \o Tail(stack)
    BY <1>5 DEF Continue
  <2> HIDE DEF old
  <2>4. CallOK(old)
    BY <1>1, <1>2, <2>2 DEF CallOK, MapOK, FaultOK, UnmapOK, OpenAccess
  <2>5. FoundOK(seen, g_page_directories, old)
    BY <1>5, <2>2 DEF FoundOK
  <2>6. StackOK(seen, g_page_directories, stack') /\ stack' # <<>> /\ Head(stack') = old
    BY <1>1, <1>2, <1>3, <2>2, <2>3, <2>4, <2>5, StackChange DEF top
  <2>7. \A g : Pending(stack', g) => Pending(stack, g)
    BY <1>1, <2>2, <2>6 DEF Pending, Holds, HoldsPage, HoldsTable, top
  <2>8. \A g \in RAM : Settled(g_page_directories, stack, free, g) =>
          g \notin free' /\ ~Pending(stack', g)
    BY <1>5, <2>7, Zenon DEF Settled
  <2> QED
    BY <1>1, <1>3, <2>6, <2>8, QuietStep
<1>6. ASSUME ~pde.present, NEW f \in free, free' = free \ {f},
             Continue([top EXCEPT !.table = f, !.at = IF f = 0 THEN "failed" ELSE "create"])
      PROVE  TablesKept(Seen(g_page_directories', memory'))
  <2>0. f \in RAM /\ f \in Frame
    BY <1>6, VmmAssumption DEF VmmInv, TypeOK
  <2>1. /\ new(f) \in Activation /\ new(f).at \in {"failed", "create"} /\ new(f).table = f
        /\ new(f).call = top.call /\ new(f).address = top.address
        /\ new(f).flags = top.flags /\ new(f).frame = top.frame
    BY <1>2, <2>0 DEF Activation
  <2>2. stack' = <<new(f)>> \o Tail(stack)
    BY <1>6 DEF Continue
  <2> HIDE DEF new
  <2>3. CallOK(new(f))
    BY <1>1, <1>2, <2>1 DEF CallOK, MapOK, FaultOK, UnmapOK, OpenAccess
  <2>4. FoundOK(seen, g_page_directories, new(f))
    BY <1>6, <2>0, <2>1 DEF FoundOK
  <2>5. StackOK(seen, g_page_directories, stack') /\ stack' # <<>> /\ Head(stack') = new(f)
    BY <1>1, <1>2, <1>3, <2>1, <2>2, <2>3, <2>4, StackChange DEF top
  <2>6. \A g : Pending(stack', g) => Pending(stack, g) \/ g = f
    BY <1>1, <2>1, <2>5 DEF Pending, Holds, HoldsPage, HoldsTable, top
  <2>7. \A g \in RAM : Settled(g_page_directories, stack, free, g) =>
          g \notin free' /\ ~Pending(stack', g)
    BY <1>6, <2>6, Zenon DEF Settled
  <2> QED
    BY <1>1, <1>3, <2>5, <2>7, QuietStep
<1> QED
  BY <1>4, <1>5, <1>6, Zenon
     DEF get_or_create_pte, out_of_memory, KPANIC, pmm_alloc_pages, has_table

(* a mapping fails: the handler's frame is behind no page,                 *)
LEMMA FailTables ==
    ASSUME VmmInv, NEW seen, seen = Seen(g_page_directories, memory), TablesOK(seen), map_failed
    PROVE  TablesKept(Seen(g_page_directories', memory'))
<1>1. /\ stack # <<>> /\ top.call \in {"map", "fault"} /\ top.at = "failed" /\ Return(FALSE)
      /\ UNCHANGED <<g_page_directories, memory, tlb>>
  BY Zenon DEF map_failed, Running
<1>2. top \in Activation /\ stack \in Seq(Activation)
  BY <1>1, Innermost
<1>3. ResultOK(seen, result) /\ StackOK(seen, g_page_directories, stack)
  BY DEF TablesOK
<1>4. CASE top.call = "fault"
  <2>1. stack' = <<>> /\ free' = free \cup {top.frame} /\ UNCHANGED result
    BY <1>1, <1>4, Zenon DEF Return, KPANIC
  <2>2. Pending(stack, top.frame)
    BY <1>1, <1>4 DEF Pending, Holds, HoldsPage, top
  <2>3. StackOK(seen, g_page_directories, stack') /\ \A f : ~Pending(stack', f)
    BY <2>1, StackEmpty
  <2>4. \A f \in RAM : Settled(g_page_directories, stack, free, f) =>
          f \notin free' /\ ~Pending(stack', f)
    <3>1. \A f : Settled(g_page_directories, stack, free, f) => f \notin free /\ f # top.frame
      BY <2>2, Zenon DEF Settled
    <3> QED
      BY <2>1, <2>3, <3>1, Zenon
  <2> QED
    BY <1>1, <1>3, <2>1, <2>3, <2>4, QuietStep
<1>5. CASE top.call = "map"
  <2>1. /\ stack' = Tail(stack) /\ UNCHANGED free
        /\ result' = [top EXCEPT !.at = "returned", !.ok = FALSE]
    BY <1>1, <1>5 DEF Return
  <2>2. ~result'.ok
    BY <1>2, <2>1 DEF Activation
  <2>3. ResultOK(seen, result')
    BY <2>2 DEF ResultOK
  <2>4. StackOK(seen, g_page_directories, stack') /\ \A f : ~Pending(stack', f)
    BY <1>1, <1>2, <1>3, <2>1, StackPop
  <2>5. \A f \in RAM : Settled(g_page_directories, stack, free, f) =>
          f \notin free' /\ ~Pending(stack', f)
    BY <2>1, <2>4, Zenon DEF Settled
  <2> QED
    BY <1>1, <2>3, <2>4, <2>5, QuietStep
<1> QED
  BY <1>1, <1>4, <1>5

(* a frame that is behind no page becomes a table, which maps nothing,     *)
LEMMA CreateTables ==
    ASSUME VmmInv, InWindow, NEW seen, seen = Seen(g_page_directories, memory), TablesOK(seen),
           create_table
    PROVE  /\ TablesKept(Seen(g_page_directories', memory'))
           /\ Seen(g_page_directories', memory') = seen
           /\ UNCHANGED free
<1> DEFINE p == pde_index(top.address)
           f == top.table
           flags == top.flags \cap DirectoryFlags
           v == physical_to_virtual(f)
<1>1. stack # <<>> /\ top.call \in {"map", "fault"} /\ top.at = "create"
  BY Zenon DEF create_table, Running
<1>2. /\ top \in Activation /\ stack \in Seq(Activation) /\ CallOK(top) /\ p \in Index
      /\ FoundOK(seen, g_page_directories, top)
      /\ \A g \in RAM : Holds(top, g) =>
            g \notin free /\ \A j \in Index : ~IsTable(g_page_directories, j, g)
  BY <1>1, Innermost
<1>3. /\ WindowOK(g_page_directories, memory)
      /\ PagesOK(seen, g_page_directories, stack, free)
      /\ StackOK(seen, g_page_directories, stack)
      /\ ResultOK(seen, result)
      /\ TlbOK(seen, tlb)
      /\ memory \in [Frame -> [Index -> Entry]] /\ g_page_directories \in [Index -> Entry]
  BY DEF TablesOK, VmmInv, TypeOK
<1>4. f \in RAM /\ f \in Index /\ ~g_page_directories[p].present
  BY <1>1, <1>2 DEF FoundOK, InWindow
<1>5. Holds(top, f) /\ Pending(stack, f) /\ \A j \in Index : ~IsTable(g_page_directories, j, f)
  BY <1>1, <1>2, <1>4 DEF Holds, HoldsTable, Pending, top
<1> HIDE DEF p, f, flags
<1>6. ~vmm_page_fault_handler(v)
  BY <1>4, WindowStore
<1>7. PICK t \in Cached(v) \cup Walk(v) :
        memory' = [memory EXCEPT ![t.frame] = EmptyTable] /\ tlb' = tlb \cup {t}
  BY <1>6, Zenon DEF create_table, kmemset_table, f
<1>8. /\ g_page_directories' = [g_page_directories EXCEPT ![p] = Present(f, flags)]
      /\ Continue([top EXCEPT !.at = "set"])
      /\ UNCHANGED <<free, result>>
  BY <1>6, Zenon DEF create_table, p, f, flags
<1>9. t.frame = f /\ WindowIndex \in Index /\ t \in seen[WindowIndex][f]
  BY <1>4, <1>7, WindowStore
<1>10. memory' = [memory EXCEPT ![f] = EmptyTable]
  BY <1>7, <1>9
<1>11. Seen(g_page_directories', memory') = seen /\ WindowOK(g_page_directories', memory')
  <2> DEFINE d == g_page_directories
  <2>1. /\ Seen([d EXCEPT ![p] = Present(f, flags)], [memory EXCEPT ![f] = EmptyTable])
            = Seen(d, memory)
        /\ WindowOK([d EXCEPT ![p] = Present(f, flags)], [memory EXCEPT ![f] = EmptyTable])
    BY <1>2, <1>3, <1>4, <1>5, CreateMapsNothing, Zenon
  <2> QED
    BY <1>8, <1>10, <2>1, Zenon
<1> DEFINE new == [top EXCEPT !.at = "set"]
<1>12. /\ new \in Activation /\ new.at = "set" /\ new.table = f /\ new.frame = top.frame
       /\ new.call = top.call /\ new.address = top.address /\ new.flags = top.flags
  BY <1>2 DEF Activation, f
<1>13. stack' = <<new>> \o Tail(stack)
  BY <1>8 DEF Continue
<1> HIDE DEF new
<1>14. g_page_directories'[p].present /\ g_page_directories'[p].address = f
       /\ \A j \in Index : j # p => g_page_directories'[j] = g_page_directories[j]
  BY <1>2, <1>3, <1>8 DEF Present
<1>15. CallOK(new)
  BY <1>1, <1>2, <1>12 DEF CallOK, MapOK, FaultOK, UnmapOK, OpenAccess
<1>16. FoundOK(seen, g_page_directories', new)
  BY <1>12, <1>14 DEF FoundOK, p
<1>17. StackOK(seen, g_page_directories', stack') /\ stack' # <<>> /\ Head(stack') = new
  BY <1>1, <1>2, <1>3, <1>12, <1>13, <1>15, <1>16, StackChange DEF top
<1>18. \A g : Pending(stack', g) => Pending(stack, g)
  BY <1>1, <1>12, <1>17 DEF Pending, Holds, HoldsPage, HoldsTable, top
<1>19. \A g \in RAM : Settled(g_page_directories, stack, free, g) =>
         Settled(g_page_directories', stack', free, g)
  <2> SUFFICES ASSUME NEW g \in RAM, Settled(g_page_directories, stack, free, g)
               PROVE  Settled(g_page_directories', stack', free, g)
    OBVIOUS
  <2>1. g # f /\ ~Pending(stack', g) /\ g \notin free
    BY <1>5, <1>18, Zenon DEF Settled
  <2>2. \A j \in Index : ~IsTable(g_page_directories', j, g)
    BY <1>14, <2>1 DEF IsTable, Settled
  <2> QED
    BY <2>1, <2>2, Zenon DEF Settled
<1>20. PagesOK(seen, g_page_directories', stack', free)
  BY <1>3, <1>19, PagesKept
<1>21. TlbOK(seen, tlb')
  BY <1>3, <1>4, <1>7, <1>9, TlbTakes
<1> QED
  BY <1>3, <1>8, <1>11, <1>17, <1>20, <1>21 DEF TablesKept

(* a page that is mapped for the first time is zeroed,                     *)
LEMMA ZeroTables ==
    ASSUME VmmInv, NEW seen, seen = Seen(g_page_directories, memory), TablesOK(seen), zero_page
    PROVE  /\ TablesKept(Seen(g_page_directories', memory'))
           /\ Seen(g_page_directories', memory') = seen
           /\ UNCHANGED free
<1> DEFINE a == top.address
<1>1. stack # <<>> /\ top.call = "fault" /\ top.at = "zero"
  BY Zenon DEF zero_page, Running
<1>2. /\ top \in Activation /\ stack \in Seq(Activation) /\ CallOK(top) /\ a \in Address
      /\ pde_index(a) \in Index /\ pte_index(a) \in Index
      /\ FoundOK(seen, g_page_directories, top)
  BY <1>1, Innermost
<1>3. ~IsWindow(pde_index(a)) /\ seen[pde_index(a)][pte_index(a)] # {}
  BY <1>1, <1>2 DEF FoundOK, Behind
<1>4. ResultOK(seen, result) /\ TlbOK(seen, tlb) /\ TypeOK
  BY DEF TablesOK, VmmInv
<1>5. /\ Walk(a) = seen[pde_index(a)][pte_index(a)]
      /\ Cached(a) \cup Walk(a) = Walk(a)
  BY <1>2, <1>4, UsesSeen
<1>6. CASE vmm_page_fault_handler(a)
  <2>1. UNCHANGED <<g_page_directories, memory, tlb, free, result>> /\ stack' = <<>>
    BY <1>3, <1>5, <1>6, Zenon DEF vmm_page_fault_handler, stack_overruns, KPANIC
  <2>2. StackOK(seen, g_page_directories, stack') /\ \A f : ~Pending(stack', f)
    BY <2>1, StackEmpty
  <2>3. \A f \in RAM : Settled(g_page_directories, stack, free, f) =>
          f \notin free' /\ ~Pending(stack', f)
    BY <2>1, <2>2, Zenon DEF Settled
  <2>4. ResultOK(seen, result')
    BY <1>4, <2>1
  <2> QED
    BY <2>1, <2>2, <2>3, <2>4, QuietStep
<1>7. ASSUME NEW t \in Cached(a) \cup Walk(a), memory' = [memory EXCEPT ![t.frame] = EmptyTable],
             tlb' = tlb \cup {t}, Return(TRUE), UNCHANGED g_page_directories
      PROVE  /\ TablesKept(Seen(g_page_directories', memory'))
             /\ Seen(g_page_directories', memory') = seen
             /\ UNCHANGED free
  <2>1. t \in seen[pde_index(a)][pte_index(a)]
    BY <1>5, <1>7
  <2>2. stack' = Tail(stack) /\ UNCHANGED <<free, result>>
    BY <1>1, <1>7 DEF Return
  <2> HIDE DEF a
  <2> QED
    BY <1>1, <1>2, <1>3, <1>7, <2>1, <2>2, WriteStep
<1> QED
  BY <1>6, <1>7, Zenon DEF zero_page

(* The table that a call found is in the window, and is one.               *)
LEMMA FoundTable ==
    ASSUME VmmInv, InWindow, NEW seen, seen = Seen(g_page_directories, memory), TablesOK(seen),
           stack # <<>>, top.at \in {"set", "clear"}
    PROVE  /\ top.table \in Index
           /\ top.table = g_page_directories[pde_index(top.address)].address
           /\ g_page_directories[pde_index(top.address)].present
           /\ IsWindow(pde_index(top.address)) => top.table = IDENTITY
           /\ ~IsWindow(pde_index(top.address)) => \A j \in Index :
                IsTable(g_page_directories, j, top.table) => j = pde_index(top.address)
<1> DEFINE p == pde_index(top.address)
<1>1. FoundOK(seen, g_page_directories, top) /\ p \in Index
  BY Innermost
<1>2. top.table = g_page_directories[p].address /\ g_page_directories[p].present
  BY <1>1 DEF FoundOK
<1>3. WindowOK(g_page_directories, memory) /\ Exclusive(stack, g_page_directories, free)
  BY DEF TablesOK, VmmInv
<1>4. CASE IsWindow(p)
  BY <1>1, <1>2, <1>3, <1>4, VmmAssumption DEF WindowOK, Present
<1>5. CASE ~IsWindow(p)
  <2>1. top.table \in RAM /\ IsTable(g_page_directories, p, top.table)
    BY <1>1, <1>2, <1>3, <1>5 DEF WindowOK, IsTable
  <2>2. \A j \in Index : IsTable(g_page_directories, j, top.table) => j = p
    BY <1>1, <1>3, <2>1, Zenon DEF Exclusive
  <2> QED
    BY <1>2, <1>5, <2>1, <2>2 DEF InWindow
<1> QED
  BY <1>4, <1>5

(* What a step does to the tables as the MMU sees them: nothing, or one    *)
(* page more, whose frame backs no other, or one page less.                *)
ElsewhereSame(seen, seen2, p, i) ==
    \A j, k \in Index : ~(j = p /\ k = i) => seen2[j][k] = seen[j][k]

Entered(seen, seen2) ==
    \E p, i \in Index : \E t :
        /\ ~IsWindow(p)
        /\ seen[p][i] = {} /\ seen2[p][i] = {t}
        /\ ElsewhereSame(seen, seen2, p, i)
        /\ t.frame \in RAM => t.frame \notin free
        /\ t.frame \in RAM => \A j, k \in Index : ~Behind(seen, j, k, t.frame)

Removed(seen, seen2) ==
    \E p, i \in Index :
        /\ ~IsWindow(p)
        /\ seen[p][i] # {} /\ seen2[p][i] = {}
        /\ ElsewhereSame(seen, seen2, p, i)

(* Tables that look the same everywhere look the same.                     *)
LEMMA NowhereDifferent ==
    ASSUME NEW d, NEW m, NEW n, \A j, k \in Index : Seen(d, n)[j][k] = Seen(d, m)[j][k]
    PROVE  Seen(d, n) = Seen(d, m)
<1>1. ASSUME NEW j \in Index, NEW k \in Index PROVE Slot(d, n, j, k) = Slot(d, m, j, k)
  <2>1. Seen(d, n)[j][k] = Slot(d, n, j, k) /\ Seen(d, m)[j][k] = Slot(d, m, j, k)
    BY SlotIsOne
  <2>2. Seen(d, n)[j][k] = Seen(d, m)[j][k]
    BY Zenon
  <2> QED
    BY <2>1, <2>2
<1> QED
  BY <1>1, SameSeen

(* An entry is found taken: the mapping fails.                             *)
LEMMA TakenTables ==
    ASSUME VmmInv, NEW seen, seen = Seen(g_page_directories, memory), TablesOK(seen),
           stack # <<>>, top.call \in {"map", "fault"}, top.at = "set",
           NEW j \in Index, NEW k \in Index, NEW t \in seen[j][k], tlb' = tlb \cup {t},
           Continue([top EXCEPT !.at = "failed"]),
           UNCHANGED <<g_page_directories, memory, free, result>>
    PROVE  TablesKept(Seen(g_page_directories', memory'))
<1> DEFINE new == [top EXCEPT !.at = "failed"]
<1>1. top \in Activation /\ stack \in Seq(Activation) /\ CallOK(top)
  BY Innermost
<1>2. /\ new \in Activation /\ new.at = "failed" /\ new.frame = top.frame
      /\ new.call = top.call /\ new.address = top.address /\ new.flags = top.flags
  BY <1>1 DEF Activation
<1>3. stack' = <<new>> \o Tail(stack)
  BY DEF Continue
<1> HIDE DEF new
<1>4. CallOK(new) /\ FoundOK(seen, g_page_directories, new)
  BY <1>1, <1>2 DEF CallOK, MapOK, FaultOK, UnmapOK, OpenAccess, FoundOK
<1>5. /\ WindowOK(g_page_directories, memory)
      /\ PagesOK(seen, g_page_directories, stack, free)
      /\ StackOK(seen, g_page_directories, stack)
      /\ ResultOK(seen, result)
      /\ TlbOK(seen, tlb)
  BY DEF TablesOK
<1>6. StackOK(seen, g_page_directories, stack') /\ stack' # <<>> /\ Head(stack') = new
  BY <1>1, <1>2, <1>3, <1>4, <1>5, StackChange DEF top
<1>7. \A g : Pending(stack', g) => Pending(stack, g)
  BY <1>2, <1>6 DEF Pending, Holds, HoldsPage, HoldsTable, top
<1>8. \A g \in RAM : Settled(g_page_directories, stack, free, g) =>
        Settled(g_page_directories, stack', free, g)
  BY <1>7, Zenon DEF Settled
<1>9. PagesOK(seen, g_page_directories, stack', free)
  BY <1>5, <1>8, PagesKept
<1>10. TlbOK(seen, tlb')
  BY <1>5, TlbTakes
<1>11. /\ Seen(g_page_directories', memory') = seen
       /\ UNCHANGED <<g_page_directories, memory, free, result>>
  BY Zenon
<1> QED
  BY <1>5, <1>6, <1>9, <1>10, <1>11 DEF TablesKept

(* An entry is set: the frame is behind the page at its indices.           *)
LEMMA EnterTables ==
    ASSUME VmmInv, InWindow, NEW seen, seen = Seen(g_page_directories, memory), TablesOK(seen),
           stack # <<>>, top.call \in {"map", "fault"}, top.at = "set",
           NEW p, p = pde_index(top.address), NEW i, i = pte_index(top.address),
           NEW t \in seen[WindowIndex][top.table],
           ~memory[top.table][i].present,
           NEW entry, entry.present <=> "present" \in top.flags, entry.address = top.frame,
           memory' = [memory EXCEPT ![top.table][i] = entry],
           tlb' \subseteq tlb \cup {t},
           IF top.call = "fault" THEN Continue([top EXCEPT !.at = "zero"]) /\ UNCHANGED result
           ELSE /\ stack' = Tail(stack)
                /\ result' = [top EXCEPT !.at = "returned", !.ok = TRUE],
           UNCHANGED <<g_page_directories, free>>
    PROVE  /\ TablesKept(Seen(g_page_directories', memory'))
           /\ \/ Seen(g_page_directories', memory') = seen
              \/ Entered(seen, Seen(g_page_directories', memory'))
<1> DEFINE d == g_page_directories
           seen2 == Seen(d, memory')
<1>1. /\ top \in Activation /\ stack \in Seq(Activation) /\ CallOK(top)
      /\ p \in Index /\ i \in Index
      /\ \A f : HoldsPage(top, f) => f \in RAM
      /\ \A f \in RAM : Holds(top, f) =>
            f \notin free /\ \A j \in Index : ~IsTable(d, j, f)
  BY Innermost
<1>2. /\ WindowOK(d, memory) /\ PagesOK(seen, d, stack, free) /\ StackOK(seen, d, stack)
      /\ ResultOK(seen, result) /\ TlbOK(seen, tlb)
      /\ memory \in [Frame -> [Index -> Entry]] /\ d \in [Index -> Entry]
  BY DEF TablesOK, VmmInv, TypeOK
<1>3. /\ top.table \in Index /\ top.table = d[p].address /\ d[p].present
      /\ IsWindow(p) => top.table = IDENTITY
      /\ ~IsWindow(p) => \A j \in Index : IsTable(d, j, top.table) => j = p
  BY FoundTable
<1>4. ~IsWindow(p)
  <2>1. memory[IDENTITY][i] = Present(i, {"rw"})
    BY <1>1, <1>2, Zenon DEF WindowOK
  <2>2. memory[IDENTITY][i].present
    BY ONLY <2>1 DEF Present
  <2> QED
    BY <1>3, <2>2, Zenon
<1>5. (entry.present <=> "present" \in top.flags) /\ entry.address = top.frame
  OBVIOUS
<1>6. memory' = [memory EXCEPT ![d[p].address][i] = entry]
  BY <1>3
<1>7. /\ WindowOK(d, memory')
      /\ \A j, k \in Index : ~(j = p /\ k = i) => seen2[j][k] = seen[j][k]
      /\ ~entry.present => seen2[p][i] = {}
      /\ entry.present => \E u : seen2[p][i] = {u} /\ u.frame = entry.address
      /\ seen[p][i] = {} <=> ~memory[d[p].address][i].present
  <2>1. \A j \in Index : IsTable(d, j, d[p].address) => j = p
    BY <1>3, <1>4, Zenon
  <2>2. OneChange(d, memory, memory', p, i, entry)
    BY ONLY <1>1, <1>2, <1>3, <1>4, <1>6, <2>1, EntryChangesOne
  <2> QED
    BY <2>2, Zenon DEF OneChange
<1> HIDE DEF seen2
<1>8. seen[p][i] = {}
  BY <1>3, <1>7
<1>9. \A j, k \in Index : seen[j][k] \subseteq seen2[j][k]
  BY <1>7, <1>8
<1>10. \A j, k \in Index : \A f : Behind(seen, j, k, f) => Behind(seen2, j, k, f)
  BY <1>9 DEF Behind
<1>11. \A j, k \in Index, f \in Frame : Behind(seen2, j, k, f) =>
         Behind(seen, j, k, f) \/ (j = p /\ k = i /\ f = top.frame)
  BY <1>5, <1>7 DEF Behind
<1>12. entry.present => Behind(seen2, p, i, top.frame)
  BY <1>4, <1>5, <1>7 DEF Behind
<1>13. top.frame \in Frame /\ top.frame # IDENTITY
       /\ (top.call = "map" => top.frame \notin RAM)
       /\ (top.call = "fault" => top.frame \in RAM /\ HoldsPage(top, top.frame))
       /\ (top.call = "fault" => "present" \in top.flags)
  <2>1. top.frame \in Frame
    BY <1>1 DEF Activation
  <2>2. CASE top.call = "map"
    BY <1>1, <2>1, <2>2 DEF CallOK, MapOK, OpenAccess
  <2>3. CASE top.call = "fault"
    <3>1. HoldsPage(top, top.frame)
      BY <2>3 DEF HoldsPage
    <3>2. top.frame \in RAM /\ top.frame # IDENTITY
      BY <1>1, <3>1, VmmAssumption
    <3>3. "present" \in top.flags
      BY <1>1, <2>3 DEF CallOK, FaultOK, OpenAccess
    <3> QED
      BY <2>1, <2>3, <3>1, <3>2, <3>3
  <2> QED
    BY <2>2, <2>3
<1>14. TlbOK(seen2, tlb')
  <2>1. WindowIndex \in Index
    BY <1>3, WindowAddress
  <2> QED
    BY <1>2, <1>3, <1>9, <2>1, TlbTakes
<1>15. /\ StackOK(seen2, d, stack')
       /\ ResultOK(seen2, result')
       /\ \A f : ~Pending(stack', f)
  <2>1. CASE top.call = "fault"
    <3> DEFINE new == [top EXCEPT !.at = "zero"]
    <3>1. /\ new \in Activation /\ new.at = "zero" /\ new.frame = top.frame
          /\ new.call = top.call /\ new.address = top.address /\ new.flags = top.flags
      BY <1>1 DEF Activation
    <3>2. stack' = <<new>> \o Tail(stack) /\ UNCHANGED result
      BY <2>1 DEF Continue
    <3> HIDE DEF new
    <3>3. CallOK(new)
      BY <1>1, <2>1, <3>1 DEF CallOK, FaultOK, OpenAccess
    <3>4. FoundOK(seen2, d, new)
      BY <1>5, <1>12, <1>13, <2>1, <3>1 DEF FoundOK
    <3>5. StackOK(seen2, d, stack') /\ stack' # <<>> /\ Head(stack') = new
      BY <1>1, <1>2, <3>1, <3>2, <3>3, <3>4, StackChange DEF top
    <3>6. \A f : ~Pending(stack', f)
      BY <3>1, <3>5 DEF Pending
    <3>7. ResultOK(seen2, result')
      <4>1. result \in Activation
        BY DEF VmmInv, TypeOK
      <4>2. pde_index(result.address) \in Index /\ pte_index(result.address) \in Index
        BY <4>1, Indices DEF Activation
      <4>3. result' = result
        BY <3>2
      <4> QED
        BY <1>2, <1>10, <4>2, <4>3, Zenon DEF ResultOK
    <3> QED
      BY <3>5, <3>6, <3>7
  <2>2. CASE top.call = "map"
    <3>1. stack' = Tail(stack) /\ result' = [top EXCEPT !.at = "returned", !.ok = TRUE]
      BY <2>2
    <3>2. StackOK(seen2, d, stack') /\ \A f : ~Pending(stack', f)
      BY <1>1, <1>2, <3>1, StackPop
    <3>3. result'.address = top.address /\ result'.frame = top.frame /\ result'.flags = top.flags
      BY <1>1, <3>1 DEF Activation
    <3>4. ResultOK(seen2, result')
      BY <1>5, <1>12, <3>3 DEF ResultOK
    <3> QED
      BY <3>2, <3>4
  <2> QED
    BY <2>1, <2>2
<1>16. PagesOK(seen2, d, stack', free)
  <2>1. \A f \in RAM : Settled(d, stack, free, f) => Settled(d, stack', free, f)
    BY <1>15, Zenon DEF Settled
  <2>2. top.frame \in RAM => Pending(stack, top.frame) /\ Settled(d, stack', free, top.frame)
    <3> SUFFICES ASSUME top.frame \in RAM
                 PROVE  Pending(stack, top.frame) /\ Settled(d, stack', free, top.frame)
      OBVIOUS
    <3>1. Holds(top, top.frame) /\ Pending(stack, top.frame)
      BY <1>13 DEF Holds, Pending, top
    <3> QED
      BY <1>1, <1>15, <3>1, Zenon DEF Settled
  <2>3. p \in Index /\ i \in Index /\ top.frame \in Frame /\ top.frame # IDENTITY
        /\ PagesOK(seen, d, stack, free)
    BY <1>1, <1>2, <1>13
  <2> QED
    BY ONLY <1>11, <2>1, <2>2, <2>3, PagesEntered
<1>17. seen2 = seen \/ Entered(seen, seen2)
  <2>1. CASE ~entry.present
    <3>1. \A j, k \in Index : seen2[j][k] = seen[j][k]
      BY <1>7, <1>8, <2>1
    <3>2. \A j, k \in Index : Seen(d, memory')[j][k] = Seen(d, memory)[j][k]
      BY <3>1, Zenon DEF seen2
    <3>3. Seen(d, memory') = Seen(d, memory)
      BY ONLY <3>2, NowhereDifferent
    <3> QED
      BY <3>3, Zenon DEF seen2
  <2>2. CASE entry.present
    <3>1. PICK u : seen2[p][i] = {u} /\ u.frame = top.frame
      BY <1>5, <1>7, <2>2
    <3>2. ElsewhereSame(seen, seen2, p, i)
      BY <1>7, Zenon DEF ElsewhereSame
    <3>3. u.frame \in RAM => Pending(stack, u.frame) /\ u.frame \notin free
      BY <1>1, <1>13, <3>1 DEF Pending, Holds, top
    <3>4. u.frame \in RAM => \A j, k \in Index : ~Behind(seen, j, k, u.frame)
      BY <1>2, <1>13, <3>1, <3>3, Zenon DEF PagesOK, Settled
    <3> QED
      BY <1>1, <1>4, <1>8, <3>1, <3>2, <3>3, <3>4, Zenon DEF Entered
  <2> QED
    BY <2>1, <2>2
<1>18. Seen(g_page_directories', memory') = seen2 /\ UNCHANGED <<g_page_directories, free>>
  BY DEF seen2
<1> QED
  BY <1>7, <1>14, <1>15, <1>16, <1>17, <1>18 DEF TablesKept

(* an entry of a table is set, if it is unused,                            *)
LEMMA SetTables ==
    ASSUME VmmInv, InWindow, NEW seen, seen = Seen(g_page_directories, memory), TablesOK(seen),
           set_entry
    PROVE  /\ TablesKept(Seen(g_page_directories', memory'))
           /\ \/ Seen(g_page_directories', memory') = seen
              \/ Entered(seen, Seen(g_page_directories', memory'))
           /\ UNCHANGED free
<1> DEFINE i == pte_index(top.address)
           v == physical_to_virtual(top.table)
           entry == [present |-> "present" \in top.flags, address |-> top.frame,
                     flags |-> top.flags \cap TableFlags]
<1>1. stack # <<>> /\ top.call \in {"map", "fault"} /\ top.at = "set"
  BY Zenon DEF set_entry, Running
<1>2. top.table \in Index
  BY <1>1, FoundTable
<1>3. ~vmm_page_fault_handler(v)
  BY <1>2, WindowStore
<1>4. (entry.present <=> "present" \in top.flags) /\ entry.address = top.frame
  OBVIOUS
<1> HIDE DEF entry, i
<1>5. PICK t \in Cached(v) \cup Walk(v) :
        IF memory[t.frame][i].present
        THEN /\ tlb' = tlb \cup {t}
             /\ Continue([top EXCEPT !.at = "failed"])
             /\ UNCHANGED <<memory, panic, free, result>>
        ELSE /\ memory' = [memory EXCEPT ![t.frame][i] = entry]
             /\ tlb' = flush_tlb_entry(tlb \cup {t}, top.address)
             /\ IF top.call = "fault"
                THEN /\ Continue([top EXCEPT !.at = "zero"])
                     /\ UNCHANGED <<panic, free, result>>
                ELSE Return(TRUE)
  BY <1>3, Zenon DEF set_entry, entry_taken, entry, i
<1>6. UNCHANGED g_page_directories
  BY <1>3, Zenon DEF set_entry
<1>7. t.frame = top.table /\ WindowIndex \in Index /\ t \in seen[WindowIndex][top.table]
  BY <1>2, <1>5, WindowStore
<1> HIDE DEF v
<1>8. CASE memory[t.frame][i].present
  <2>1. /\ tlb' = tlb \cup {t}
        /\ Continue([top EXCEPT !.at = "failed"])
        /\ UNCHANGED <<g_page_directories, memory, free, result>>
    BY <1>5, <1>6, <1>8, Zenon
  <2>2. TablesKept(Seen(g_page_directories', memory'))
    BY <1>1, <1>2, <1>7, <2>1, TakenTables
  <2> QED
    BY <2>1, <2>2
<1>9. CASE ~memory[t.frame][i].present
  <2>1. /\ memory' = [memory EXCEPT ![top.table][i] = entry]
        /\ tlb' = flush_tlb_entry(tlb \cup {t}, top.address)
        /\ ~memory[top.table][i].present
    BY <1>5, <1>7, <1>9, Zenon
  <2>2. tlb' \subseteq tlb \cup {t}
    BY <2>1 DEF flush_tlb_entry
  <2>3. IF top.call = "fault"
        THEN Continue([top EXCEPT !.at = "zero"]) /\ UNCHANGED <<panic, free, result>>
        ELSE Return(TRUE)
    BY <1>5, <1>9, Zenon
  <2>4. /\ IF top.call = "fault"
           THEN Continue([top EXCEPT !.at = "zero"]) /\ UNCHANGED result
           ELSE stack' = Tail(stack) /\ result' = [top EXCEPT !.at = "returned", !.ok = TRUE]
        /\ UNCHANGED free
    <3>1. CASE top.call = "fault"
      BY <2>3, <3>1, Zenon
    <3>2. CASE top.call = "map"
      BY <2>3, <3>2 DEF Return
    <3> QED
      BY <1>1, <3>1, <3>2
  <2>5. /\ TablesKept(Seen(g_page_directories', memory'))
        /\ \/ Seen(g_page_directories', memory') = seen
           \/ Entered(seen, Seen(g_page_directories', memory'))
    <3>1. UNCHANGED <<g_page_directories, free>> /\ t \in seen[WindowIndex][top.table]
          /\ i = pte_index(top.address)
      BY <1>6, <1>7, <2>4 DEF i
    <3> QED
      BY <1>1, <1>4, <2>1, <2>2, <2>4, <3>1, EnterTables
  <2> QED
    BY <2>4, <2>5
<1> QED
  BY <1>8, <1>9

(* an entry is cleared, and the TLB forgets the page.                      *)
LEMMA ClearTables ==
    ASSUME VmmInv, InWindow, NEW seen, seen = Seen(g_page_directories, memory), TablesOK(seen),
           clear_entry
    PROVE  /\ TablesKept(Seen(g_page_directories', memory'))
           /\ \/ Seen(g_page_directories', memory') = seen
              \/ Removed(seen, Seen(g_page_directories', memory'))
           /\ UNCHANGED free
<1> DEFINE d == g_page_directories
           p == pde_index(top.address)
           i == pte_index(top.address)
           v == physical_to_virtual(top.table)
           seen2 == Seen(d, memory')
<1>1. stack # <<>> /\ top.call = "unmap" /\ top.at = "clear"
  BY Zenon DEF clear_entry, Running
<1>2. /\ top \in Activation /\ stack \in Seq(Activation) /\ CallOK(top)
      /\ top.address \in Address /\ p \in Index /\ i \in Index
  BY <1>1, Innermost
<1>3. ~IsWindow(p) /\ Aligned(top.address)
  BY <1>1, <1>2 DEF CallOK, UnmapOK, OpenAccess
<1>4. /\ top.table \in Index /\ top.table = d[p].address /\ d[p].present
      /\ \A j \in Index : IsTable(d, j, top.table) => j = p
  BY <1>1, <1>3, FoundTable
<1>5. ~vmm_page_fault_handler(v)
  BY <1>4, WindowStore
<1>6. /\ WindowOK(d, memory) /\ PagesOK(seen, d, stack, free) /\ StackOK(seen, d, stack)
      /\ ResultOK(seen, result) /\ TlbOK(seen, tlb)
      /\ memory \in [Frame -> [Index -> Entry]] /\ d \in [Index -> Entry]
  BY DEF TablesOK, VmmInv, TypeOK
<1>7. PICK t \in Cached(v) \cup Walk(v) :
        IF memory[t.frame][i].present
        THEN /\ memory' = [memory EXCEPT ![t.frame][i] = NoEntry]
             /\ tlb' = flush_tlb_entry(tlb \cup {t}, top.address)
             /\ Return(TRUE)
        ELSE /\ tlb' = tlb \cup {t}
             /\ Return(FALSE)
             /\ UNCHANGED memory
  BY <1>5, Zenon DEF clear_entry, flush_unmapped
<1>8. UNCHANGED g_page_directories
  BY <1>5, Zenon DEF clear_entry
<1>9. t.frame = top.table /\ WindowIndex \in Index /\ t \in seen[WindowIndex][top.table]
      /\ IsWindow(WindowIndex)
  BY <1>4, <1>7, WindowStore
<1>10. stack' = Tail(stack) /\ UNCHANGED free /\ result'.call = "unmap"
  <2>1. Return(TRUE) \/ Return(FALSE)
    BY <1>7, Zenon
  <2>2. stack' = Tail(stack) /\ UNCHANGED free
        /\ \E ok \in BOOLEAN : result' = [top EXCEPT !.at = "returned", !.ok = ok]
    BY <1>1, <2>1 DEF Return
  <2> QED
    BY <1>1, <1>2, <2>2 DEF Activation
<1> HIDE DEF v, p, i
<1>11. \A s : StackOK(s, d, stack') /\ ResultOK(s, result') /\ \A f : ~Pending(stack', f)
  <2>1. \A s : StackOK(s, d, stack') /\ \A f : ~Pending(stack', f)
    BY <1>1, <1>2, <1>6, <1>10, StackPop
  <2>2. \A s : ResultOK(s, result')
    BY <1>10 DEF ResultOK
  <2> QED
    BY <2>1, <2>2
<1>12. \A f \in RAM : Settled(d, stack, free, f) => Settled(d, stack', free, f)
  BY <1>11, Zenon DEF Settled
<1>13. CASE ~memory[t.frame][i].present
  <2>1. UNCHANGED memory /\ tlb' = tlb \cup {t}
    BY <1>7, <1>13, Zenon
  <2>2. Seen(g_page_directories', memory') = seen
    BY <1>8, <2>1
  <2>3. PagesOK(seen, d, stack', free)
    BY <1>6, <1>12, PagesKept
  <2>4. TlbOK(seen, tlb')
    BY <1>4, <1>6, <1>9, <2>1, TlbTakes
  <2> QED
    BY <1>6, <1>8, <1>10, <1>11, <2>1, <2>2, <2>3, <2>4 DEF TablesKept
<1>14. CASE memory[t.frame][i].present
  <2>1. memory' = [memory EXCEPT ![d[p].address][i] = NoEntry]
        /\ tlb' = flush_tlb_entry(tlb \cup {t}, top.address)
    BY <1>4, <1>7, <1>9, <1>14, Zenon
  <2>2. OneChange(d, memory, memory', p, i, NoEntry)
    <3>1. \A j \in Index : IsTable(d, j, d[p].address) => j = p
      BY <1>4, Zenon
    <3> QED
      BY <1>2, <1>3, <1>4, <1>6, <2>1, <3>1, EntryChangesOne
  <2>3. ~NoEntry.present
    BY DEF NoEntry
  <2>4. /\ WindowOK(d, memory')
        /\ \A j, k \in Index : ~(j = p /\ k = i) => seen2[j][k] = seen[j][k]
        /\ seen2[p][i] = {}
        /\ seen[p][i] # {}
    BY <1>4, <1>9, <1>14, <2>2, <2>3, Zenon DEF OneChange
  <2> HIDE DEF seen2
  <2>5. \A j, k \in Index, f \in Frame : Behind(seen2, j, k, f) => Behind(seen, j, k, f)
    BY <2>4 DEF Behind
  <2>6. PagesOK(seen2, d, stack', free)
    BY <1>6, <1>12, <2>5, PagesKept
  <2>7. TlbOK(seen2, tlb')
    <3> SUFFICES ASSUME NEW u \in tlb' PROVE \E j, k \in Index : u \in seen2[j][k]
      BY Zenon DEF TlbOK
    <3>1. u \in tlb \cup {t} /\ u.page # kalign_down(top.address)
      BY <2>1 DEF flush_tlb_entry
    <3>2. TlbOK(seen, tlb \cup {t})
      BY <1>4, <1>6, <1>9, TlbTakes
    <3>3. PICK j \in Index, k \in Index : u \in seen[j][k]
      BY <3>1, <3>2, Zenon DEF TlbOK
    <3>4. u.page = At(j, k)
      BY <3>3, SlotIsOne
    <3>5. kalign_down(top.address) = At(p, i)
      BY <1>2, AddressAt DEF p, i
    <3>6. ~(j = p /\ k = i)
      BY <3>1, <3>4, <3>5
    <3> QED
      BY <2>4, <3>3, <3>6
  <2>8. Removed(seen, seen2)
    <3>1. ElsewhereSame(seen, seen2, p, i)
      BY <2>4, Zenon DEF ElsewhereSame
    <3> QED
      BY <1>2, <1>3, <2>4, <3>1, Zenon DEF Removed
  <2>9. Seen(g_page_directories', memory') = seen2
    BY <1>8 DEF seen2
  <2> QED
    BY <1>8, <1>10, <1>11, <2>4, <2>6, <2>7, <2>8, <2>9 DEF TablesKept
<1> QED
  BY <1>13, <1>14

(* The kernel's calls and accesses begin: outside the window, and with no  *)
(* frame of the allocator.                                                 *)
LEMMA CallTables ==
    ASSUME VmmInv, InWindow, NEW seen, seen = Seen(g_page_directories, memory), TablesOK(seen),
           Access \/ vmm_map_page \/ vmm_unmap_page
    PROVE  /\ TablesKept(Seen(g_page_directories', memory'))
           /\ Seen(g_page_directories', memory') = seen
           /\ UNCHANGED <<stage, free>>
<1>1. stack = <<>> /\ UNCHANGED <<stage, g_page_directories, memory, tlb, free>>
  BY Zenon DEF Access, vmm_map_page, vmm_unmap_page
<1>2. ResultOK(seen, result)
  BY DEF TablesOK
<1>3. Seen(g_page_directories', memory') = seen
  BY <1>1
<1> SUFFICES TablesKept(Seen(g_page_directories', memory'))
  BY <1>1, <1>3
<1>4. ASSUME StackOK(seen, g_page_directories, stack'), ResultOK(seen, result'),
             \A f : ~Pending(stack', f)
      PROVE  TablesKept(Seen(g_page_directories', memory'))
  <2>1. \A f \in RAM : Settled(g_page_directories, stack, free, f) =>
          f \notin free' /\ ~Pending(stack', f)
    BY <1>1, <1>4, Zenon DEF Settled
  <2> QED
    BY <1>1, <1>4, <2>1, QuietStep
<1>5. ASSUME NEW call \in Activation, stack' = <<call>>, UNCHANGED result,
             call.call \in {"access", "map", "unmap"}, call.at # "create",
             CallOK(call), FoundOK(seen, g_page_directories, call)
      PROVE  TablesKept(Seen(g_page_directories', memory'))
  <2>1. StackOK(seen, g_page_directories, stack')
    BY <1>5, StackOne
  <2>2. Head(stack') = call
    BY <1>5
  <2>3. \A f : ~Pending(stack', f)
    BY <1>5, <2>2 DEF Pending, Holds, HoldsPage, HoldsTable
  <2> QED
    BY <1>2, <1>4, <1>5, <2>1, <2>3
<1>6. ASSUME UNCHANGED stack, ~result'.ok
      PROVE  TablesKept(Seen(g_page_directories', memory'))
  <2>1. StackOK(seen, g_page_directories, stack') /\ \A f : ~Pending(stack', f)
    BY <1>1, <1>6, StackEmpty
  <2>2. ResultOK(seen, result')
    BY <1>6 DEF ResultOK
  <2> QED
    BY <1>4, <2>1, <2>2
<1>7. CASE Access
  <2>1. PICK a \in Accessed : stack' = <<Call("access", a, 0, {}, "store")>>
    BY <1>7, Zenon DEF Access
  <2> DEFINE call == Call("access", a, 0, {}, "store")
  <2>2. call \in Activation /\ call.call = "access" /\ call.at = "store" /\ call.address = a
    BY VmmAssumption, Sizes DEF Call, NoCall, Activation
  <2> HIDE DEF call
  <2>3. CallOK(call) /\ FoundOK(seen, g_page_directories, call)
    BY <2>2 DEF CallOK, OpenAccess, FoundOK, InWindow
  <2>4. stack' = <<call>> /\ UNCHANGED result
    BY <1>7, <2>1, Zenon DEF Access, call
  <2> QED
    BY <1>5, <2>2, <2>3, <2>4
<1>8. CASE vmm_map_page
  <2>1. PICK m \in Mappings :
          LET call == Call("map", m.address, m.physical \div PAGE_SIZE, m.flags, "entry")
          IN  IF Aligned(m.address) /\ Aligned(m.physical)
              THEN stack' = <<call>> /\ UNCHANGED result
              ELSE result' = [call EXCEPT !.at = "returned"] /\ UNCHANGED stack
    BY <1>8, Zenon DEF vmm_map_page
  <2> DEFINE f == m.physical \div PAGE_SIZE
             call == Call("map", m.address, f, m.flags, "entry")
  <2>2. f \in Frame /\ f \notin RAM \cup {IDENTITY} /\ m.address \in Address
        /\ m.flags \subseteq VmmFlags
    BY MappingFrame, VmmAssumption DEF InWindow
  <2> HIDE DEF f
  <2>3. /\ call \in Activation /\ call.call = "map" /\ call.at = "entry" /\ ~call.ok
        /\ call.address = m.address /\ call.frame = f
    BY <2>2, Sizes DEF Call, NoCall, Activation
  <2>4. IF Aligned(m.address) /\ Aligned(m.physical)
        THEN stack' = <<call>> /\ UNCHANGED result
        ELSE result' = [call EXCEPT !.at = "returned"] /\ UNCHANGED stack
    BY <2>1, Zenon DEF call, f
  <2> HIDE DEF call
  <2>5. CASE Aligned(m.address) /\ Aligned(m.physical)
    <3>1. CallOK(call) /\ FoundOK(seen, g_page_directories, call)
      BY <2>2, <2>3, <2>5 DEF CallOK, MapOK, FoundOK
    <3> QED
      BY <1>5, <2>3, <2>4, <2>5, <3>1
  <2>6. CASE ~(Aligned(m.address) /\ Aligned(m.physical))
    <3>1. ~result'.ok
      BY <2>3, <2>4, <2>6 DEF Activation
    <3> QED
      BY <1>6, <2>4, <2>6, <3>1
  <2> QED
    BY <2>5, <2>6
<1>9. CASE vmm_unmap_page
  <2>1. PICK a \in Unmapped :
          LET call == Call("unmap", a, 0, {}, "entry")
              pde == g_page_directories[pde_index(a)]
          IN  IF Aligned(a) /\ pde.present
              THEN /\ stack' = <<[call EXCEPT !.at = "clear", !.table = pde.address]>>
                   /\ UNCHANGED result
              ELSE result' = [call EXCEPT !.at = "returned"] /\ UNCHANGED stack
    BY <1>9, Zenon DEF vmm_unmap_page
  <2> DEFINE call == Call("unmap", a, 0, {}, "entry")
             pde == g_page_directories[pde_index(a)]
             new == [call EXCEPT !.at = "clear", !.table = pde.address]
  <2>2. a \in Address /\ ~IsWindow(pde_index(a)) /\ pde.address \in Frame
    BY VmmAssumption, Indices DEF InWindow, VmmInv, TypeOK, Entry
  <2>3. IF Aligned(a) /\ pde.present
        THEN stack' = <<new>> /\ UNCHANGED result
        ELSE result' = [call EXCEPT !.at = "returned"] /\ UNCHANGED stack
    BY <2>1, Zenon
  <2>4. call \in Activation /\ call.call = "unmap" /\ ~call.ok /\ call.address = a
    BY <2>2, Sizes DEF Call, NoCall, Activation
  <2> HIDE DEF call
  <2>5. /\ new \in Activation /\ new.call = "unmap" /\ new.at = "clear" /\ new.address = a
        /\ new.table = pde.address
    <3> HIDE DEF pde
    <3> QED
      BY <2>2, <2>4 DEF Activation
  <2> HIDE DEF new
  <2>6. CASE Aligned(a) /\ pde.present
    <3>1. CallOK(new) /\ FoundOK(seen, g_page_directories, new)
      BY <2>2, <2>5, <2>6 DEF CallOK, UnmapOK, FoundOK
    <3> QED
      BY <1>5, <2>3, <2>5, <2>6, <3>1
  <2>7. CASE ~(Aligned(a) /\ pde.present)
    <3>1. ~result'.ok
      BY <2>3, <2>4, <2>7 DEF Activation
    <3> QED
      BY <1>6, <2>3, <2>7, <3>1
  <2> QED
    BY <2>6, <2>7
<1> QED
  BY <1>7, <1>8, <1>9

(* Until pmm_init there is no page outside the window.                     *)
LEMMA NoPagesYet ==
    ASSUME NEW d, NEW m, WindowOK(d, m), \A j \in Index, f \in RAM : ~IsTable(d, j, f)
    PROVE  \A j, k \in Index : ~IsWindow(j) => Seen(d, m)[j][k] = {}
<1> SUFFICES ASSUME NEW j \in Index, NEW k \in Index, ~IsWindow(j)
             PROVE  Seen(d, m)[j][k] = {}
  OBVIOUS
<1>1. ~d[j].present
  BY DEF WindowOK, IsTable
<1> QED
  BY <1>1, SlotIsOne DEF Slot

(* The boot: vmm_preinit makes the window,                                 *)
LEMMA PreinitTables ==
    ASSUME VmmInv, tlb = {}, stack = <<>>, result = NoCall, vmm_preinit
    PROVE  /\ TablesKept(Seen(g_page_directories', memory'))
           /\ \A j, k \in Index : ~IsWindow(j) =>
                Seen(g_page_directories', memory')[j][k] = {}
<1> DEFINE d == g_page_directories'
           m == memory'
           seen == Seen(d, m)
<1>1. memory \in [Frame -> [Index -> Entry]] /\ IDENTITY \in Frame
  BY Sizes DEF VmmInv, TypeOK
<1>2. /\ m = [memory EXCEPT ![IDENTITY] = [i \in Index |-> Present(i, {"rw"})]]
      /\ d = [i \in Index |-> IF IsWindow(i) THEN Present(IDENTITY, {"rw"}) ELSE NoEntry]
      /\ UNCHANGED <<tlb, free, stack, result>>
  BY Zenon DEF vmm_preinit, window_entry
<1>3. \A i \in Index : m[IDENTITY][i] = Present(i, {"rw"})
  BY <1>1, <1>2
<1>4. \A j \in Index : IF IsWindow(j) THEN d[j] = Present(IDENTITY, {"rw"}) ELSE d[j] = NoEntry
  BY <1>2
<1> HIDE DEF d, m
<1>5. \A j \in Index : ~IsWindow(j) => ~d[j].present
  BY <1>4 DEF NoEntry
<1>6. WindowOK(d, m)
  BY <1>3, <1>4, <1>5, Zenon DEF WindowOK
<1>7. \A j \in Index, f \in RAM : ~IsTable(d, j, f)
  BY <1>5, Zenon DEF IsTable
<1>8. \A j, k \in Index : ~IsWindow(j) => seen[j][k] = {}
  BY <1>6, <1>7, NoPagesYet
<1> HIDE DEF seen
<1>9. PagesOK(seen, d, stack', free')
  BY <1>8, Zenon DEF PagesOK, Behind
<1>10. stack' = <<>> /\ tlb' = {} /\ result' = NoCall
  BY <1>2
<1>11. StackOK(seen, d, stack') /\ TlbOK(seen, tlb')
  BY <1>10, StackEmpty DEF TlbOK
<1>12. ResultOK(seen, result')
  BY <1>10 DEF ResultOK, NoCall
<1> QED
  BY <1>6, <1>8, <1>9, <1>11, <1>12 DEF TablesKept, d, m, seen

(* and pmm_init finds no frame of RAM behind a page.                       *)
LEMMA BootTables ==
    ASSUME VmmInv, NEW seen, seen = Seen(g_page_directories, memory), TablesOK(seen),
           vmm_init \/ pmm_init
    PROVE  /\ TablesKept(Seen(g_page_directories', memory'))
           /\ Seen(g_page_directories', memory') = seen
<1>1. UNCHANGED <<g_page_directories, memory, tlb, stack, result>>
  BY Zenon DEF vmm_init, pmm_init
<1>2. /\ WindowOK(g_page_directories, memory) /\ PagesOK(seen, g_page_directories, stack, free)
      /\ StackOK(seen, g_page_directories, stack) /\ ResultOK(seen, result) /\ TlbOK(seen, tlb)
  BY DEF TablesOK
<1>3. PagesOK(seen, g_page_directories, stack, free')
  <2>1. stage # "running"
    BY DEF vmm_init, pmm_init
  <2>2. \A j, k \in Index : ~IsWindow(j) => seen[j][k] = {}
    BY <1>2, <2>1, NoPagesYet DEF VmmInv, NothingYet
  <2> QED
    BY <2>2, Zenon DEF PagesOK, Behind
<1> QED
  BY <1>1, <1>2, <1>3 DEF TablesKept

(***************************************************************************)
(* The theorems with RAM inside the window.                                *)
(***************************************************************************)

(* Every step keeps WindowInv.                                             *)
LEMMA WindowStep ==
    ASSUME InWindow, VmmInv, WindowInv, [Next]_vars
    PROVE  WindowInv'
<1> DEFINE seen == Seen(g_page_directories, memory)
           seen2 == Seen(g_page_directories', memory')
<1>1. ASSUME TablesKept(seen2), stage' # "vmm_preinit" PROVE WindowInv'
  <2>1. TablesOK(Seen(g_page_directories, memory))'
    BY <1>1 DEF TablesKept, TablesOK
  <2> QED
    BY <1>1, <2>1 DEF WindowInv
<1>2. CASE UNCHANGED vars
  BY <1>2, Zenon DEF vars, WindowInv, TablesOK, Seen, Slot
<1>3. CASE stage = "vmm_preinit" /\ ~UNCHANGED vars
  <2>1. tlb = {} /\ stack = <<>> /\ result = NoCall
    BY <1>3 DEF WindowInv
  <2>2. vmm_preinit
    BY <1>3, <2>1 DEF Next, Halted, Boot, vmm_init, pmm_init, Access, vmm_map_page,
                      vmm_unmap_page, Steps, store, alloc_page, get_or_create_pte, map_failed,
                      create_table, set_entry, zero_page, clear_entry, Running
  <2>3. TablesKept(seen2) /\ stage' = "vmm_init"
    BY <2>1, <2>2, PreinitTables DEF vmm_preinit
  <2> QED
    BY <1>1, <2>3
<1>4. CASE stage # "vmm_preinit" /\ ~UNCHANGED vars
  <2>1. TablesOK(seen)
    BY <1>4 DEF WindowInv
  <2>2. CASE Steps
    <3>1. UNCHANGED stage
      BY <2>2, Zenon DEF Steps, store, alloc_page, get_or_create_pte, map_failed, create_table,
                         set_entry, zero_page, clear_entry
    <3>2. TablesKept(seen2)
      BY <2>1, <2>2, StoreTables, AllocTables, EntryTables, FailTables, CreateTables, SetTables,
         ZeroTables, ClearTables DEF Steps
    <3> QED
      BY <1>1, <1>4, <3>1, <3>2
  <2>3. CASE Access \/ vmm_map_page \/ vmm_unmap_page
    <3>1. TablesKept(seen2) /\ UNCHANGED stage
      BY <2>1, <2>3, CallTables
    <3> QED
      BY <1>1, <1>4, <3>1
  <2>4. CASE vmm_init \/ pmm_init
    <3>1. TablesKept(seen2) /\ stage' # "vmm_preinit"
      BY <2>1, <2>4, BootTables DEF vmm_init, pmm_init
    <3> QED
      BY <1>1, <3>1
  <2>5. ~vmm_preinit
    BY <1>4 DEF vmm_preinit
  <2> QED
    BY <1>4, <2>2, <2>3, <2>4, <2>5 DEF Next, Halted, Boot
<1> QED
  BY <1>2, <1>3, <1>4

(* With every frame of the allocator in the kernel window, with devices    *)
(* mapped only and the window left alone, WindowInv holds in every         *)
(* reachable state.                                                        *)
THEOREM WindowInvariant == InWindow => (Spec => []WindowInv)
<1> SUFFICES ASSUME InWindow PROVE Spec => []WindowInv
  OBVIOUS
<1>1. Init => WindowInv
  BY DEF Init, WindowInv
<1>2. VmmInv /\ WindowInv /\ [Next]_vars => WindowInv'
  BY WindowStep
<1> QED
  BY <1>1, <1>2, VmmInvariant, PTL DEF Spec

(* It says what the properties say.                                        *)
LEMMA WindowMeans ==
    ASSUME VmmInv, WindowInv
    PROVE  MapMeansMapped /\ TlbCoherent
<1> DEFINE seen == Seen(g_page_directories, memory)
<1>1. TypeOK /\ result \in Activation
  BY DEF VmmInv, TypeOK
<1>2. CASE stage = "vmm_preinit"
  BY <1>2 DEF WindowInv, MapMeansMapped, TlbCoherent, NoCall
<1>3. CASE stage # "vmm_preinit"
  <2>1. ResultOK(seen, result) /\ TlbOK(seen, tlb)
    BY <1>3 DEF WindowInv, TablesOK
  <2>2. TlbCoherent
    BY <1>1, <2>1, CoherentTlb
  <2>3. Walk(result.address) = seen[pde_index(result.address)][pte_index(result.address)]
    BY <1>1, WalkSeen DEF Activation
  <2>4. MapMeansMapped
    BY <2>1, <2>3, Zenon DEF MapMeansMapped, ResultOK, Behind
  <2> QED
    BY <2>2, <2>4
<1> QED
  BY <1>2, <1>3

(* A mapping that vmm_map_page reported is in the tables, whatever page    *)
(* faults and other calls did since, as long as the window reaches them.   *)
THEOREM MapTheorem == InWindow => (Spec => []MapMeansMapped)
<1> SUFFICES ASSUME InWindow PROVE Spec => []MapMeansMapped
  OBVIOUS
<1>1. VmmInv /\ WindowInv => MapMeansMapped
  BY WindowMeans
<1>2. Spec => []WindowInv
  BY WindowInvariant
<1> QED
  BY <1>1, <1>2, VmmInvariant, PTL

(* For a kernel that leaves the window's pages alone, so that no page in   *)
(* use has a second address, the one flush of vmm_map_page and of          *)
(* vmm_unmap_page is enough: the TLB never holds a translation that a walk *)
(* would not find.  A page of the window has two addresses, of which a     *)
(* call flushes one; nothing is said of unmapping one.                     *)
THEOREM TlbTheorem == InWindow => (Spec => []TlbCoherent)
<1> SUFFICES ASSUME InWindow PROVE Spec => []TlbCoherent
  OBVIOUS
<1>1. VmmInv /\ WindowInv => TlbCoherent
  BY WindowMeans
<1>2. Spec => []WindowInv
  BY WindowInvariant
<1> QED
  BY <1>1, <1>2, VmmInvariant, PTL

(* No page fault is raised while another is handled, whatever the depth of *)
(* the boot stack: its 4 KiB serve one handler at a time.                  *)
THEOREM OneFaultTheorem == InWindow => (Spec => []FaultsDoNotNest)
<1> SUFFICES ASSUME InWindow PROVE Spec => []FaultsDoNotNest
  OBVIOUS
<1>1. VmmInv /\ WindowInv => FaultsDoNotNest
  <2> SUFFICES ASSUME VmmInv, WindowInv,
                      NEW i \in DOMAIN stack, NEW j \in DOMAIN stack,
                      stack[i].call = "fault", stack[j].call = "fault"
               PROVE  i = j
    BY Zenon DEF FaultsDoNotNest
  <2>1. stack \in Seq(Activation) /\ Shallow(stack)
    BY StackEmpty DEF VmmInv, TypeOK, WindowInv, TablesOK, StackOK
  <2>2. i \in 1..Len(stack) /\ j \in 1..Len(stack) /\ Len(stack) \in Nat
    BY <2>1
  <2>3. Len(stack) <= 2 /\ (Len(stack) = 2 => stack[2].call = "access")
    BY <2>1 DEF Shallow, OpenAccess
  <2> DEFINE n == Len(stack)
  <2>4. i \in 1..n /\ j \in 1..n /\ n \in Nat /\ n <= 2 /\ (n = 2 => stack[2].call = "access")
    BY <2>2, <2>3
  <2> HIDE DEF n
  <2>5. \A x \in 1..n : x = 1 \/ (x = 2 /\ n = 2)
    BY ONLY <2>4
  <2>6. "access" # "fault"
    OBVIOUS
  <2> QED
    BY <2>4, <2>5, <2>6, Zenon
<1>2. Spec => []WindowInv
  BY WindowInvariant
<1> QED
  BY <1>1, <1>2, VmmInvariant, PTL

(***************************************************************************)
(* The tables implement an address space.  The mapping that they show is   *)
(* the one of what the MMU sees outside the window.                        *)
(***************************************************************************)

Shown == IF stage = "vmm_preinit" THEN [a \in {} |-> 0] ELSE Translation

MappedPages(seen) == { a \in OpenPages : seen[pde_index(a)][pte_index(a)] # {} }

IsMapping(mapping, seen) ==
    /\ mapping = [a \in MappedPages(seen) |-> mapping[a]]
    /\ \A a \in MappedPages(seen) :
        \A t \in seen[pde_index(a)][pte_index(a)] : mapping[a] = t.frame

(* A page outside the window is an open page, the only one of its indices. *)
LEMMA OpenAt ==
    ASSUME NEW j \in Index, NEW k \in Index, ~IsWindow(j)
    PROVE  /\ At(j, k) \in OpenPages
           /\ \A a \in OpenPages : pde_index(a) = j /\ pte_index(a) = k => a = At(j, k)
<1> DEFINE E == ENTRIES
           P == PAGE_SIZE
<1>1. E \in Nat \ {0} /\ P \in Nat \ {0} /\ j \in 0..(E - 1) /\ k \in 0..(E - 1)
  BY VmmAssumption DEF Index
<1>2. At(j, k) = (j * E + k) * P
  BY DEF At
<1>3. ADDRESS_SPACE = E * (E * P)
  BY DEF ADDRESS_SPACE, TableSpan
<1> HIDE DEF E, P
<1>4. (j * E + k) * P \in 0..(E * (E * P) - 1)
  <2>1. j * E <= (E - 1) * E
    BY <1>1
  <2>2. (E - 1) * E = E * E - E
    BY <1>1
  <2>3. j * E \in Nat /\ E * E \in Nat
    BY <1>1
  <2> DEFINE n == j * E + k
             N == E * E
  <2>4. n \in Nat /\ N \in Nat /\ n <= N - 1
    BY <1>1, <2>1, <2>2, <2>3
  <2>5. E * (E * P) = N * P
    BY <1>1
  <2> HIDE DEF n, N
  <2>6. n * P <= (N - 1) * P
    BY <1>1, <2>4
  <2>7. (N - 1) * P = N * P - P
    BY <1>1, <2>4
  <2>8. n * P \in Nat /\ N * P \in Nat
    BY <1>1, <2>4
  <2>9. n * P \in 0..(N * P - 1)
    BY <1>1, <2>6, <2>7, <2>8
  <2> QED
    BY <2>5, <2>9 DEF n
<1>5. At(j, k) \in Address
  BY <1>2, <1>3, <1>4 DEF Address
<1>6. pde_index(At(j, k)) = j /\ kalign_down(At(j, k)) = At(j, k)
  BY PageAt
<1>7. Aligned(At(j, k))
  BY <1>5, <1>6, SamePage
<1>8. ASSUME NEW a \in OpenPages, pde_index(a) = j, pte_index(a) = k PROVE a = At(j, k)
  <2>1. a \in Address /\ Aligned(a)
    BY <1>8 DEF OpenPages
  <2> QED
    BY <1>8, <2>1, AddressAt, SamePage
<1> QED
  BY <1>5, <1>6, <1>7, <1>8 DEF OpenPages

(* The indices of an open page.                                            *)
LEMMA OpenIndices ==
    ASSUME NEW a \in OpenPages
    PROVE  a \in Address /\ pde_index(a) \in Index /\ pte_index(a) \in Index
           /\ ~IsWindow(pde_index(a))
  BY Indices DEF OpenPages

(* The mapping shown, before a step and after it.                          *)
LEMMA ShownIs ==
    /\ stage # "vmm_preinit" => IsMapping(Shown, Seen(g_page_directories, memory))
    /\ stage' # "vmm_preinit" => IsMapping(Shown', Seen(g_page_directories', memory'))
<1>1. ASSUME NEW d, NEW m, NEW walk, NEW f,
             walk = [a \in OpenPages |-> Seen(d, m)[pde_index(a)][pte_index(a)]],
             f = [a \in {b \in OpenPages : walk[b] # {}} |-> f[a]],
             \A a \in {b \in OpenPages : walk[b] # {}} :
                f[a] = (CHOOSE t \in walk[a] : TRUE).frame
      PROVE  IsMapping(f, Seen(d, m))
  <2>1. \A a \in OpenPages : walk[a] = Seen(d, m)[pde_index(a)][pte_index(a)]
    BY <1>1
  <2>2. {b \in OpenPages : walk[b] # {}} = MappedPages(Seen(d, m))
    BY <2>1 DEF MappedPages
  <2>3. ASSUME NEW a \in MappedPages(Seen(d, m)), NEW t \in walk[a]
        PROVE  f[a] = t.frame
    <3>1. a \in OpenPages
      BY <2>3 DEF MappedPages
    <3>2. \A u \in walk[a] : u = t
      <4>1. \A u, w \in Seen(d, m)[pde_index(a)][pte_index(a)] : u = w
        BY <3>1, OpenIndices, SlotIsOne
      <4> QED
        BY <2>1, <2>3, <3>1, <4>1
    <3>3. (CHOOSE u \in walk[a] : TRUE) = t
      BY <2>3, <3>2
    <3>4. f[a] = (CHOOSE u \in walk[a] : TRUE).frame
      BY <1>1, <2>2, <2>3
    <3> QED
      BY <3>3, <3>4
  <2>4. f = [a \in MappedPages(Seen(d, m)) |-> f[a]]
    BY <1>1, <2>2
  <2> QED
    BY <2>1, <2>3, <2>4 DEF IsMapping, MappedPages
<1>2. ASSUME stage # "vmm_preinit"
      PROVE  IsMapping(Shown, Seen(g_page_directories, memory))
  <2> DEFINE walk == [a \in OpenPages |->
                        Seen(g_page_directories, memory)[pde_index(a)][pte_index(a)]]
  <2>1. \A a \in OpenPages : Walk(a) = walk[a]
    BY OpenIndices, WalkSeen
  <2>2. Shown = Translation
    BY <1>2 DEF Shown
  <2> HIDE DEF walk
  <2>3. {b \in OpenPages : Walk(b) # {}} = {b \in OpenPages : walk[b] # {}}
    BY <2>1
  <2>4. Translation = [a \in {b \in OpenPages : Walk(b) # {}} |-> Translation[a]]
    BY DEF Translation
  <2>5. \A a \in {b \in OpenPages : Walk(b) # {}} :
          Translation[a] = (CHOOSE t \in Walk(a) : TRUE).frame
    BY DEF Translation
  <2>6. \A a \in OpenPages : (CHOOSE t \in Walk(a) : TRUE) = (CHOOSE t \in walk[a] : TRUE)
    BY <2>1
  <2>7. \A a \in {b \in OpenPages : walk[b] # {}} :
          Translation[a] = (CHOOSE t \in walk[a] : TRUE).frame
    BY <2>3, <2>5, <2>6
  <2>8. Translation = [a \in {b \in OpenPages : walk[b] # {}} |-> Translation[a]]
    BY <2>3, <2>4
  <2> QED
    BY <1>1, <2>2, <2>7, <2>8 DEF walk
<1>3. ASSUME stage' # "vmm_preinit"
      PROVE  IsMapping(Shown', Seen(g_page_directories', memory'))
  <2> DEFINE walk == [a \in OpenPages |->
                        Seen(g_page_directories', memory')[pde_index(a)][pte_index(a)]]
  <2>1. \A a \in OpenPages : Walk(a)' = walk[a]
    BY OpenIndices, WalkSeen
  <2>2. Shown' = Translation'
    BY <1>3 DEF Shown
  <2> HIDE DEF walk
  <2>3. {b \in OpenPages : Walk(b)' # {}} = {b \in OpenPages : walk[b] # {}}
    BY <2>1
  <2>4. Translation' = [a \in {b \in OpenPages : Walk(b)' # {}} |-> Translation'[a]]
    BY DEF Translation
  <2>5. \A a \in {b \in OpenPages : Walk(b)' # {}} :
          Translation'[a] = (CHOOSE t \in Walk(a)' : TRUE).frame
    BY DEF Translation
  <2>6. \A a \in OpenPages : (CHOOSE t \in Walk(a)' : TRUE) = (CHOOSE t \in walk[a] : TRUE)
    BY <2>1
  <2>7. \A a \in {b \in OpenPages : walk[b] # {}} :
          Translation'[a] = (CHOOSE t \in walk[a] : TRUE).frame
    BY <2>3, <2>5, <2>6
  <2>8. Translation' = [a \in {b \in OpenPages : walk[b] # {}} |-> Translation'[a]]
    BY <2>3, <2>4
  <2> QED
    BY <1>1, <2>2, <2>7, <2>8 DEF walk
<1> QED
  BY <1>2, <1>3

(* What the MMU sees determines the mapping,                               *)
LEMMA SameMapping ==
    ASSUME NEW seen, NEW d, NEW m, seen = Seen(d, m), NEW f, NEW g,
           IsMapping(f, seen), IsMapping(g, seen)
    PROVE  f = g
<1>1. ASSUME NEW a \in MappedPages(seen) PROVE f[a] = g[a]
  <2>1. PICK t \in seen[pde_index(a)][pte_index(a)] : TRUE
    BY <1>1 DEF MappedPages
  <2>2. f[a] = t.frame
    BY <1>1, <2>1, Zenon DEF IsMapping
  <2>3. g[a] = t.frame
    BY <1>1, <2>1, Zenon DEF IsMapping
  <2> QED
    BY <2>2, <2>3
<1> QED
  BY <1>1 DEF IsMapping

(* and has behind a page the frame that the mapping says.                  *)
LEMMA MappingBehind ==
    ASSUME NEW seen, NEW f, IsMapping(f, seen), NEW a \in DOMAIN f
    PROVE  /\ a \in OpenPages
           /\ Behind(seen, pde_index(a), pte_index(a), f[a])
<1>1. a \in MappedPages(seen)
  BY DEF IsMapping
<1>2. a \in OpenPages /\ ~IsWindow(pde_index(a))
  BY <1>1, OpenIndices DEF MappedPages
<1>3. PICK t \in seen[pde_index(a)][pte_index(a)] : TRUE
  BY <1>1 DEF MappedPages
<1>4. f[a] = t.frame
  BY <1>1, <1>3 DEF IsMapping
<1> QED
  BY <1>2, <1>3, <1>4, Zenon DEF Behind

(* A change at one place is a change of one open page:                     *)
LEMMA PagesElsewhere ==
    ASSUME NEW seen, NEW seen2, NEW p \in Index, NEW i \in Index, ~IsWindow(p),
           ElsewhereSame(seen, seen2, p, i)
    PROVE  \A a \in OpenPages : a # At(p, i) =>
                seen2[pde_index(a)][pte_index(a)] = seen[pde_index(a)][pte_index(a)]
<1> SUFFICES ASSUME NEW a \in OpenPages, a # At(p, i)
             PROVE  seen2[pde_index(a)][pte_index(a)] = seen[pde_index(a)][pte_index(a)]
  OBVIOUS
<1>1. ~(pde_index(a) = p /\ pte_index(a) = i)
  BY OpenAt
<1>2. pde_index(a) \in Index /\ pte_index(a) \in Index
  BY OpenIndices
<1> QED
  BY <1>1, <1>2, Zenon DEF ElsewhereSame

(* the page v is new and has the given frame,                              *)
ExtendsAt(f, g, v, frame) ==
    /\ v \in OpenPages \ DOMAIN f
    /\ DOMAIN g = DOMAIN f \cup {v}
    /\ \A a \in DOMAIN f : g[a] = f[a]
    /\ f = [a \in DOMAIN f |-> f[a]]
    /\ g[v] = frame

(* when an entry that was not there is,                                    *)
LEMMA MappingEntered ==
    ASSUME NEW seen, NEW seen2, NEW f, NEW g, IsMapping(f, seen), IsMapping(g, seen2),
           NEW p \in Index, NEW i \in Index, ~IsWindow(p), NEW t,
           seen[p][i] = {}, seen2[p][i] = {t}, ElsewhereSame(seen, seen2, p, i)
    PROVE  ExtendsAt(f, g, At(p, i), t.frame)
<1> DEFINE v == At(p, i)
<1>1. v \in OpenPages /\ pde_index(v) = p /\ pte_index(v) = i
  BY OpenAt, PageAt
<1>2. \A a \in OpenPages : a # v =>
        seen2[pde_index(a)][pte_index(a)] = seen[pde_index(a)][pte_index(a)]
  BY PagesElsewhere
<1> HIDE DEF v
<1>3. DOMAIN f = MappedPages(seen) /\ DOMAIN g = MappedPages(seen2)
      /\ f = [a \in DOMAIN f |-> f[a]]
  BY DEF IsMapping
<1>4. v \notin DOMAIN f /\ v \in DOMAIN g
  BY <1>1, <1>3 DEF MappedPages
<1>5. DOMAIN g = DOMAIN f \cup {v}
  BY <1>1, <1>2, <1>3, <1>4 DEF MappedPages
<1>6. g[v] = t.frame
  BY <1>1, <1>3, <1>4 DEF IsMapping
<1>7. ASSUME NEW a \in DOMAIN f PROVE g[a] = f[a]
  <2>1. a \in MappedPages(seen) /\ a \in MappedPages(seen2) /\ a # v /\ a \in OpenPages
    BY <1>3, <1>4, <1>5, <1>7 DEF MappedPages
  <2>2. PICK u \in seen[pde_index(a)][pte_index(a)] : TRUE
    BY <2>1 DEF MappedPages
  <2>3. u \in seen2[pde_index(a)][pte_index(a)]
    BY <1>2, <2>1, <2>2
  <2>4. f[a] = u.frame
    BY <2>1, <2>2, Zenon DEF IsMapping
  <2>5. g[a] = u.frame
    BY <2>1, <2>3, Zenon DEF IsMapping
  <2> QED
    BY <2>4, <2>5
<1> QED
  BY <1>1, <1>3, <1>4, <1>5, <1>6, <1>7 DEF v, ExtendsAt

(* and one page is gone when its entry is.                                 *)
LEMMA MappingRemoved ==
    ASSUME NEW seen, NEW seen2, NEW f, NEW g, IsMapping(f, seen), IsMapping(g, seen2),
           NEW p \in Index, NEW i \in Index, ~IsWindow(p),
           seen[p][i] # {}, seen2[p][i] = {}, ElsewhereSame(seen, seen2, p, i)
    PROVE  /\ At(p, i) \in DOMAIN f
           /\ g = [a \in DOMAIN f \ {At(p, i)} |-> f[a]]
<1> DEFINE v == At(p, i)
<1>1. v \in OpenPages /\ pde_index(v) = p /\ pte_index(v) = i
  BY OpenAt, PageAt
<1>2. \A a \in OpenPages : a # v =>
        seen2[pde_index(a)][pte_index(a)] = seen[pde_index(a)][pte_index(a)]
  BY PagesElsewhere
<1> HIDE DEF v
<1>3. DOMAIN f = MappedPages(seen) /\ DOMAIN g = MappedPages(seen2)
      /\ g = [a \in DOMAIN g |-> g[a]]
  BY DEF IsMapping
<1>4. v \in DOMAIN f /\ v \notin DOMAIN g
  BY <1>1, <1>3 DEF MappedPages
<1>5. DOMAIN g = DOMAIN f \ {v}
  BY <1>1, <1>2, <1>3, <1>4 DEF MappedPages
<1>6. ASSUME NEW a \in DOMAIN g PROVE g[a] = f[a]
  <2>1. a \in MappedPages(seen) /\ a \in MappedPages(seen2) /\ a # v /\ a \in OpenPages
    BY <1>3, <1>4, <1>5, <1>6 DEF MappedPages
  <2>2. PICK u \in seen[pde_index(a)][pte_index(a)] : TRUE
    BY <2>1 DEF MappedPages
  <2>3. u \in seen2[pde_index(a)][pte_index(a)]
    BY <1>2, <2>1, <2>2
  <2>4. f[a] = u.frame
    BY <2>1, <2>2, Zenon DEF IsMapping
  <2>5. g[a] = u.frame
    BY <2>1, <2>3, Zenon DEF IsMapping
  <2> QED
    BY <2>4, <2>5
<1>7. g = [a \in DOMAIN f \ {v} |-> f[a]]
  BY <1>3, <1>5, <1>6
<1> QED
  BY <1>4, <1>7 DEF v

(* The step of the address space is then the one that enters a page,       *)
LEMMA EnterMaps ==
    ASSUME stage # "vmm_preinit", UNCHANGED <<stage, free>>, NEW seen,
           seen = Seen(g_page_directories, memory),
           Entered(seen, Seen(g_page_directories', memory'))
    PROVE  Abstract!Enter
<1> DEFINE seen2 == Seen(g_page_directories', memory')
<1>1. IsMapping(Shown, seen) /\ IsMapping(Shown', seen2)
  BY ShownIs
<1> HIDE DEF seen2
<1>1a. PICK p \in Index, i \in Index : \E t :
        /\ ~IsWindow(p)
        /\ seen[p][i] = {} /\ seen2[p][i] = {t}
        /\ ElsewhereSame(seen, seen2, p, i)
        /\ t.frame \in RAM => t.frame \notin free
        /\ t.frame \in RAM => \A j, k \in Index : ~Behind(seen, j, k, t.frame)
  BY Zenon DEF Entered, seen2
<1>2. PICK t :
        /\ ~IsWindow(p)
        /\ seen[p][i] = {} /\ seen2[p][i] = {t}
        /\ ElsewhereSame(seen, seen2, p, i)
        /\ t.frame \in RAM => t.frame \notin free
        /\ t.frame \in RAM => \A j, k \in Index : ~Behind(seen, j, k, t.frame)
  BY <1>1a, Zenon
<1> DEFINE v == At(p, i)
<1>3. /\ v \in OpenPages \ DOMAIN Shown
      /\ DOMAIN Shown' = DOMAIN Shown \cup {v}
      /\ \A a \in DOMAIN Shown : Shown'[a] = Shown[a]
      /\ Shown = [a \in DOMAIN Shown |-> Shown[a]]
      /\ Shown'[v] = t.frame
  <2>1. ExtendsAt(Shown, Shown', v, t.frame)
    BY <1>1, <1>2, MappingEntered
  <2> QED
    BY <2>1, Zenon DEF ExtendsAt
<1>4. [a \in DOMAIN Shown |-> Shown'[a]] = Shown
  BY <1>3
<1>5. Shown'[v] \in RAM => Shown'[v] \notin free \cup {Shown[a] : a \in DOMAIN Shown}
  <2>1. ASSUME t.frame \in RAM, NEW a \in DOMAIN Shown, Shown[a] = t.frame PROVE FALSE
    <3>1. a \in OpenPages /\ Behind(seen, pde_index(a), pte_index(a), Shown[a])
      BY <1>1, MappingBehind
    <3>2. pde_index(a) \in Index /\ pte_index(a) \in Index
      BY <3>1, OpenIndices
    <3> QED
      BY <1>2, <2>1, <3>1, <3>2, Zenon
  <2> QED
    BY <1>2, <1>3, <2>1
<1> HIDE DEF v
<1>6. UNCHANGED (stage = "running") /\ UNCHANGED free
  OBVIOUS
<1> QED
  BY <1>3, <1>4, <1>5, <1>6, Zenon
     DEF Abstract!Enter, Abstract!Restrict, Abstract!Range, Shown

(* or the one that removes it.                                             *)
LEMMA RemoveMaps ==
    ASSUME stage # "vmm_preinit", UNCHANGED <<stage, free>>, NEW seen,
           seen = Seen(g_page_directories, memory),
           Removed(seen, Seen(g_page_directories', memory'))
    PROVE  Abstract!Remove
<1> DEFINE seen2 == Seen(g_page_directories', memory')
<1>1. IsMapping(Shown, seen) /\ IsMapping(Shown', seen2)
  BY ShownIs
<1> HIDE DEF seen2
<1>2. PICK p \in Index, i \in Index :
        /\ ~IsWindow(p)
        /\ seen[p][i] # {} /\ seen2[p][i] = {}
        /\ ElsewhereSame(seen, seen2, p, i)
  BY Zenon DEF Removed, seen2
<1> DEFINE v == At(p, i)
<1>3. v \in DOMAIN Shown /\ Shown' = [a \in DOMAIN Shown \ {v} |-> Shown[a]]
  BY <1>1, <1>2, MappingRemoved, SMTT(30)
<1> HIDE DEF v
<1>4. UNCHANGED (stage = "running") /\ UNCHANGED free
  OBVIOUS
<1> QED
  BY <1>3, <1>4, Zenon DEF Abstract!Remove, Abstract!Restrict, Shown

(* What the steps of the calls and of the handler do to the free frames.   *)
LEMMA FreeStep ==
    ASSUME VmmInv, NEW seen, TablesOK(seen), alloc_page \/ get_or_create_pte \/ map_failed
    PROVE  /\ UNCHANGED <<g_page_directories, memory>>
           /\ \/ UNCHANGED free
              \/ \E f \in free : free' = free \ {f}
              \/ \E f \in RAM \ free : /\ free' = free \cup {f}
                                       /\ \A j, k \in Index : ~Behind(seen, j, k, f)
<1>1. UNCHANGED <<g_page_directories, memory>>
  BY Zenon DEF alloc_page, get_or_create_pte, map_failed
<1>2. CASE alloc_page
  BY <1>1, <1>2, Zenon DEF alloc_page, pmm_alloc_pages
<1>3. CASE get_or_create_pte
  BY <1>1, <1>3, Zenon DEF get_or_create_pte, pmm_alloc_pages
<1>4. CASE map_failed
  <2>1. stack # <<>> /\ top.at = "failed" /\ Return(FALSE)
    BY <1>4, Zenon DEF map_failed, Running
  <2>2. CASE top.call # "fault"
    BY <1>1, <2>1, <2>2, Zenon DEF Return
  <2>3. CASE top.call = "fault"
    <3>1. free' = free \cup {top.frame}
      BY <2>1, <2>3, Zenon DEF Return
    <3>2. HoldsPage(top, top.frame) /\ Holds(top, top.frame) /\ Pending(stack, top.frame)
      BY <2>1, <2>3 DEF HoldsPage, Holds, Pending, top
    <3>3. top.frame \in RAM \ free
      BY <2>1, <3>2, Innermost
    <3>4. PagesOK(seen, g_page_directories, stack, free) /\ top.frame \in Frame
      BY <3>3, VmmAssumption DEF TablesOK
    <3>5. \A j, k \in Index : ~Behind(seen, j, k, top.frame)
      BY <3>2, <3>3, <3>4, Zenon DEF PagesOK, Settled
    <3> QED
      BY <1>1, <3>1, <3>3, <3>5
  <2> QED
    BY <2>2, <2>3
<1> QED
  BY <1>2, <1>3, <1>4

(* Every step is a step of the address space, or none.                     *)
LEMMA TableStepMaps ==
    ASSUME InWindow, VmmInv, WindowInv, [Next]_vars, stage # "vmm_preinit"
    PROVE  [Abstract!Next]_Abstract!vars
<1> DEFINE seen == Seen(g_page_directories, memory)
           seen2 == Seen(g_page_directories', memory')
<1>1. TablesOK(seen)
  BY DEF WindowInv
<1>2. IsMapping(Shown, seen)
  BY ShownIs
<1>3. ASSUME seen2 = seen, stage' # "vmm_preinit" PROVE UNCHANGED Shown
  <2>1. IsMapping(Shown', seen)
    BY <1>3, ShownIs
  <2> HIDE DEF seen2
  <2> QED
    BY <1>2, <2>1, SameMapping
<1>4. ASSUME seen2 = seen, UNCHANGED <<stage, free>> PROVE UNCHANGED Abstract!vars
  <2>1. UNCHANGED Shown /\ UNCHANGED free /\ UNCHANGED (stage = "running")
    BY <1>3, <1>4
  <2> QED
    BY <2>1, Zenon DEF Abstract!vars, Shown
<1>5. CASE UNCHANGED vars
  BY <1>4, <1>5 DEF vars
<1>6. CASE store \/ zero_page \/ create_table
  <2>1. UNCHANGED stage
    BY <1>6, Zenon DEF store, zero_page, create_table
  <2>2. seen2 = seen /\ UNCHANGED free
    BY <1>1, <1>6, StoreTables, ZeroTables, CreateTables
  <2> QED
    BY <1>4, <2>1, <2>2
<1>7. CASE alloc_page \/ get_or_create_pte \/ map_failed
  <2>1. UNCHANGED stage
    BY <1>7, Zenon DEF alloc_page, get_or_create_pte, map_failed
  <2>2. /\ UNCHANGED <<g_page_directories, memory>>
        /\ \/ UNCHANGED free
           \/ \E f \in free : free' = free \ {f}
           \/ \E f \in RAM \ free : /\ free' = free \cup {f}
                                    /\ \A j, k \in Index : ~Behind(seen, j, k, f)
    BY <1>1, <1>7, FreeStep
  <2>3. seen2 = seen
    BY <2>2
  <2>4. UNCHANGED Shown /\ UNCHANGED (stage = "running")
    BY <1>3, <2>1, <2>3
  <2>5. CASE UNCHANGED free
    BY <1>4, <2>1, <2>3, <2>5
  <2>6. CASE \E f \in free : free' = free \ {f}
    <3>1. Abstract!Take
      BY <2>4, <2>6, Zenon DEF Abstract!Take, Shown
    <3> QED
      BY <3>1 DEF Abstract!Next
  <2>7. ASSUME NEW f \in RAM \ free, free' = free \cup {f},
               \A j, k \in Index : ~Behind(seen, j, k, f)
        PROVE  Abstract!GiveBack
    <3>1. ASSUME NEW a \in DOMAIN Shown, Shown[a] = f PROVE FALSE
      <4>1. a \in OpenPages /\ Behind(seen, pde_index(a), pte_index(a), Shown[a])
        BY <1>2, MappingBehind
      <4>2. pde_index(a) \in Index /\ pte_index(a) \in Index
        BY <4>1, OpenIndices
      <4> QED
        BY <2>7, <3>1, <4>1, <4>2, Zenon
    <3>2. f \in RAM \ (free \cup {Shown[a] : a \in DOMAIN Shown})
      BY <2>7, <3>1
    <3> QED
      BY <2>4, <2>7, <3>2, Zenon DEF Abstract!GiveBack, Abstract!Range, Shown
  <2> QED
    BY <2>2, <2>5, <2>6, <2>7 DEF Abstract!Next
<1>8. CASE set_entry
  <2>1. UNCHANGED stage
    BY <1>8, Zenon DEF set_entry
  <2>2. (seen2 = seen \/ Entered(seen, seen2)) /\ UNCHANGED free
    BY <1>1, <1>8, SetTables
  <2>3. CASE seen2 = seen
    BY <1>4, <2>1, <2>2, <2>3
  <2>4. CASE Entered(seen, seen2)
    <3>1. Abstract!Enter
      BY <2>1, <2>2, <2>4, EnterMaps
    <3> QED
      BY <3>1 DEF Abstract!Next
  <2> QED
    BY <2>2, <2>3, <2>4
<1>9. CASE clear_entry
  <2>1. UNCHANGED stage
    BY <1>9, Zenon DEF clear_entry
  <2>2. (seen2 = seen \/ Removed(seen, seen2)) /\ UNCHANGED free
    BY <1>1, <1>9, ClearTables
  <2>3. CASE seen2 = seen
    BY <1>4, <2>1, <2>2, <2>3
  <2>4. CASE Removed(seen, seen2)
    <3>1. Abstract!Remove
      BY <2>1, <2>2, <2>4, RemoveMaps
    <3> QED
      BY <3>1 DEF Abstract!Next
  <2> QED
    BY <2>2, <2>3, <2>4
<1>10. CASE Access \/ vmm_map_page \/ vmm_unmap_page
  <2>1. seen2 = seen /\ UNCHANGED <<stage, free>>
    BY <1>1, <1>10, CallTables
  <2> QED
    BY <1>4, <2>1
<1>11. CASE vmm_init
  <2>1. UNCHANGED <<g_page_directories, memory, free>> /\ stage = "vmm_init" /\ stage' = "pmm_init"
    BY <1>11, Zenon DEF vmm_init
  <2>2. UNCHANGED Shown /\ UNCHANGED free /\ UNCHANGED (stage = "running")
    BY <1>3, <2>1
  <2> QED
    BY <2>2, Zenon DEF Abstract!vars, Shown
<1>12. CASE pmm_init
  <2>1. /\ UNCHANGED <<g_page_directories, memory>> /\ free' = RAM
        /\ stage = "pmm_init" /\ stage' = "running"
    BY <1>12, Zenon DEF pmm_init
  <2>2. UNCHANGED Shown /\ free' = RAM /\ ~(stage = "running") /\ (stage = "running")' = TRUE
    BY <1>3, <2>1
  <2>3. Abstract!Manage
    BY <2>2, Zenon DEF Abstract!Manage, Shown
  <2> QED
    BY <2>3 DEF Abstract!Next
<1>13. ~vmm_preinit
  BY DEF vmm_preinit
<1> QED
  BY <1>5, <1>6, <1>7, <1>8, <1>9, <1>10, <1>11, <1>12, <1>13 DEF Next, Halted, Boot, Steps

(* So is the one that makes the window: it maps no open page.              *)
LEMMA PreinitMaps ==
    ASSUME VmmInv, WindowInv, [Next]_vars, stage = "vmm_preinit"
    PROVE  [Abstract!Next]_Abstract!vars
<1>1. tlb = {} /\ stack = <<>> /\ result = NoCall
  BY DEF WindowInv
<1>2. CASE UNCHANGED vars
  BY <1>2, Zenon DEF vars, Abstract!vars, Translation, Walk
<1>3. CASE ~UNCHANGED vars
  <2>1. vmm_preinit
    BY <1>1, <1>3 DEF Next, Halted, Boot, vmm_init, pmm_init, Access, vmm_map_page,
                      vmm_unmap_page, Steps, store, alloc_page, get_or_create_pte, map_failed,
                      create_table, set_entry, zero_page, clear_entry, Running
  <2>2. stage' = "vmm_init" /\ UNCHANGED free
    BY <2>1, Zenon DEF vmm_preinit
  <2> DEFINE seen2 == Seen(g_page_directories', memory')
  <2>3. \A j, k \in Index : ~IsWindow(j) => seen2[j][k] = {}
    BY <1>1, <2>1, PreinitTables
  <2>4. IsMapping(Shown', seen2)
    BY <2>2, ShownIs
  <2> HIDE DEF seen2
  <2>5. MappedPages(seen2) = {}
    BY <2>3, OpenIndices DEF MappedPages
  <2>6. Shown' = [a \in {} |-> 0]
    BY <2>4, <2>5 DEF IsMapping
  <2>7. Shown = [a \in {} |-> 0]
    BY DEF Shown
  <2>8. UNCHANGED Shown /\ UNCHANGED free /\ UNCHANGED (stage = "running")
    BY <2>2, <2>6, <2>7
  <2> QED
    BY <2>8, Zenon DEF Abstract!vars, Shown
<1> QED
  BY <1>2, <1>3

(* With RAM inside the window, the page directory, the page tables and the *)
(* handler implement an address space: a step of vmm.c changes the         *)
(* translation of one page at most, one that a mapping enters was unmapped *)
(* and its frame of RAM backs no other page, and a frame that is given     *)
(* back backs none.                                                        *)
THEOREM AddressSpaceTheorem == InWindow => (Spec => ImplementsAddressSpace)
<1> SUFFICES ASSUME InWindow PROVE Spec => ImplementsAddressSpace
  OBVIOUS
<1>1. Init => Abstract!Init
  BY DEF Init, Abstract!Init
<1>2. VmmInv /\ WindowInv /\ [Next]_vars => [Abstract!Next]_Abstract!vars
  BY TableStepMaps, PreinitMaps
<1>3. Spec => []WindowInv
  BY WindowInvariant
<1> QED
  BY <1>1, <1>2, <1>3, VmmInvariant, PTL
     DEF Spec, ImplementsAddressSpace, Abstract!Spec
=============================================================================
