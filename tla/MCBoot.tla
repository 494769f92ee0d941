------------------------------- MODULE MCBoot -------------------------------
(* Boot loader structures for TLC, in an address space of 16 pages.        *)
EXTENDS Boot

Name(n) == [text |-> "text", length |-> n]
Loader(n) == [type |-> "BOOT_LOADER_NAME", size |-> 8 + n + 1, string |-> Name(n)]
Command(n) == [type |-> "COMMAND_LINE", size |-> 8 + n + 1, string |-> Name(n)]
Module(start, end) == [type |-> "MODULE", size |-> 16 + 5 + 1, mod_start |-> start,
                       mod_end |-> end, string |-> Name(5)]
Map(entry_size, entries) == [type |-> "MEMORY_MAP", entry_size |-> entry_size,
                             size |-> 16 + Len(entries) * entry_size, entries |-> entries]
Other(n) == [type |-> "FRAMEBUFFER", size |-> n]
End == [type |-> "END", size |-> 8]

E(page, pages, type) == [base_address |-> page * 4096, length |-> pages * 4096, type |-> type]
Odd(base, length, type) == [base_address |-> base, length |-> length, type |-> type]

(* Maps with every kind of entry, entries of the usual size and larger;    *)
(* with 28 bytes to an entry, maps that need padding.                      *)
Maps ==
    { Map(24, <<E(0, 2, "AVAILABLE"), E(2, 1, "RESERVED"), E(3, 2, "AVAILABLE")>>),
      Map(32, <<E(0, 1, "NVS"), E(1, 3, "AVAILABLE")>>),
      Map(28, <<E(0, 1, "AVAILABLE"), E(3, 2, "ACPI_RECLAIMABLE"), E(5, 2, "AVAILABLE")>>),
      Map(24, <<Odd(100, 5000, "AVAILABLE"), Odd(9000, 12000, "AVAILABLE"), E(6, 1, "BADRAM")>>),
      Map(24, <<>>) }

(* Tags of lengths that need and do not need padding, twice, in different  *)
(* orders, and with tags behind the END.                                   *)
Around(m) ==
    { <<m, End>>,
      <<Loader(4), Command(7), m, Other(13), End>>,
      <<Other(20), Command(3), Module(4096, 12288), Loader(2), m, Command(9), End>>,
      <<Other(9), m, Module(0, 5), Map(24, <<E(8, 2, "AVAILABLE")>>), End, Command(1),
        Map(24, <<E(12, 1, "AVAILABLE")>>)>>,
      <<Loader(0), m>> }

(* A command line that leaves so many bytes of the early heap's 240: the   *)
(* copies, the elements and the block pools run out at different places.   *)
Tight(left) == <<Command(239 - left), Module(0, 8), Map(24, <<E(4, 1, "AVAILABLE"), E(6, 2, "NVS")>>), End>>

BootInfosMC ==
    UNION {Around(m) : m \in Maps} \cup {Tight(left) : left \in {0, 15, 16, 21, 22, 41, 61, 62, 140}}
        \cup {<<Command(240), End>>}
=============================================================================
