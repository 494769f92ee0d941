----------------------------- MODULE Multiboot -----------------------------
(***************************************************************************)
(* The parser of the boot loader's information structure,                  *)
(* kernel/src/arch/x86/boot/multiboot2.c: it walks the tags by the sizes   *)
(* they claim and copies what the kernel needs into the early heap.        *)
(*                                                                         *)
(* `info' is the structure in memory: its size in bytes, the tag that      *)
(* starts at each offset where one does, and the list it was written from. *)
(* `current' and `entry' are the offsets of the two walks.  A linked list  *)
(* of boot_info_t is the sequence of its elements; a string is a name and  *)
(* its length.                                                             *)
(***************************************************************************)
EXTENDS Emm, Sequences, SequencesExt, FiniteSets

CONSTANTS
    BootInfos,      \* the tag sequences a boot loader may leave
    KIB             \* 1024

(* MULTIBOOT2_TAG_TYPE_* and MULTIBOOT2_MEMORY_*, the ones used.           *)
TagTypes == {"END", "COMMAND_LINE", "BOOT_LOADER_NAME", "MODULE", "MEMORY_MAP", "FRAMEBUFFER"}
MemoryTypes == {"AVAILABLE", "RESERVED", "ACPI_RECLAIMABLE", "NVS", "BADRAM"}

String == [text : STRING, length : Nat]
StringTag == [type : {"COMMAND_LINE", "BOOT_LOADER_NAME"}, size : Nat, string : String]
ModuleTag == [type : {"MODULE"}, size : Nat, mod_start : Nat, mod_end : Nat, string : String]
MapEntry == [base_address : Nat, length : Nat, type : MemoryTypes]
MemoryMapTag == [type : {"MEMORY_MAP"}, size : Nat, entry_size : Nat, entries : Seq(MapEntry)]
OtherTag == [type : {"END", "FRAMEBUFFER"}, size : Nat]

INFO_HEADER == 8            \* total_size and reserved
MEMORY_MAP_HEADER == 16     \* type, size, entry_size and entry_version

(* sizeof on i686.                                                         *)
SIZEOF_REGION == 20
SIZEOF_MODULE == 16

(* A tag holds at least its header, and a memory map whole entries.        *)
ASSUME MultibootAssumption ==
    /\ KIB \in Nat \ {0}
    /\ \A tags \in BootInfos : \A i \in DOMAIN tags :
        /\ tags[i] \in StringTag \cup ModuleTag \cup MemoryMapTag \cup OtherTag
        /\ tags[i].size >= 8
        /\ tags[i].type = "MEMORY_MAP" =>
            tags[i].size = MEMORY_MAP_HEADER + Len(tags[i].entries) * tags[i].entry_size

VARIABLES
    info, boot_info,
    current, entry,
    step,           \* what the parser does next
    report          \* what multiboot2_print_boot_info printed

parser_vars == <<info, boot_info, current, entry, step, report>>

NULL == [text |-> "NULL", length |-> 4]     \* as %s prints it

(***************************************************************************)
(* External: a boot loader starts every tag at a multiple of 8 bytes and   *)
(* fills the gap with zeros, which read as an END tag.                     *)
(***************************************************************************)

Offset(tags, i) ==
    FoldLeft(LAMBDA at, tag : at + 8 * ((tag.size + 7) \div 8),
             INFO_HEADER, SubSeq(tags, 1, i - 1))

Layout(tags) ==
    [total_size |-> Offset(tags, Len(tags) + 1), written |-> tags,
     tags |-> [at \in {Offset(tags, i) : i \in DOMAIN tags} |->
                tags[CHOOSE i \in DOMAIN tags : Offset(tags, i) = at]]]

TagAt(at) ==
    IF at \in DOMAIN info.tags THEN info.tags[at] ELSE [type |-> "END", size |-> 0]

EntryAt(tag, at) ==
    IF \E i \in DOMAIN tag.entries : at = MEMORY_MAP_HEADER + (i - 1) * tag.entry_size
    THEN tag.entries[((at - MEMORY_MAP_HEADER) \div tag.entry_size) + 1]
    ELSE [base_address |-> 0, length |-> 0, type |-> "zeros"]

(***************************************************************************)
(* multiboot2_parse_boot_info.                                             *)
(***************************************************************************)

Init ==
    /\ EmmInit
    /\ info \in {Layout(tags) : tags \in BootInfos}
    /\ boot_info = [name |-> NULL, command_line |-> NULL, ram_regions |-> <<>>,
                    reserved_regions |-> <<>>, modules |-> <<>>]
    /\ current = INFO_HEADER
    /\ entry = 0
    /\ step = "tag"
    /\ report = <<>>

tag == TagAt(current)

emm_alloc(size) ==
    /\ ~emm_exhausted(g_cursor, size)
    /\ g_cursor' = next_cursor(g_cursor, size)

(* The size of a tag as it stands, without the padding.                    *)
size_unaligned(size) == size

MULTIBOOT2_ALIGN_UP(size) == (size + 7) - ((size + 7) % 8)

next_tag == current + MULTIBOOT2_ALIGN_UP(tag.size)

(* The end of the structure only.                                          *)
walk_past_end == current >= info.total_size

walk_ends == current >= info.total_size \/ tag.type = "END"

AtTag(types) == step = "tag" /\ ~walk_ends /\ tag.type \in types

(* parse_command_line and parse_name.  A second tag of the type replaces   *)
(* the copy of the first, which stays in the early heap.                   *)
parse_string ==
    /\ AtTag({"COMMAND_LINE", "BOOT_LOADER_NAME"})
    /\ emm_alloc(tag.string.length + 1)
    /\ boot_info' = IF tag.type = "COMMAND_LINE"
                    THEN [boot_info EXCEPT !.command_line = tag.string]
                    ELSE [boot_info EXCEPT !.name = tag.string]
    /\ current' = next_tag
    /\ UNCHANGED <<info, entry, step, report>>

(* parse_module links the module before it allocates its command line.     *)
parse_module ==
    /\ AtTag({"MODULE"})
    /\ emm_alloc(SIZEOF_MODULE)
    /\ boot_info' = [boot_info EXCEPT !.modules =
                        Append(@, [mod_start |-> tag.mod_start, mod_end |-> tag.mod_end,
                                   command_line |-> NULL])]
    /\ step' = "module"
    /\ UNCHANGED <<info, current, entry, report>>

module_command_line ==
    /\ step = "module"
    /\ emm_alloc(tag.string.length + 1)
    /\ boot_info' = [boot_info EXCEPT
                        !.modules[Len(boot_info.modules)].command_line = tag.string]
    /\ current' = next_tag
    /\ step' = "tag"
    /\ UNCHANGED <<info, entry, report>>

parse_memory_map ==
    /\ AtTag({"MEMORY_MAP"})
    /\ entry' = MEMORY_MAP_HEADER
    /\ step' = "entry"
    /\ UNCHANGED <<g_cursor, info, boot_info, current, report>>

link_last(list, region) == Append(list, region)


filed(e) ==
    LET region == [base_address |-> e.base_address, length |-> e.length]
    IN  CASE e.type = "AVAILABLE" ->
                [boot_info EXCEPT !.ram_regions = link_last(@, region)]
          [] e.type = "RESERVED" ->
                [boot_info EXCEPT !.reserved_regions = link_last(@, region)]
          [] OTHER -> boot_info

(* One entry.  The element is allocated before the type is looked at: an   *)
(* entry of another type takes as much of the early heap.                  *)
parse_entry ==
    /\ step = "entry"
    /\ entry < tag.size
    /\ emm_alloc(SIZEOF_REGION)
    /\ boot_info' = filed(EntryAt(tag, entry))
    /\ entry' = entry + tag.entry_size
    /\ UNCHANGED <<info, current, step, report>>

memory_map_end ==
    /\ step = "entry"
    /\ entry >= tag.size
    /\ step' = "tag"
    /\ current' = next_tag
    /\ UNCHANGED <<g_cursor, info, boot_info, entry, report>>

(* A tag without a case in the switch (first without stepping over it).    *)
Unknown == TagTypes \ {"COMMAND_LINE", "BOOT_LOADER_NAME", "MODULE", "MEMORY_MAP"}

skip_stays == AtTag(Unknown) /\ UNCHANGED <<g_cursor, parser_vars>>

skip_tag ==
    /\ AtTag(Unknown)
    /\ current' = next_tag
    /\ UNCHANGED <<g_cursor, info, boot_info, entry, step, report>>

(* emm_alloc calls kpanic, wherever the parser is.                         *)
heap_exhausted ==
    /\ \/ /\ AtTag({"COMMAND_LINE", "BOOT_LOADER_NAME"}) \/ step = "module"
          /\ emm_exhausted(g_cursor, tag.string.length + 1)
       \/ AtTag({"MODULE"}) /\ emm_exhausted(g_cursor, SIZEOF_MODULE)
       \/ step = "entry" /\ entry < tag.size /\ emm_exhausted(g_cursor, SIZEOF_REGION)
    /\ step' = "panic"
    /\ UNCHANGED <<g_cursor, info, boot_info, current, entry, report>>

parsed ==
    /\ step = "tag"
    /\ walk_ends
    /\ step' = "print"
    /\ UNCHANGED <<g_cursor, info, boot_info, current, entry, report>>

(***************************************************************************)
(* multiboot2_print_boot_info: uintptr_t and size_t are 32 bits wide.      *)
(***************************************************************************)

Word(value) == value % ADDRESS_SPACE

multiboot2_memory_map_size(regions) ==
    FoldLeft(LAMBDA total, r : total + r.length, 0, regions)

multiboot2_memory_map_count(regions) == Len(regions)
multiboot2_module_count(modules) == Len(modules)

region_lines(regions) ==
    [i \in DOMAIN regions |->
        LET r == regions[i]
        IN  [start |-> Word(r.base_address), end |-> Word(r.base_address + r.length),
             size |-> Word(r.length \div KIB)]]

module_lines(modules) ==
    [i \in DOMAIN modules |->
        LET m == modules[i]
        IN  [start |-> m.mod_start, end |-> m.mod_end, command_line |-> m.command_line,
             size |-> Word(m.mod_end - m.mod_start) \div KIB]]

multiboot2_print_boot_info ==
    /\ step = "print"
    /\ LET ram == boot_info.ram_regions
           reserved == boot_info.reserved_regions
       IN  report' =
            [ram |-> region_lines(ram), ram_count |-> multiboot2_memory_map_count(ram),
             ram_size |-> Word(multiboot2_memory_map_size(ram) \div (KIB * KIB)),
             reserved |-> region_lines(reserved),
             reserved_count |-> multiboot2_memory_map_count(reserved),
             reserved_size |-> Word(multiboot2_memory_map_size(reserved) \div KIB),
             modules |-> module_lines(boot_info.modules),
             module_count |-> multiboot2_module_count(boot_info.modules)]
    /\ step' = "done"
    /\ UNCHANGED <<g_cursor, info, boot_info, current, entry>>

Next ==
    \/ parse_string \/ parse_module \/ module_command_line
    \/ parse_memory_map \/ parse_entry \/ memory_map_end
    \/ skip_tag \/ heap_exhausted \/ parsed \/ multiboot2_print_boot_info

(***************************************************************************)
(* What the parser promises.                                               *)
(***************************************************************************)

(* The tags as the boot loader wrote them, up to the END tag.              *)
Tags ==
    LET Ended(i) == \E j \in 1..i : info.written[j].type = "END"
        count == Cardinality({i \in DOMAIN info.written : ~Ended(i)})
    IN  SubSeq(info.written, 1, count)

OfType(type) == SelectSeq(Tags, LAMBDA t : t.type = type)

Entries == FoldLeft(LAMBDA all, t : all \o t.entries, <<>>, OfType("MEMORY_MAP"))

Regions(type) ==
    LET of == SelectSeq(Entries, LAMBDA e : e.type = type)
    IN  [i \in DOMAIN of |-> [base_address |-> of[i].base_address, length |-> of[i].length]]

LastString(type) == IF OfType(type) = <<>> THEN NULL ELSE Last(OfType(type)).string

Modules ==
    LET of == OfType("MODULE")
    IN  [i \in DOMAIN of |-> [mod_start |-> of[i].mod_start, mod_end |-> of[i].mod_end,
                              command_line |-> of[i].string]]

(* What the walk leaves: every available and reserved entry of every       *)
(* memory map, every module and the last strings, in the boot loader's     *)
(* order, and nothing from behind the END tag or from the padding.         *)
ParsesBootInfo ==
    step \in {"print", "done"} =>
        boot_info = [name |-> LastString("BOOT_LOADER_NAME"),
                     command_line |-> LastString("COMMAND_LINE"),
                     ram_regions |-> Regions("AVAILABLE"),
                     reserved_regions |-> Regions("RESERVED"),
                     modules |-> Modules]

(* The early heap a structure takes: an element for every entry of a       *)
(* memory map, the ignored ones too, and a copy of every string.           *)
Demand ==
    LET strings == SelectSeq(Tags, LAMBDA t : t.type \in {"COMMAND_LINE", "BOOT_LOADER_NAME", "MODULE"})
    IN  SIZEOF_REGION * Len(Entries) + SIZEOF_MODULE * Len(OfType("MODULE"))
          + FoldLeft(LAMBDA sum, t : sum + t.string.length + 1, 0, strings)

(* The parse stops the machine only if the structure does not fit the      *)
(* early heap, wherever in it the last byte goes, and takes what it needs  *)
(* for one copy of everything and no more.                                 *)
TakesItsDemand ==
    /\ step = "panic" => Demand > EARLY_HEAP_END - EARLY_HEAP_START
    /\ step = "print" => g_cursor - EARLY_HEAP_START = Demand
=============================================================================
