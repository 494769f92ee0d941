-------------------------------- MODULE Emm --------------------------------
(***************************************************************************)
(* The early boot allocator, kernel/src/lib/memory/emm.c: a bump allocator *)
(* over the linker's .early_heap section.  Nothing is ever given back.     *)
(*                                                                         *)
(* emm_alloc is called from inside other operations (the PMM allocates a   *)
(* region header and its block pool in one call of pmm_add_region), so it  *)
(* is written as operators on a cursor that the calling action composes.   *)
(***************************************************************************)
EXTENDS Integers

CONSTANTS
    ADDRESS_SPACE,      \* number of addresses: 2^32 for the i686 build
    EARLY_HEAP_START,   \* SYMBOL_START(early_heap)
    EARLY_HEAP_END      \* SYMBOL_END(early_heap): START + 512K in linker.ld

ASSUME EmmAssumption ==
    /\ ADDRESS_SPACE \in Nat
    /\ EARLY_HEAP_START \in Nat
    /\ EARLY_HEAP_END \in Nat
    /\ EARLY_HEAP_START <= EARLY_HEAP_END
    /\ EARLY_HEAP_END < ADDRESS_SPACE

VARIABLE g_cursor       \* first byte of the early heap not yet handed out

(* uintptr_t addition: the width matters, the code compares the sum.       *)
next_cursor(cursor, size) == (cursor + size) % ADDRESS_SPACE

(* A comparison that lets the last allocation run past the end.            *)
emm_exhausted_late(cursor, size) == cursor > EARLY_HEAP_END

(* emm_alloc's only early exit, a KPANIC.                                  *)
emm_exhausted(cursor, size) == next_cursor(cursor, size) > EARLY_HEAP_END

EmmInit == g_cursor = EARLY_HEAP_START
=============================================================================
