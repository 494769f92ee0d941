---------------------------- MODULE AddressSpace ----------------------------
(***************************************************************************)
(* What vmm.h promises, without directories, tables or a TLB: a mapping    *)
(* from virtual pages to physical frames that changes one page at a time.  *)
(* A frame of RAM that backs a page was taken from the physical memory     *)
(* manager first and backs no other page.                                  *)
(***************************************************************************)
EXTENDS Functions

CONSTANTS
    Pages,          \* virtual pages
    Ram             \* the frames the physical memory manager owns

VARIABLES
    mapping,        \* the frame behind each mapped page
    managed,        \* the physical memory manager is running
    unused          \* frames that may still be taken

vars == <<mapping, managed, unused>>

Init ==
    /\ mapping = [v \in {} |-> 0]
    /\ managed = FALSE
    /\ unused = {}

Manage ==
    /\ ~managed
    /\ managed' = TRUE
    /\ unused' = Ram
    /\ UNCHANGED mapping

Take ==
    /\ \E f \in unused : unused' = unused \ {f}
    /\ UNCHANGED <<mapping, managed>>

Enter ==
    \E v \in Pages \ DOMAIN mapping :
        /\ DOMAIN mapping' = DOMAIN mapping \cup {v}
        /\ Restrict(mapping', DOMAIN mapping) = mapping
        /\ mapping'[v] \in Ram => mapping'[v] \notin unused \cup Range(mapping)
        /\ UNCHANGED <<managed, unused>>

(* Frames behind a page are not given back.                                *)
Remove ==
    \E v \in DOMAIN mapping :
        /\ mapping' = Restrict(mapping, DOMAIN mapping \ {v})
        /\ UNCHANGED <<managed, unused>>

(* A frame that backs nothing is returned.                                 *)
GiveBack ==
    \E f \in Ram \ (unused \cup Range(mapping)) :
        unused' = unused \cup {f} /\ UNCHANGED <<mapping, managed>>

Next == Manage \/ Take \/ Enter \/ Remove \/ GiveBack

Spec == Init /\ [][Next]_vars
=============================================================================
