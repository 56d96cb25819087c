------------------------------- MODULE MCVMM --------------------------------
(* Model values for checking VMM. *)
EXTENDS VMM, TLC

CONSTANTS t1, t2

E(t, b, n) == [type |-> t, base |-> b, length |-> n]

MCThreads == {t1, t2}

MCIndex == {0, 1}

(* Pages that share only the PML4, and the PDPT, with the page table.      *)
v1 == <<0, 0, 0, 0>>
v2 == <<0, 1, 0, 0>>

MCVirts == {v1, v2}

MCOwn == t1 :> {v1} @@ t2 :> {v2}

(* The array takes one page.  Of the six that are left four make the       *)
(* tables of one page, and not enough are left for those of the other.     *)
MCMaps == { << E("usable", 1, 7) >> }

(* The slots above pm_stack_idx are dead: they are written before they are *)
(* read again.                                                             *)
LiveView ==
  <<phase, pmm_memory, pmm_loops, pmm_counts, [s \in FreeSlots |-> pm_stack[s]],
    root, memory, map_lock, thread_vars>>

=============================================================================
