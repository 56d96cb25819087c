----------------------------- MODULE OliveHeap ------------------------------
(***************************************************************************)
(* The heap of Liballoc.tla as the kernel builds it: the page source is    *)
(* liballoc_wrappers.c, over the page allocator of PMM.tla.  An address is *)
(* a number of bytes, page p of physical memory starts at p * l_pageSize,  *)
(* and the direct map lets the kernel see it _hhdm_offset bytes higher.    *)
(*                                                                         *)
(* The heap's callers keep its protocol, and hold their block when they    *)
(* are idle, as olive_entry does with the byte that it tests kmalloc with. *)
(***************************************************************************)
EXTENDS Liballoc, Sequences

CONSTANTS
  MemMaps, EntriesPerPage,  \* as in PMM.tla
  _hhdm_offset              \* a multiple of l_pageSize, in the middle of the addresses

VARIABLES
  phase, bootmap, memmap, ent, off, pm_stack, pm_stack_base, pm_stack_idx,
  pm_total_pages, pm_free_pages, pm_used_pages   \* as in PMM.tla

Pmm == INSTANCE PMM

page_vars == <<phase, bootmap, memmap, ent, off, pm_stack, pm_stack_base, pm_stack_idx,
               pm_total_pages, pm_free_pages, pm_used_pages>>

olive_vars == <<vars, page_vars>>

OliveInit == Init /\ Pmm!PMMInit

Boot == Pmm!pmm_init /\ UNCHANGED vars

(* liballoc_alloc adds the offset to whatever pmm_request_pages returns.   *)
liballoc_alloc(pages) ==
  (IF Pmm!CanGrant(pages) THEN Pmm!Granted(pages) * l_pageSize ELSE NULL) + _hhdm_offset

(* Where a store goes through the direct map of vmm_init.  The windows of  *)
(* framebuffers and reclaimable entries run past the entries' ends.  This  *)
(* is the map of a vmm_init that found pages for all of its tables, and it *)
(* is asked for the address that liballoc_alloc returned only; what the    *)
(* tables cost, and that the array of pm_stack itself may be out of reach  *)
(* afterwards, are in Boot.                                                *)
DirectMap ==
  UNION {LET e == memmap[i]
         IN IF e.type = "usable" THEN e.base .. e.base + e.length - 1
            ELSE IF e.type \in {"framebuffer", "reclaimable"}
                 THEN e.base .. e.base + (e.base + e.length) - 1
                 ELSE {} : i \in DOMAIN memmap}

Mapped(a) == (a - _hhdm_offset) \div l_pageSize \in DirectMap

(* A step of kmalloc that asks for pages: the header of the new major is   *)
(* the first store to the address that came back.                          *)
NeedsPages(t) ==
  \/ pc[t] = "root" /\ l_memRoot = NULL
  \/ pc[t] \in {"grow1", "grow5"}

Extend(t) ==
  LET pages == PagesFor(Size(t))
      a     == liballoc_alloc(pages)
  IN /\ NeedsPages(t)
     /\ Pmm!pmm_request_pages(pages)
     /\ IF a = NULL \/ Mapped(a)
        THEN CreateRoot(t, a) \/ Grow(t, a)
        ELSE Goto(t, "fault") /\ UNCHANGED <<heap_lock, heap, call, walk, own>>

MallocStep(t) ==
  \/ StartWalk(t) \/ VisitMajor(t) \/ Place(t) \/ VisitMinor(t) \/ NextMajor(t)

(* kfree, with liballoc_free: it passes the major's address on as it is.   *)
FreeAndGiveBack(t, r) ==
  LET m == minor[HeaderOf(r.ptr)].block
  IN /\ Free(t, r)
     /\ IF Empties(HeaderOf(r.ptr))
        THEN Pmm!pmm_free_pages(m \div l_pageSize, major[m].pages)
        ELSE UNCHANGED page_vars

OliveNext ==
  \/ Boot
  \/ /\ phase = "ready"
     /\ Running
     /\ \E t \in Threads :
          \/ \E n \in Requests : Malloc(t, "malloc", n) /\ UNCHANGED page_vars
          \/ MallocStep(t) /\ UNCHANGED page_vars
          \/ Extend(t)
          \/ \E r \in own[t] : FreeAndGiveBack(t, r)

OliveSpec == OliveInit /\ [][OliveNext]_olive_vars

-----------------------------------------------------------------------------
(* pmm.c:143 logs "Freed %zu pages starting from physical address 0x%llx": *)
(* what lies on pm_stack are pages of physical memory.                     *)
FreedPagesArePhysical == Pmm!FreePages \subseteq Pmm!UsablePages(bootmap)

=============================================================================
