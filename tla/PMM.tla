-------------------------------- MODULE PMM --------------------------------
(***************************************************************************)
(* The physical memory manager of the Olive kernel, olive/src/mm/pmm.c.    *)
(*                                                                         *)
(* A physical address is modelled by its page number, so that PAGE_SIZE    *)
(* is 1 and page 0 is the NULL pointer.  pm_stack is an array of page      *)
(* numbers that itself lives in physical memory: pmm_init carves it out    *)
(* of the highest usable entry of the bootloader's memory map that is      *)
(* large enough.  The slots below pm_stack_idx hold the free pages.        *)
(*                                                                         *)
(* pmm_init is modelled one loop iteration per action.  The two exported   *)
(* functions, pmm_request_pages and pmm_free_pages, are action operators   *)
(* that the modules of their callers (PMMClients, VMM) compose.            *)
(*                                                                         *)
(* A definition whose name starts with Bad is a faulty variant of the one  *)
(* that follows it.  Nothing uses it: it stands for a slip that one of the *)
(* properties has to notice when it takes the place of the right one.      *)
(***************************************************************************)
EXTENDS Integers, Sequences

CONSTANTS
  MemMaps,        \* the memory maps that the bootloader may hand over
  EntriesPerPage  \* PAGE_SIZE / sizeof(uint64_t): 512 in the kernel

NULL == 0

EntryTypes == {"usable", "framebuffer", "reclaimable", "kernel", "reserved"}

\* The pages of the run of n pages that starts at page base.
Pages(base, n) == base .. base + n - 1

Entry == [type : EntryTypes, base : Nat, length : Nat]

IsUsable(e) == e.type = "usable"

(***************************************************************************)
(* What the Limine protocol promises about a memory map: page-aligned      *)
(* usable entries that overlap no other entry and never hold page 0.       *)
(***************************************************************************)
ASSUME MemMapsAssumption ==
  \A map \in MemMaps :
    /\ map \in Seq(Entry)
    /\ \A a, b \in DOMAIN map :
         IsUsable(map[a]) =>
           /\ map[a].base > NULL
           /\ a # b => Pages(map[a].base, map[a].length)
                         \cap Pages(map[b].base, map[b].length) = {}

ASSUME EntriesPerPageAssumption == EntriesPerPage \in Nat \ {0}

VARIABLES
  phase,           \* where pmm_init stands, then "ready", "failed", "fault", "halted"
  bootmap,         \* history: the memory map as the bootloader handed it over
  memmap,          \* _memmap->entries: pmm_init shortens the entry it carves
  ent, off,        \* the loop variables i and j of pmm_init (off in pages)
  pm_stack,        \* the array; <<>> stands for the pointer before it is set
  pm_stack_base,   \* the first page that holds the array, or NULL
  pm_stack_idx,
  pm_total_pages,
  pm_free_pages,
  pm_used_pages

pmm_memory == <<bootmap, memmap, pm_stack_base, pm_total_pages>>
pmm_loops  == <<ent, off>>
pmm_counts == <<pm_stack_idx, pm_free_pages, pm_used_pages>>
pmm_vars   == <<phase, pmm_memory, pmm_loops, pm_stack, pmm_counts>>

PMMInit ==
  /\ phase = "count"
  /\ bootmap \in MemMaps
  /\ memmap = bootmap
  /\ ent = 1
  /\ off = 0
  /\ pm_stack = <<>>
  /\ pm_stack_base = NULL
  /\ pm_stack_idx = 0
  /\ pm_total_pages = 0
  /\ pm_free_pages = 0
  /\ pm_used_pages = 0

-----------------------------------------------------------------------------
(* pmm_init, loop 1: count the usable pages. *)
CountEntry ==
  /\ phase = "count"
  /\ ent <= Len(memmap)
  /\ pm_total_pages' =
       pm_total_pages + IF IsUsable(memmap[ent]) THEN memmap[ent].length ELSE 0
  /\ ent' = ent + 1
  /\ UNCHANGED <<phase, bootmap, memmap, off, pm_stack, pm_stack_base, pmm_counts>>

CountDone ==
  /\ phase = "count"
  /\ ent > Len(memmap)
  /\ phase' = "locate"
  /\ ent' = Len(memmap)
  /\ UNCHANGED <<pmm_memory, off, pm_stack, pmm_counts>>

(* pm_stack_size, in pages: ALIGN_UP(pm_total_pages * 8, PAGE_SIZE). *)
pm_stack_size == (pm_total_pages + EntriesPerPage - 1) \div EntriesPerPage

BadCanHoldAny(e)   == IsUsable(e)
BadCanHoldMore(e)  == IsUsable(e) /\ e.length > pm_stack_size
CanHold(e) == IsUsable(e) /\ e.length >= pm_stack_size

BadShortened(map, a) == map
Shortened(map, a)    == [map EXCEPT ![a].length = @ - pm_stack_size]

(* pmm_init, loop 2: the highest usable entry that is large enough gives   *)
(* its top pages to the stack, and is shortened by as many.                *)
PlaceStack ==
  /\ phase = "locate"
  /\ ent >= 1
  /\ CanHold(memmap[ent])
  /\ pm_stack_base' = memmap[ent].base + memmap[ent].length - pm_stack_size
  /\ pm_stack' = [s \in 0 .. pm_total_pages - 1 |-> NULL]
  /\ memmap' = Shortened(memmap, ent)
  /\ phase' = "push"
  /\ ent' = 1
  /\ UNCHANGED <<bootmap, off, pm_total_pages, pmm_counts>>

BadSkipEntry ==
  /\ phase = "locate"
  /\ ent >= 1
  /\ ~CanHold(memmap[ent])
  /\ UNCHANGED <<phase, pmm_memory, ent, off, pm_stack, pmm_counts>>

SkipEntry ==
  /\ phase = "locate"
  /\ ent >= 1
  /\ ~CanHold(memmap[ent])
  /\ ent' = ent - 1
  /\ UNCHANGED <<phase, pmm_memory, off, pm_stack, pmm_counts>>

(* No entry is large enough: loop 2 ends and pm_stack is still NULL. *)
NoPlace ==
  /\ phase = "locate"
  /\ ent = 0
  /\ phase' = "push"
  /\ ent' = 1
  /\ UNCHANGED <<pmm_memory, off, pm_stack, pmm_counts>>

(* pmm_init, loop 3: push every page that is left in a usable entry.  With *)
(* pm_stack still NULL the store goes to virtual address 0 and faults.     *)
PushPage ==
  /\ phase = "push"
  /\ ent <= Len(memmap)
  /\ IsUsable(memmap[ent])
  /\ off < memmap[ent].length
  /\ IF pm_stack_idx < pm_total_pages /\ pm_stack_base # NULL
     THEN /\ pm_stack' = [pm_stack EXCEPT ![pm_stack_idx] = memmap[ent].base + off]
          /\ pm_stack_idx' = pm_stack_idx + 1
          /\ off' = off + 1
          /\ UNCHANGED phase
     ELSE /\ phase' = IF pm_stack_idx >= pm_total_pages THEN "failed" ELSE "fault"
          /\ UNCHANGED <<pm_stack, pm_stack_idx, off>>
  /\ UNCHANGED <<pmm_memory, ent, pm_free_pages, pm_used_pages>>

NextEntry ==
  /\ phase = "push"
  /\ ent <= Len(memmap)
  /\ IsUsable(memmap[ent]) => off >= memmap[ent].length
  /\ ent' = ent + 1
  /\ off' = 0
  /\ UNCHANGED <<phase, pmm_memory, pm_stack, pmm_counts>>

BadPushDone ==
  /\ phase = "push"
  /\ ent > Len(memmap)
  /\ pm_free_pages' = pm_total_pages
  /\ phase' = "ready"
  /\ UNCHANGED <<pmm_memory, pmm_loops, pm_stack, pm_stack_idx, pm_used_pages>>

PushDone ==
  /\ phase = "push"
  /\ ent > Len(memmap)
  /\ pm_free_pages' = pm_stack_idx
  /\ phase' = "ready"
  /\ UNCHANGED <<pmm_memory, pmm_loops, pm_stack, pm_stack_idx, pm_used_pages>>

pmm_init ==
  \/ CountEntry \/ CountDone
  \/ PlaceStack \/ SkipEntry \/ NoPlace
  \/ PushPage   \/ NextEntry \/ PushDone

-----------------------------------------------------------------------------
(* pmm_request_pages(n) returns Granted(n) when CanGrant(n), else NULL. *)
CanGrant(n) == n # 0 /\ n <= pm_stack_idx

BadGranted(n) == pm_stack[pm_stack_idx]
Granted(n) == pm_stack[pm_stack_idx - n]

BadRequestKeeps(n) ==
  /\ phase = "ready"
  /\ IF CanGrant(n)
     THEN /\ pm_used_pages' = pm_used_pages + n
          /\ pm_free_pages' = pm_free_pages - n
          /\ UNCHANGED pm_stack_idx
     ELSE UNCHANGED pmm_counts
  /\ UNCHANGED <<phase, pmm_memory, pmm_loops, pm_stack>>

pmm_request_pages(n) ==
  /\ phase = "ready"
  /\ IF CanGrant(n)
     THEN /\ pm_stack_idx'  = pm_stack_idx - n
          /\ pm_used_pages' = pm_used_pages + n
          /\ pm_free_pages' = pm_free_pages - n
     ELSE UNCHANGED pmm_counts
  /\ UNCHANGED <<phase, pmm_memory, pmm_loops, pm_stack>>

(* The loop of pmm_free_pages, k times round: slot by slot, page by page. *)
BadPushRun(ptr, k) ==
  [s \in DOMAIN pm_stack |-> IF s \in Pages(pm_stack_idx, k) THEN ptr ELSE pm_stack[s]]
PushRun(ptr, k) ==
  [s \in DOMAIN pm_stack |-> IF s \in Pages(pm_stack_idx, k)
                              THEN ptr + (s - pm_stack_idx)
                              ELSE pm_stack[s]]

(* pmm_free_pages(ptr, n): a failed ASSERT halts the CPU (hcf).  The loop  *)
(* pushes until the array is full; if it fills up early the function       *)
(* returns at once and both counters stay behind.                          *)
pmm_free_pages(ptr, n) ==
  LET room   == pm_total_pages - pm_stack_idx
      pushed == IF n <= room THEN n ELSE room
  IN /\ phase = "ready"
     /\ IF ptr # NULL /\ n > 0
        THEN /\ pm_stack' = PushRun(ptr, pushed)
             /\ pm_stack_idx' = pm_stack_idx + pushed
             /\ IF pushed = n
                THEN /\ pm_free_pages' = pm_free_pages + n
                     /\ pm_used_pages' = pm_used_pages - n
                ELSE UNCHANGED <<pm_free_pages, pm_used_pages>>
             /\ UNCHANGED phase
        ELSE /\ phase' = "halted"
             /\ UNCHANGED <<pm_stack, pmm_counts>>
     /\ UNCHANGED <<pmm_memory, pmm_loops>>

-----------------------------------------------------------------------------
(* Reading the state: the free pages, the pages under the array itself,    *)
(* and the pages that the boot map declared usable.                        *)
FreeSlots == 0 .. pm_stack_idx - 1

FreePages == {pm_stack[s] : s \in FreeSlots}

StackPages == IF pm_stack_base = NULL THEN {} ELSE Pages(pm_stack_base, pm_stack_size)

EntryPages(map, a) == Pages(map[a].base, map[a].length)

UsablePages(map) == UNION {EntryPages(map, a) : a \in {b \in DOMAIN map : IsUsable(map[b])}}

=============================================================================
