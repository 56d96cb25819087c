------------------------------- MODULE BootMap ------------------------------
(***************************************************************************)
(* vmm_init, olive/src/mm/vmm.c: the page map that the kernel builds after *)
(* pmm_init and then runs on. Addresses are page numbers, and an entry is  *)
(* the pages that it touches: of the kinds that are mapped here the Limine *)
(* protocol aligns the usable and the reclaimable ones to pages, but not   *)
(* the framebuffer. One action per call of vmm_map, which VMM.tla has step *)
(* by step: nothing runs beside vmm_init, so a call is one step here, and  *)
(* a page table is the pair of its level and of the address bits that lead *)
(* to it.                                                                  *)
(* Definitions named Bad are faulty variants, as in PMM.tla.               *)
(***************************************************************************)
EXTENDS PMM, FiniteSets

CONSTANTS
  Unaligned,     \* the pages in the middle of which a framebuffer begins
  Fanout,        \* entries of a page table: 512
  _hhdm_offset,  \* in pages
  kernel_virt, kernel_phys,
  text, rodata, data  \* the virtual pages of the image's segments, as intervals [from, to];
                      \* data ends where vmm_init does, at __data_end

ASSUME FanoutAssumption == Fanout \in Nat \ {0, 1}

ASSUME ImageAssumption ==
  /\ \A s \in {text, rodata, data} : s \in [from : Nat, to : Nat]
  /\ text.to < rodata.from /\ rodata.to < data.from /\ text.to < data.from

(* What the Limine protocol promises of the entries: they are sorted, and  *)
(* no other entry reaches into a usable or reclaimable one.                *)
ASSUME SortedAssumption ==
  \A map \in MemMaps : \A a, b \in DOMAIN map :
    a < b =>
      /\ map[a].base <= map[b].base
      /\ {map[a].type, map[b].type} \cap {"usable", "reclaimable"} # {} =>
           map[a].base + map[a].length <= map[b].base

(* Physical addresses, those of the windows of vmm_init included, are      *)
(* lower than those of the direct map, and the image lies above the part   *)
(* of the direct map that shows the entries.                               *)
ASSUME DirectMapAssumption ==
  /\ _hhdm_offset \in Nat
  /\ \A map \in MemMaps : \A a \in DOMAIN map :
       /\ 2 * map[a].base + map[a].length < _hhdm_offset
       /\ \A s \in {text, rodata, data} :
            _hhdm_offset + map[a].base + map[a].length <= s.from
  /\ kernel_virt \in Nat /\ kernel_phys \in Nat
  /\ \A s \in {text, rodata, data} : \A v \in s.from .. s.to :
       v - kernel_virt + kernel_phys \in 0 .. _hhdm_offset - 1

VARIABLES
  stage,    \* "root", "entries", the segment being mapped, "done" or "failed"
  i,        \* the loop variable over the entries of _memmap
  next,     \* the loop variable over the pages of an entry or a segment
  mapping,  \* the page map: virtual page -> physical page and flags
  tables,   \* its tables below the PML4
  logged    \* did vmm_map log that it found no memory?

map_vars == <<stage, i, next, mapping, tables, logged>>

MapInit ==
  /\ PMMInit
  /\ stage = "root"
  /\ i = 1
  /\ next = 0
  /\ mapping = <<>>
  /\ tables = {}
  /\ logged = FALSE

-----------------------------------------------------------------------------
CreateRoot ==
  /\ stage = "root"
  /\ pmm_request_pages(1)
  /\ stage' = IF CanGrant(1) THEN "entries" ELSE "failed"
  /\ UNCHANGED <<i, next, mapping, tables, logged>>

Path(v) == {<<1, v \div Fanout>>, <<2, v \div (Fanout * Fanout)>>,
            <<3, v \div (Fanout * Fanout * Fanout)>>}

(* The page map with an entry written. *)
WithEntry(v, p, flags) ==
  [w \in DOMAIN mapping \cup {v} |->
     IF w = v THEN [phys |-> p, flags |-> flags] ELSE mapping[w]]

(* vmm_map: the missing tables from the top down, as long as there are     *)
(* pages; then the entry, or a line in the log.                            *)
BadMapsAnyway(v, p, flags) ==
  LET missing == Path(v) \ tables
      k       == IF Cardinality(missing) <= pm_stack_idx
                 THEN Cardinality(missing) ELSE pm_stack_idx
  IN /\ pmm_request_pages(k)
     /\ tables' = tables \cup missing
     /\ mapping' = WithEntry(v, p, flags)
     /\ UNCHANGED logged

vmm_map(v, p, flags) ==
  LET missing == Path(v) \ tables
      n       == Cardinality(missing)
      k       == IF n <= pm_stack_idx THEN n ELSE pm_stack_idx
  IN /\ pmm_request_pages(k)
     /\ tables' = tables \cup
          {t \in missing : Cardinality({u \in missing : u[1] > t[1]}) < k}
     /\ mapping' = IF k = n THEN WithEntry(v, p, flags) ELSE mapping
     /\ logged' = (logged \/ k < n)

ReadWrite == {"present", "rw"}
Device    == {"present", "rw", "xd", "wt"}
Text      == {"present"}
Rodata    == {"present", "xd"}
Data      == {"present", "rw", "xd"}

(* The loops over an entry of the memory map.  A usable entry is mapped    *)
(* page by page.  For the other two kinds the bound of the loop is the     *)
(* entry's end where it means the entry's length, so the window runs on    *)
(* for `base` pages behind the entry.                                      *)
Window(e) == IF IsUsable(e) THEN e.length ELSE e.base + e.length

(* ALIGN_UP(base + off): the page in the middle of which a framebuffer     *)
(* begins is left out.                                                     *)
Skew(e) == IF e.type = "framebuffer" /\ e.base \in Unaligned THEN 1 ELSE 0

FirstPage(e) == e.base + Skew(e)

BadFlagsOf(e) == ReadWrite
FlagsOf(e) == IF e.type = "framebuffer" THEN Device ELSE ReadWrite

IsMapped(e) == e.type \in {"usable", "framebuffer", "reclaimable"}

MapPage ==
  LET e == memmap[i]
      p == FirstPage(e) + next
  IN /\ stage = "entries" /\ i <= Len(memmap)
     /\ IsMapped(e) /\ next < Window(e)
     /\ vmm_map(_hhdm_offset + p, p, FlagsOf(e))
     /\ next' = next + 1
     /\ UNCHANGED <<stage, i>>

EntryDone ==
  /\ stage = "entries" /\ i <= Len(memmap)
  /\ IsMapped(memmap[i]) => next >= Window(memmap[i])
  /\ i' = i + 1
  /\ next' = 0
  /\ UNCHANGED <<pmm_vars, stage, mapping, tables, logged>>

EntriesDone ==
  /\ stage = "entries" /\ i > Len(memmap)
  /\ stage' = "text"
  /\ next' = text.from
  /\ UNCHANGED <<pmm_vars, i, mapping, tables, logged>>

(* The loops over the segments of the image. *)
Segment ==
  CASE stage = "text"   -> [pages |-> text, flags |-> Text]
    [] stage = "rodata" -> [pages |-> rodata, flags |-> Rodata]
    [] stage = "data"   -> [pages |-> data, flags |-> Data]

BadImagePhys(v) == v
ImagePhys(v) == v - kernel_virt + kernel_phys

MapSegmentPage ==
  /\ stage \in {"text", "rodata", "data"}
  /\ next <= Segment.pages.to
  /\ vmm_map(next, ImagePhys(next), Segment.flags)
  /\ next' = next + 1
  /\ UNCHANGED <<stage, i>>

(* After the data segment CR3 is loaded, and vmm_init returns 0.           *)
SegmentDone ==
  /\ stage \in {"text", "rodata", "data"}
  /\ next > Segment.pages.to
  /\ stage' = CASE stage = "text" -> "rodata" [] stage = "rodata" -> "data"
                [] stage = "data" -> "done"
  /\ next' = CASE stage = "text" -> rodata.from [] stage = "rodata" -> data.from
               [] stage = "data" -> 0
  /\ UNCHANGED <<pmm_vars, i, mapping, tables, logged>>

vmm_init ==
  /\ phase = "ready"
  /\ \/ CreateRoot \/ MapPage \/ EntryDone \/ EntriesDone
     \/ MapSegmentPage \/ SegmentDone

-----------------------------------------------------------------------------
Maps(v, p, flags) ==
  v \in DOMAIN mapping /\ mapping[v] = [phys |-> p, flags |-> flags]

(* The types: what an entry of the map points to is a physical page, which *)
(* all lie below the direct map, never a virtual one.                      *)
TypeOK ==
  /\ stage \in {"root", "entries", "text", "rodata", "data", "done", "failed"}
  /\ \A v \in DOMAIN mapping :
       /\ mapping[v].phys \in 0 .. _hhdm_offset - 1
       /\ mapping[v].flags \in {ReadWrite, Device, Text, Rodata, Data}
  /\ tables \subseteq (1 .. 3) \X Nat
  /\ logged \in BOOLEAN

(* The windows of framebuffers and reclaimable entries run over whatever   *)
(* lies above them, later entries put that right: when nothing was logged, *)
(* the kernel starts on a map where every page of an entry is seen as its  *)
(* own entry's kind, but for the page in the middle of which a framebuffer *)
(* begins.  (Entries come sorted, as the Limine protocol says.)            *)
EntriesKeepTheirFlags ==
  stage = "done" /\ ~logged =>
    \A a \in DOMAIN memmap :
      IsMapped(memmap[a]) =>
        \A p \in EntryPages(memmap, a) :
          p >= FirstPage(memmap[a]) =>
            Maps(_hhdm_offset + p, p,
                 IF memmap[a].type = "framebuffer" THEN Device ELSE ReadWrite)

(* The image is mapped where the bootloader put it, and nothing of it is   *)
(* both writable and executable.                                           *)
ImageIsMapped ==
  /\ \A v \in text.from .. text.to : Maps(v, v - kernel_virt + kernel_phys, Text)
  /\ \A v \in rodata.from .. rodata.to : Maps(v, v - kernel_virt + kernel_phys, Rodata)
  /\ \A v \in data.from .. data.to : Maps(v, v - kernel_virt + kernel_phys, Data)

(* Every page that vmm_init took is the PML4 or a table of the map, and    *)
(* every entry of the map is behind tables that exist, also when memory    *)
(* ran out halfway down.                                                   *)
TablesArePaidFor ==
  stage \notin {"root", "failed", "done"} =>
    /\ pm_used_pages = 1 + Cardinality(tables)
    /\ \A v \in DOMAIN mapping : Path(v) \subseteq tables

=============================================================================
