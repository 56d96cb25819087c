# Olive kernel: TLA+ models, model checking and proofs

Olive is a small x86_64 kernel in C (`src/olive`), booted by Limine. This directory holds TLA+
modules of its boot, memory management, console and interrupt path, TLC configurations that check
them, and TLAPS proofs about the page allocator, the page tables, the heap, the boot, the console and
the interrupt path. Paths below are relative to `src/olive/`.

`PROJECT.json` lists the runs, the theorems, the hazards and, definition by definition, the lines of
the source that each definition models.

## 1. The system

Everything runs in ring 0 on the CPU that Limine starts. `olive_entry` (`src/olive.c`) sets up the
screen, the GDT and the IDT, then calls `pmm_init`, `vmm_init`, tries `kmalloc` once and halts. There
is no scheduler yet, but the code is written for more than one CPU: `vmm.c`, `printf.c` and
`liballoc_wrappers.c` each guard their state with a spinlock, and interrupts can come at any time.

| component | state | operations | talks to |
|---|---|---|---|
| Physical memory, `src/mm/pmm.c` | the array `pm_stack` of free pages, its index, three counters, the boot map `_memmap` that it shortens | `pmm_init`, `pmm_request_pages`, `pmm_free_pages` | called by vmm and the heap hooks; `_memmap` and `_hhdm_offset` are read by `vmm.c` and the hooks |
| Page tables, `src/mm/vmm.c` | `_kernel_pm.pml4`, the tables in memory, `map_lock` | `vmm_map`, `vmm_unmap`, `virt2phys` | takes tables from and frees frames to pmm |
| Kernel page map, `vmm_init` | the direct map, the image's mappings, CR3 | `vmm_init` | reads the map that `pmm_init` shortened, calls `vmm_map` |
| Heap, `src/mm/liballoc/liballoc.c` | the list of majors, the lists of blocks in them, `l_bestBet`, counters, a lock | `kmalloc`, `kfree`, `kcalloc`, `krealloc` | the hooks |
| Heap hooks, `src/mm/liballoc/liballoc_wrappers.c` | the spinlock | `liballoc_alloc`, `liballoc_free`, `liballoc_lock`, `liballoc_unlock` | pmm, `_hhdm_offset` |
| Console, `src/lib/printf.c` | `printf_lock`, what COM1 and the screen were sent | `printf`, `puts`, `putchar` | called by everything, from interrupts too |
| Boot, `src/olive.c` | the bootloader's responses, the terminal | `olive_entry` | every other component, once |
| Interrupts, `src/sys/idt.c`, `src/sys/idt.asm` | the stack, the registers, `irq_handlers` | the stubs, `idt_handler`, `_backtrace`, `idt_irq_register`, `idt_irq_deregister` | prints, calls registered handlers, halts |
| Spinlock, `include/lib/stdlock.h` | one flag | acquire, release | vmm, heap, console |
| GDT, serial port, cpuid, string functions, nanoprintf, log macros | constant tables, ports, none | | |

What is hard in it:

- pages change hands over long sequences of grants and releases between three components with three
  views of an address (physical page, direct-map address, virtual page);
- `vmm_map` can run out of memory on any level, and cannot say so; `virt2phys` walks the tables
  without the lock; `vmm_unmap` frees a frame before it clears the entry;
- liballoc's search keeps pointers into lists that other calls change, and `krealloc` gives up the
  lock in its middle;
- locks are not reentrant and interrupts are not disabled around them;
- `pmm.c` has no lock of its own and is entered under those of its callers;
- `vmm_init` replaces the page map that the kernel runs on, out of a memory map that `pmm_init`
  changed, and what it left out is found by a page fault, whose handler may be left out too;
- the stack layout of an interrupt is written down four times, in two languages.

## 2. The modules

| module | models | notes |
|---|---|---|
| `PMM` | `pmm.c` | `pmm_init` one loop iteration per action; the exported functions are action operators |
| `PMMClients` | callers of `PMM` that give back what they were given | properties of the page allocator |
| `PageAllocator` | what a page allocator promises | abstract; `PMMClients` implements it |
| `PMMSteps` | `pmm.c` statement by statement, for callers under locks | implements `PMMClients` |
| `PMMProofs` | theorems about `PMMClients` | section 5 |
| `PMMStepsProofs` | theorems about `PMMSteps` | over `PMMProofs`, section 5 |
| `VMM` | `vmm_map`, `vmm_unmap`, `virt2phys` over `PMM` | one action per access to shared memory |
| `AddressSpace` | one map, and calls that act on it at one moment each | abstract; `VMM` implements it |
| `VMMProofs` | theorems about `VMM` | section 5 |
| `BootMap` | `vmm_init` over `PMM` | one action per call of `vmm_map`; a part of `Boot` |
| `Boot` | `olive_entry` over `BootMap`, and the page faults on the map that it built | the composition of the boot |
| `BootProofs` | theorems about `Boot` | section 5 |
| `Liballoc` | the heap, its page source a parameter | the search one loop iteration per action |
| `HeapClients` | `Liballoc` over the page source that liballoc.c relies on | properties of the heap |
| `HeapRegions` | a set of disjoint, aligned regions | abstract; `HeapClients` implements it |
| `HeapProofs` | theorems about `HeapClients` | section 5 |
| `OliveHeap` | `Liballoc` over the kernel's hooks and `PMM` | the composition that runs in the kernel |
| `Console` | `printf`, `puts`, `putchar`, interrupts on top | one action per device write and lock operation |
| `ConsoleProofs` | theorems about `Console` | section 5 |
| `Idt` | gates, stubs, `idt_handler`, `_backtrace`, return | the stack word by word |
| `IdtProofs` | theorems about `Idt` | section 5 |
| `MCPMM`, `MCPMMSteps`, `MCVMM`, `MCBoot`, `MCLiballoc`, `MCOliveHeap`, `MCConsole`, `MCIdt` | values of the constants for TLC | |

A definition whose name starts with `Bad` is a faulty variant of the one behind it. No specification
uses it. It documents a slip that the property named with it in `PROJECT.json` notices: put in the
place of the right definition, it makes TLC report a violation.

### How state and actions correspond to the code

**PMM.** An address is a page number (`PAGE_SIZE` is 1, NULL is page 0). Variables have the names of
the C variables; `ent` and `off` are the loop variables of `pmm_init`, `bootmap` remembers the map
before the array was carved. Loop 1 is `CountEntry`/`CountDone`, loop 2 `PlaceStack`/`SkipEntry`/
`NoPlace`, loop 3 `PushPage`/`NextEntry`/`PushDone`. With no entry large enough `pm_stack` stays NULL
and the first push is the state `fault`; a failed ASSERT is `halted`. `pmm_free_pages` pushes page by
page and leaves early when the array is full, before the counters. The three counters are integers,
so that wrapping below 0 is visible as a negative number.

**PMMSteps.** `pc` names the statement that a caller is about to run; a caller takes its lock, makes
the call, and releases it, as `vmm_map` does with `map_lock` and `liballoc.c` with the lock of its hooks.
The locals `pages`, `ptr` and `i` are kept per caller. The refinement mapping to `PMMClients` shows a
call in progress in the state at its end, so a call is one step for everyone else.

**VMM.** A virtual page is the tuple of its four indices. `memory` maps a physical page to its
entries; a page that comes from pmm is `Dirty` until `ZeroTable` ran. A call goes through `acquire`,
`walk` (one `Descend`, `Missing` or `RequestTable` per level), `zero` and `link` for a new table, the
last level (`WriteEntry`, `FreeFrame`, `ClearEntry`, `ReadEntry`) and `release`. The callers take
their frames from pmm, own disjoint virtual pages, and look whether `vmm_map` took effect. A call keeps
its arguments (`call`: the operation, the page, `free_phys`, the entry) from begin to return, and `answer`
is what it found, from the moment it acts: an entry, or that nothing is there. `AddressSpace` shows the same
`call` and `answer`, so that what it promises is tied to both: `Map` writes the entry of the call to the page
of the call, `Nothing` is a step of its own that needs the page to be unmapped at that moment, and only
`vmm_map` may return without having acted.

**BootMap.** Nothing runs beside `vmm_init`, so a call of `vmm_map` is one step, with the tables it
needs taken from pmm from the top down as far as they go. The windows of framebuffers and
reclaimable entries run to the entry's *end* instead of its length, as in the code. An entry is the pages
that it touches. Limine aligns usable and reclaimable entries to pages; a framebuffer may begin anywhere in
its first page (`Unaligned`), and then `FirstPage` is the next one, which is the `ALIGN_UP` of `vmm.c:106`.

**Boot.** `at` walks through `olive_entry` in its order; each check that fails is `halted`. `pmm_init` and
`vmm_init` run step by step inside. Once CR3 holds the new map, `Runs` says whether the code that is next
finds what it reads and writes: the image up to `__data_end`, the objects of `.bss` that the linker put
into that page (`mapped`, any subset), the stack, the array of pmm through the direct map, and the pages of
the framebuffer that its lines are drawn on (`drawn`, any subset that is not empty). If not, `Fault` is the page
fault: reported, if the handler's own needs are met, and `lost` otherwise. `idt_load` sets the interrupt flag, so
from `IdtInit` on an interrupt may come before any step. One that returns leaves this state as it is (run
`idt_frames`); one that does not return is `Interrupt`, and the boot ends at `interrupted`: it is fatal, it
hit a `putchar` and spins (run `console_irq`), or its handler is out of reach.

**Liballoc.** Headers are kept by address, with the real sizes (headers of 40 bytes, alignment 16,
pages of 4096, majors of 16 pages). The five cases of `kmalloc` are `VisitMajor` (1), `Place` (2, 3),
`VisitMinor` (4) and `NextMajor` (5); `Grow` is the call of `allocate_new_page` in cases 1 and 5.
Headers of freed blocks stay legible until something is written over them, which is what a second
`kfree` of a pointer looks at. `krealloc` is `Realloc`, its own `kmalloc`, `Copy` and `Drop`, with the
lock free in between.

**OliveHeap.** `Liballoc` with its page source replaced by the hooks over `PMM`. Whether a new major's header
can be written is read off `DirectMap`, which is the direct map that a `vmm_init` with enough pages leaves. What
the tables of that map cost, and that the array of pmm may itself be out of reach, do not matter for the one
question the run asks; `Boot` has both.

**Console.** A CPU has a stack of calls, an interrupt pushes one. The critical section of `putchar` is
`Acquire`, `WriteCom1`, `WriteScreen`, `Release`; `puts` takes the lock around it.

**Idt.** A word on the stack is a register paired with the level of the code it belongs to, so "the
right word in the right field" is decided by equality. Gates are interrupt gates (IF is cleared); a
handler or compiled code clobbers the registers that the calling convention lets it clobber. A chain of
frames is a length and what stands at its end: NULL, an unmapped address, or a frame that points back
into the chain; the frames of a handler stand in front of those of the code it interrupted. Everything that
prints may hold `printf_lock` (`TakeLock`, `DropLock`: one `putchar`), and gets past a place that prints only when
nobody holds it. `Deliver` brings an exception to the main thread, to `idt_handler`, to a registered handler, to
`_backtrace` and to the place before `popaq`, inside of a `putchar` or not: an exception that comes inside one finds
the lock taken by the code it interrupted and spins (`CaughtInPutchar`). The stub is one step, with its own `cli`;
an NMI between its pushes is left out.

## 3. The runs

| run | instance | checks | shows |
|---|---|---|---|
| `pmm_single` | 3 clients, 6 memory maps, 4 slots to a page, requests of 0 and 1 pages | `TypeOK Partition ArrayIsReserved BootFailsOnlyOnFragments Accounting AssertsHold ImplementsPageAllocator` | no page is lost or granted twice; the array is usable memory that nobody else sees; counters exact; no ASSERT of `pmm.c` fails |
| `pmm_steps` | 2 callers of one lock, requests of 0 to 3 pages | `CountersAtRest ImplementsPMMClients` | the locked calls are single steps; counters and stack index agree between them, hence the overflow return is never taken |
| `pmm_runs` | 1 and 2 pages mixed | `GrantsAreRuns` violated | section 6 |
| `vmm_tables` | 2 threads, 6 pages, 2 virtual pages that share only the PML4 and a PDPT | `TypeOK TablesFormATree WalksStayOnTables NoPageLost MappingsAreOwned TablesOnlyGrow ImplementsAddressSpace LockIsReleased` | each call acts on one flat map, at one moment and with its own arguments, although walks, out-of-memory and lock-free lookups interleave |
| `heap_blocks` | 1 caller, 3 places for majors, requests of a third of a major to the last byte, of a header's size more, and of one byte more than a whole major | `TypeOK MajorsFormAList BlocksAreInOrder GrowsOnlyWhenFull LockIsReleased` | lists, links and best bet stay exact over any order of kmalloc, kcalloc, krealloc and kfree; searches end |
| `heap_threads` | 2 callers, 2 places, thirds and two thirds of a major, pointers freed twice | `OwnersHaveTheirBlocks CopyStaysInside CountersAreExact ImplementsHeapRegions` | counters stay exact; owners keep their blocks across krealloc's gap in the lock; regions never overlap |
| `heap_release` | boot over 17 or 33 pages, kmalloc(1), kfree | `FreedPagesArePhysical` violated | section 6 |
| `boot` | 36 memory maps, each response missing in turn, every placement of `.bss`, an interrupt that stops the boot anywhere behind `idt_load` | `TypeOK EntriesKeepTheirFlags TablesArePaidFor BootsExactlyWhenItCan LostOnlyOnOwnMap BootEnds` | windows that run over other entries do no lasting harm; every page taken is a table; which memory maps and placements the kernel comes up on; no fault is lost before CR3 is loaded |
| `console_print` | 2 CPUs, 5 texts, or a puts, one interrupt each | `TypeOK SinksAgree OutputIsComplete CallsReturn` | serial port and screen agree, nothing is lost; a call fails to return only if a CPU waits for itself |
| `console_irq` | 1 CPU, one interrupt | `InterruptsAreIgnored` violated | section 6 |
| `idt_frames` | 6 vectors (with and without error code, fatal or not, two IRQs, one without a gate), 3 deep, 4 chains of frames, each level in a `putchar` or not | `FrameIsTrue NoWildCall ContextIsRestored FatalHalts` | the frame is what happened; interrupted code goes on with its own registers and stack; a fatal exception reaches `hcf`, unless an exception came inside a `putchar` |
| `idt_errors` | vectors 21 and 29 | `ErrorCodeIsInFrame` violated | section 6 |

### Bounds, and why they are enough

- *PMM.* The maps hold the cases that `pmm_init` tells apart: one region, the array in the upper or in
  a lower one, a region that it uses up exactly, no usable page, more fragments than a page has slots.
  Four slots to a page make arrays of one and two pages out of a handful of pages. `pmm_steps` has
  two maps with arrays of two pages, in the upper and in the lower region. With mixed sizes the pages on the
  stack can drift upwards without end (section 6), so `PagesBounded` cuts off page numbers above its
  bound; the counters do not depend on them.
- *VMM.* Six pages are enough for the tables of one mapping and not for those of both, so every level
  is a place where memory runs out. Two indices to a table give siblings on every level. `LiveView`
  leaves the slots above `pm_stack_idx` out of the fingerprint: they are always written before they
  are read, so states that differ only there have the same futures.
- *Heap.* Sizes are real, requests are chosen at the edges: three thirds fill a major to the last byte.
  Three majors are needed for a middle one to be given back, three or two blocks per caller
  (`MaxBlocks`) for gaps in front of, between and behind blocks. `heap_threads` uses symmetry of the
  two callers, and checks safety only. `Products`, the sizes
  asked of `kcalloc`, is one of the requests: `kcalloc` differs from `kmalloc` only when it gets NULL.
- *Boot.* Tables of 8 entries, the direct map at page 512 and the image at 1024 keep the regions in
  different tables, as in the kernel; `l_pageCount` is 2 instead of 16, so that a major is a run of more
  than one page. Of the maps, `Roomy` have memory to spare, with the framebuffer below or above it;
  in `Edge` memory lasts for tables and a major or just not, under windows that reach over the array;
  in `Tight` it runs out somewhere on the way; `Fragments` has no entry that holds the array. `Skewed` are the
  framebuffers that begin inside a page: one whose first page nothing else maps, and one whose first page the
  window of a lower entry happens to map, so that the kernel comes up.
- *Console.* A buffer of 3 characters, so that one text does not fit. One interrupt per CPU: they do
  not nest. *Idt.* `MaxLevel` 3 is an exception in an interrupt in an exception. The chains of frames
  are two sound ones, one that ends in an unmapped address, and one that goes around.

### Fairness

- `BootEnds`: weak fairness of `olive_entry`. One CPU runs it, and an interrupt that returns gives the CPU
  back. One that does not is no obstacle to be assumed away but the end `interrupted`, under no fairness.
- `FatalHalts`: level by level, strong fairness of the CPU's and the handler's steps (`Advance`) and of the
  release in `putchar` (`DropLock`): exceptions may interrupt a handler, and it takes the lock for each of its
  characters, but the code of one call and what it prints are finite, so neither can keep it at one place for ever.
  Nothing is assumed of a handler that waits for the lock of the code it interrupted: `FatalHalts` says that
  this is the only way, other than a bad chain of frames, for a fatal exception not to reach `hcf`.
- `LockIsReleased` (VMM): weak fairness of the steps of a call that has begun. A CPU
  in `vmm_map` keeps running; nothing preempts it for good. A thread that spins gets no promise to
  acquire the lock.
- `LockIsReleased` (heap): weak fairness of the search's steps; only the lock's holder has any.
- `CallsReturn`, `InterruptsAreIgnored`: weak fairness of each CPU's steps. Interrupts are under no
  fairness at all. Each CPU prints finitely often, so a CPU that spins cannot be overtaken for ever.

`CHECK_DEADLOCK FALSE` stands where the system really stops: after a fault or a halt, or when the
boot or the printed program is over.

## 4. What the properties say together

- *Pages.* `Partition` (pmm), `NoPageLost` (vmm) and `TablesArePaidFor` (vmm_init) account for every
  usable page on each level. `Accounting` ties the counters to it.
- *From statements to promises.* `PMMSteps` implements `PMMClients`, which implements `PageAllocator`:
  under one lock, the statements of `pmm.c` are an allocator whose grants are disjoint.
- *The boot.* `BootsExactlyWhenItCan` is the kernel's dependence on its surroundings in one formula:
  `CanBoot` reads from the memory map, the linker's layout and the lines drawn alone whether a boot that no
  interrupt stops reaches its `hlt`.
- *Memory as seen by callers.* `ImplementsAddressSpace` and `ImplementsHeapRegions` let a caller think
  of one flat map and of disjoint regions; the answer that a page is not mapped is checked like any other.
- *Structure.* `TablesFormATree`, `WalksStayOnTables`, `TablesOnlyGrow`; `MajorsFormAList`,
  `BlocksAreInOrder`, `CountersAreExact` are what the code's own walks rely on.
- *Locks.* `LockIsReleased`, `CallsReturn`.

## 5. What is proved

The proofs about the page allocator are about `PMMClients!Spec`, or `PageAllocator!Spec`, for every set of
memory maps that satisfies `MemMapsAssumption` (usable entries do not overlap others and never hold
page 0, which is what the Limine protocol promises), every `EntriesPerPage` above 0 and every finite set
of clients. Those about `PMMSteps!Spec` are for the same constants and callers that share one lock
(`OneLock`), each at any statement of `pmm.c`. This hypothesis is necessary: with two locks TLC finds two
callers that take the same slot (section 7).

Those about `Boot!Spec` are for every memory map, image and direct-map offset that the assumptions of
`BootMap` allow, every set of responses and placement of `.bss`. Those about the page map use that the
entries are sorted and that nothing reaches into a usable or reclaimable one (`SortedAssumption`, from
the Limine protocol; where in its page a framebuffer begins is not restricted, `Unaligned` is any set),
and that physical addresses, the direct map of the entries and the image lie in
this order (`DirectMapAssumption`: 0xffff800000000000 and 0xffffffff80000000 are far apart).
`BootBootsExactlyWhenItCan` also uses that the segments lie in the linker script's order
(`ImageAssumption`), and that no mapped entry is at page 0 (`NullAssumption`): a window at page 0 would map
the direct-map address of NULL, and the kernel would get past a failed allocation of its heap. Both came out
of the proof; on the memory maps of the run they hold.

Those about `Console!Spec` are for every number of CPUs and interrupts, every program and every size of
the buffer. Those about `VMM!Spec` are for every set of threads, every width of a table and set of
virtual pages, and every memory map, so that a request may fail at any level of any walk. They assume
what `VMM` assumes: that no two threads map the same virtual page (`OwnAssumption`), and that `Nobody`
is no thread.

Those about `HeapClients!Spec` are for every set of callers, every request in bytes, every size of the
headers, the alignment and the page that is not 0, and every answer of the page source that keeps to
what `liballoc.c` expects of it: pages that are aligned and not in use, or NULL at any time.

Those about `Idt!Spec` are for every depth of interrupts in interrupts, every set of handlers and every
chain of frame pointers, and every set of vectors without 21 and 29. This hypothesis is necessary: the
stubs of these two take the error code that the CPU pushed for something else, and run `idt_errors`
shows that the frame is off by a word.

| theorem | assumption | says |
|---|---|---|
| `PMMTypeOK` | any request sizes | `Spec => []TypeOK` |
| `PMMArrayIsReserved` | any request sizes | `Spec => []ArrayIsReserved` |
| `PMMBootFailsOnlyOnFragments` | any request sizes | `Spec => []BootFailsOnlyOnFragments` |
| `PMMPartition` | requests of 0 or 1 page | `Spec => []Partition` |
| `PMMAccounting` | any request sizes | `Spec => []Accounting` |
| `PMMAssertsHold` | any request sizes | `Spec => []AssertsHold` |
| `PMMImplementsPageAllocator` | requests of 0 or 1 page | `Spec => ImplementsPageAllocator` |
| `PageAllocatorExclusive` | any request sizes | grants of the abstract allocator are disjoint from the pool and from each other |
| `PMMStepsImplementClients` | callers of one lock | `Spec => ImplementsPMMClients` |
| `PMMStepsCount` | callers of one lock | `Spec => []CountersAtRest` |
| `PMMStepsPartition` | callers of one lock, requests of 0 or 1 page | `Spec => []Partition`, read of the state between calls |
| `BootLostOnlyOnOwnMap` | none | `Spec => []LostOnlyOnOwnMap` |
| `BootTablesArePaidFor` | none | `Spec => []TablesArePaidFor` |
| `BootTypeOK` | none | `Spec => []TypeOK`, the types of the page map |
| `BootEntriesKeepTheirFlags` | none | `Spec => []EntriesKeepTheirFlags`, for aligned and unaligned framebuffers |
| `BootBootsExactlyWhenItCan` | none | `Spec => []BootsExactlyWhenItCan`, interrupts that stop the boot included in `Spec` |
| `VMMTypeOK` | none | `Spec => []TypeOK` |
| `VMMWalksStayOnTables` | none | `Spec => []WalksStayOnTables` |
| `VMMMappingsAreOwned` | none | `Spec => []MappingsAreOwned` |
| `VMMTablesFormATree` | none | `Spec => []TablesFormATree` |
| `VMMNoPageLost` | none | `Spec => []NoPageLost` |
| `VMMTablesOnlyGrow` | none | `Spec => TablesOnlyGrow` |
| `VMMImplementsAddressSpace` | none | `Spec => ImplementsAddressSpace`, the calls' arguments and answers included |
| `HeapTypeOK` | none | `Spec => []TypeOK` |
| `HeapMajorsFormAList` | none | `Spec => []MajorsFormAList` |
| `HeapBlocksAreInOrder` | none | `Spec => []BlocksAreInOrder` |
| `HeapOwnersHaveTheirBlocks` | none | `Spec => []OwnersHaveTheirBlocks` |
| `HeapCopyStaysInside` | none | `Spec => []CopyStaysInside` |
| `HeapCountersAreExact` | none | `Spec => []CountersAreExact` |
| `HeapGrowsOnlyWhenFull` | none | `Spec => GrowsOnlyWhenFull` |
| `HeapImplementsHeapRegions` | none | `Spec => ImplementsHeapRegions` |
| `HeapRegionsLieApart` | none | `Spec => []RegionsApart`: the regions in use never overlap |
| `ConsoleTypeOK` | none | `Spec => []TypeOK` |
| `ConsoleSinksAgree` | none | `Spec => []SinksAgree` |
| `ConsoleOutputIsComplete` | none | `Spec => []OutputIsComplete` |
| `IdtFrameIsTrue` | vectors without 21 and 29 | `Spec => []FrameIsTrue` |
| `IdtNoWildCall` | vectors without 21 and 29 | `Spec => []NoWildCall` |
| `IdtContextIsRestored` | vectors without 21 and 29 | `Spec => ContextIsRestored` |

*Types.* `TypeOK` says that the index never leaves the array, and it is not inductive alone: the stores
of loop 3 and of `pmm_free_pages` need that nothing is on the stack before the array has its place
(`BeforePlace`), where the loops stand (`LoopBounds`), and that no client has a grant without an array
(`NoArrayNoGrant`). `TypeInv` is their conjunction.

*The array.* `Carved` remembers the entry that the array was cut out of, `NotCarved` that the map is
untouched before. Lemma `CarvedPages` turns that into sets: the pages of the shortened map are those of
the boot map without the array's.

*Partition.* `PageInv` adds `Pushing` (while loop 3 runs, the stack holds exactly the pages of the
entries and offsets behind the loop, each once), `OnePage` (a grant is one page and not NULL) and `Room`
(the live slots and the grants together fit the array, so `pmm_free_pages` never takes its overflow
return). `PushOne` and `PopOne` say what one push and one pop do to the set of free pages. There is one
lemma per action; the refinement theorem reads the abstract step off the same invariant. The
restriction to single pages is necessary: run `pmm_runs` shows that grants overlap free pages without it.

*Counting.* `BootFailsOnlyOnFragments` needs arithmetic about the whole map: `CountInv` ties loop 1's
total to the cardinality of the pages it has seen, and bounds it by the number of usable entries times
their length; `PlaceInv` says that loop 2 passed only entries that are too small; so if it finds none,
there were more entries than a page has slots. `EndInv` rules out the overflow return of `pmm_init`.
`CounterInv` needs `PageInv` while `pmm_init` runs; from then on `Accounting` is inductive by itself. What the clients hold together is not a sum, which would
need induction, but the cardinality of the union of `PagesOf(c)`: the lemmas about finite unions say how
one grant and one return change it, so `PMMAccounting` holds for requests of any size.

*Asserts.* `AssertsHold` is not about counting: `pmm_free_pages` halts when it is given page 0, and pages
of mixed grants drift (section 6). `ValidInv` says that no live slot and no grant is NULL. A grant of n
pages is named by the page in the lowest of its slots, so a return of n pages pushes that page and those
above it, all of them above 0.

*Statement by statement.* `StepInv` has two halves. `CallInv` is about the callers: at most one of them is
inside of `pmm.c` (the lock), and what its locals, the index and the counters are at each statement. The
other half is the invariants of `PMMProofs`, `CounterInv` and `ValidInv`, read of the state that the
refinement mapping shows (`Proofs`, an INSTANCE of that module with the end of the call in progress for the variables). So
what is proved of whole calls is used of calls in progress: the grants and the live slots fit the array,
hence the store of each iteration stays inside and the early return of `pmm_free_pages` is not taken. Of
the statements of a call, the one that commits it is the step of `PMMClients`; all others leave the
shown state as it is.

*Boot.* `FaultInv` is the order of `olive_entry`: whatever stands behind `idt_init` has both tables
loaded, so a fault is reported as long as the bootloader's map is there. `TableInv` follows
`pm_used_pages` from the call of `vmm_init` on: each table of `WithEntry` was granted, also when the path
to an entry breaks off half way. `MapInv` is about the entries themselves. `MapShape` says what
`pmm_init` does to the memory map (one usable entry gets shorter, once), so that the order of the entries
survives it. `EntryFlags` says of every page that the loops have passed (`Covered`) that it has the flags of
its own entry, as long as nothing was logged; lemma `LaterWindowsSpare` is why: the window behind a
framebuffer or reclaimable entry starts above all earlier entries of another kind, so what it maps wrongly
belongs to a later entry, whose turn is still to come. Each entry is read from `FirstPage` on: usable and
reclaimable ones have no page in front of it (`FirstPageIs`), so only a framebuffer can lose one.

*When the boot succeeds.* `CanBoot` is read off the memory map alone, so the invariant has to say what each
part of the boot leaves of it. `Setup` carries the invariant of `PMMProofs` through `pmm_init` (an
INSTANCE without clients) and, with `Placed` (the array came out of the highest entry that holds it), turns it into
`Arranged` and `Ready`: where the array is, and how many pages are on the stack. `Extent` follows `vmm_init`: the
pages mapped and the tables linked are among those that `CanBoot` counts (`Limits`); what the loops have passed
is mapped as long as nothing was logged (`EntriesShown`, `ImageShown`); and once something was logged
the stack is empty and `PagesLeft` is negative, because the path that could not be finished and the tables
there are were needed anyway (`MapWithin`). So at the end the tables are exactly `TablesNeeded`, or memory was too
small for them (`Left`). `Checked` and `Given` say what `olive_entry` has seen at each place. Then `CanBootRuns` shows that
a boot that can succeed never faults, and `KfreeCanBoot` that one that comes through kfree could:
of the slots of `pm_stack` that kfree writes, only those in the window of another entry are mapped
(`SlotsAreInArray`), and page NULL is not (`NotAtNull`). A page of a framebuffer that is mapped at all is
mapped through some window (`FramebufferPages`), so a boot that has printed its line had `drawn` below the windows
(`Seen`), as `CanBoot` asks. `Interrupt`
disturbs no part of the invariant but the place.

*Page tables.* Everything about `VMM` follows from one invariant, `TableInv` (theorem `VMMTables`). It
does not look at the tables level by level but along the walks: `Node(v, d)` is the table on level `d` of
the walk to page `v`. `TreeInv` says that two walks meet only where their indices agree up to there, and
that every present entry lies on some walk. So one write to memory can be judged for all walks at once:
lemma `PageWrite` (the zeroing of a page that is no table yet), `LinkWrite` (a new table under an entry
that had none) and `LeafWrite` (an entry of the last level) say what it does to every `Node` and every
`Mapping`. They need that the page written is what the thread takes it for, which is what the other
parts are there for: `OwnerInv` (a page is free, a table, a table to be, the frame of one caller or of
one mapping, and only one of these), `CallInv` (where a call stands, and that the entry it found absent
still is), and `LockInv` (who is past `Acquire` in `vmm_map` or `vmm_unmap` holds `map_lock`, so nobody
else writes). `BootInv` is what this takes from `pmm.c`: no page is twice on the stack. There is one lemma
per action. The theorems about the tree, its growth and the step of `AddressSpace` read them off the same lemmas.
`AnswerInv` is what the refinement adds: a call has no answer before it has acted, and only a `vmm_map` that ran
out of memory returns without one. That "nothing is there" is true when it is answered is a matter of the walk: an
entry that is absent above the last level leaves no table for the page, hence `Mapping` of the call's page is empty.

`NoPageLost` needs more than `TableInv`, which lets a page disappear. `PoolInv` closes the account: when
loop 3 of `pmm_init` stands at some page, every page that it has seen is on the stack (the converse of
what `BootInv` says), and from then on a page that is not under the array is on the stack or `Used`, and
there are at most `pm_total_pages` of them. The last part is what `pmm_free_pages` needs: a page in use
and those on the stack are together no more than the array has slots (`RoomForUsed`), so the early return
with a full array is never taken and the page is not dropped. Then each step of `Next` moves at most one
page from one owner to another; the sum follows from `OwnerInv`, by which each page has one.

*Heap.* The inductive invariant is `HeapOK`. `HeapInv` is the shape of the heap: majors apart in memory
(`MajorsApart`) and on one list (`MajorsFormAList`), and in each the blocks on a list that agrees with their
addresses (`BlockInv`), each with its header in front of the pointer that the info byte leads back from
(`InfoInv`). `LockInv`, `WalkInv` and `CallInv` say where a search stands: that the major and the block
under it exist, that an empty major about to get its first block is large enough for it, and what
`krealloc` remembers from its first critical section. `OwnerInv` gives every block one owner, so that a
`kfree` cannot take a block away from under another caller's `krealloc`. A block is inserted into a gap only (`IsGap`): at the front of a
major, behind a block that has room behind it, or into an empty major. That the
majors are on one list is said in closure form: every set that holds the root and with a major the next
one holds all majors. `HeapImplementsHeapRegions` reads the steps of the abstract memory off the owners of
the blocks.

*The heap's counters.* `CountersAreExact` and `TypeOK` are about sums, which are stated with `SumFunction`
of the community modules. A sum over a finite set is unfolded by the element taken first, and that any
element may be taken first is proved by induction on the cardinality (`NatLessThanWellFounded` gives a
smallest counterexample; the library's induction theorems are not needed). From it follow the two facts about
intervals that the bounds rest on: disjoint blocks in a major are together no longer than the major
(`UsageFits`), and if no gap takes n bytes, neither does the room that is left when the gaps are
counted together (`GapsFit`). `GrowsOnlyWhenFull` also has to know what the search has looked at: `SearchInv` says
that each major from the root to where the search stands is `Full`, and each block in front of the
current one has too little behind it (`FullUpTo`); a major that is skipped for its `usage` is full by
`GapsFit`. `EmptyInv` says that a major without blocks belongs to a caller about to use it.

*Interrupts.* The inductive invariant is `IdtInv`. `StackInv` says what is on the stack: each finished
frame is 25 words above the frames below it, and holds what the CPU pushed (`CpuPart`), the error code or
the 0 for it (`ErrorPart`) and what the stub and the common part pushed (`StubPart`); the last one may
still be as the CPU left it, before the stub. The four orders that the code writes down separately (`pushaq`,
`popaq`, the fields of `interrupt_frame_t` and the list of registers) agree by `GeneralOrder`, `FieldOrder`
and `PushedOrder`. `NestInv` says that an interrupt gate turns interrupts off, so only the first level can
be an IRQ and everything above is an exception. `CallInv` says that whoever is about to call through the
table of handlers found its entry there and that nobody took it out since.

*Console.* `SinksAgree` follows from `SinkInv` (the two devices differ by at most the character of the
call that has written the first and not the second), which needs `LockInv`: at most one call of all CPUs
is between `Acquire` and `Release`, handlers on top of it included. `CallInv` bounds what a call sends.
`OutputInv` adds `FrameInv` (the call in progress is the next one of the CPU's program, with the text of that
call) and `OutputIsComplete` itself, which is inductive with it: what the screen shows of a CPU's program is the
set of the characters of the calls that are done and of those that the call in progress has sent, in their order.

Only model-checked: the five liveness properties (`BootEnds`, `FatalHalts`, `CallsReturn`, and `LockIsReleased`
of VMM and of the heap), since fairness needs ENABLED, which the prover does not handle. Every invariant and
every action property that a run checks, and every refinement, is proved.

## 6. Where the text of the code and its behaviour part

Shown by a run:

- `pmm_runs`, `src/mm/pmm.c:114`: a grant of n pages is the lowest of n slots; after releases in another
  order the pages in them are not neighbours, although the log line speaks of pages "starting at" an
  address and liballoc.c uses them as a run.
- `heap_release`, `src/mm/liballoc/liballoc_wrappers.c:43`: `liballoc_free` hands pmm the direct-map address, not the
  physical one that `liballoc_alloc` got; the `kfree` at the end of `olive_entry` puts sixteen such
  addresses on `pm_stack`.
- `console_irq`, `src/sys/idt.c:259`: an interrupt that is to be "ignored" waits for ever for
  `printf_lock` if it came while the same CPU was in `putchar`.
- `idt_errors`, `src/sys/idt.asm:116` and `:124`: the stubs of vectors 21 and 29 push a zero above the CPU's
  error code, so in the frame `err` is 0, `rip` is the error code, and `iretq` would return to it. `idt.c:214-220`
  would print `err` for them as the error code; but these two cases stand in the branch for fatal exceptions, and
  `exception_info` does not mark 21 and 29 as fatal, so the line itself is never printed.

Seen while modelling, and in the models, without a run of their own:

- `src/mm/liballoc/liballoc_wrappers.c:38`: the offset is added to NULL too, so that liballoc.c never sees
  the NULL it tests for at line 176 (`OliveHeap`: `Extend` goes to `fault`).
- `src/mm/vmm.c:207`: `vmm_map` is void; a caller that does not look can bring `vmm_unmap(free_phys)`
  to free NULL, which fails the ASSERT of `src/mm/pmm.c:124` with `map_lock` taken. Nothing in the
  kernel calls `vmm_unmap` yet, and the callers in `VMM` look.
- `src/mm/vmm.c:146`: `vmm_init` returns 0 also when `vmm_map` ran out of pages (`BootMap`: `logged`), and
  `olive_entry` goes on with the map as far as it got.
- `src/mm/vmm.c:106`: the loop over a framebuffer entry starts at `ALIGN_UP(base)`, so the first page of one that
  begins inside of it is not mapped, although line 92 logs "Mapping usable memory and framebuffer" (`BootMap`:
  `FirstPage`). A line drawn there after the load of CR3 is a page fault whose report draws there too: `CanBoot` asks
  that no line is, or that the window of another entry covers the page.
- `src/mm/vmm.c:97`: the array of pmm is in no usable entry any more when the direct map is built; it is
  mapped only where the window of another entry covers it (`CanBoot` has to ask for that).
- `src/mm/vmm.c:136`: the data segment is mapped up to `__data_end`, which `olive.ld:43` puts in front of
  `.bss`. What of `.bss` does not happen to lie in that page is unmapped after the load of CR3: a kernel
  whose `idt_entries` are among it does not report the fault that follows (`lost`).
- `src/sys/idt.c:135`: on a bad chain of frames `_backtrace` goes around, or faults inside of the handler
  of the fault, as deep as the stack lasts; `FatalHalts` speaks of sound chains only.
- `src/sys/idt.c:148` and `src/lib/printf.c:40`: a fatal exception that comes inside a `putchar`, of the main thread or of
  another handler's report, waits for a lock that is never released and does not reach `hcf` (`Idt`:
  `CaughtInPutchar`, named in `FatalHalts`).
- `src/sys/idt.c:123`: the branch "No stack trace available" needs a NULL `rbp` in `_backtrace` itself,
  which has just pushed its own frame.
- `src/lib/printf.c:57`: `puts` calls `putchar` with the lock taken that `putchar` takes (`Console`:
  `WaitsForItself`).
- `src/sys/idt.c:98`: vector 0x80 has no gate, so the branch at line 264 is never reached (`Idt`:
  `Interrupted`).

## 7. What is not modelled

- The bits of the five GDT descriptors, and `cpuid`: constants, and a read. That the GDT is loaded, and
  when, is part of `Boot`.
- Serial port: single port instructions; `outb` is the write to COM1 in `Console`.
- nanoprintf: vendored. Log macros and all formatting: no property is about them.
- String functions: pure and without state; where they matter (`memset` of a table, `memcpy` of
  `krealloc`) they are part of the step that calls them.
- TLBs and other CPUs' caches: `tlb_flush` only reloads the local CR3; the kernel starts one CPU.
- Callers of `pmm.c` under two different locks: `map_lock` and the heap's lock do not exclude each other,
  and with `LockOf` giving `PMMSteps` two locks `ImplementsPMMClients` is violated at once (two callers
  take the same slot). No text in the kernel promises otherwise, and only one CPU runs, so it is a note
  here and a hazard in `PROJECT.json`, not a run.
- liballoc's statistics, its recovery from half-overwritten magics, and 32-bit truncation of sizes.
- The layout of the Limine requests and the drawing on the framebuffer.

## 8. Plan

Done: the page allocator, whole calls and statement by statement, with its proofs; the page tables over
it with their proofs; the heap and its composition with the page allocator; the boot with the kernel's page map, and its
proofs; the console with its proofs; the interrupt path with the backtrace and its proofs; the proofs of
the heap, its counters included.

Left, to model:

1. `LiballocSizes`: `allocate_new_page` and `kcalloc` with their 32-bit widths, against unbounded ones.
2. `Strings`: memmove, memcmp and their relatives as operators, against reference definitions.

Left, to prove: nothing that a run checks and the prover can express. `LiballocSizes` would be the next
module with theorems about numbers.
