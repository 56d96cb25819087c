-------------------------------- MODULE Boot --------------------------------
(***************************************************************************)
(* olive_entry, olive/src/olive.c: from the bootloader's hand-over to hlt, *)
(* with pmm_init and vmm_init step by step (PMM, BootMap), and with what   *)
(* the CPU can reach once CR3 holds the page map of vmm_init.              *)
(*                                                                         *)
(* That map has the image up to the page of __data_end.  The objects in    *)
(* .bss follow it: the linker decides which of them still lie in that      *)
(* page, and the others are not mapped any more.                           *)
(* Definitions named Bad are faulty variants, as in PMM.tla.               *)
(***************************************************************************)
EXTENDS BootMap, FiniteSetsExt

CONSTANT l_pageCount  \* the pages that liballoc.c asks for at least: 16

ASSUME PageCountAssumption == l_pageCount \in Nat \ {0}

(* No framebuffer and no page that the bootloader took for itself is at    *)
(* NULL: reclaimable memory was usable before, see MemMapsAssumption.      *)
ASSUME NullAssumption ==
  \A map \in MemMaps : \A a \in DOMAIN map :
    map[a].type \in {"framebuffer", "reclaimable"} => map[a].base > NULL

(* The requests of olive.c, with the base revision, and the terminal of    *)
(* flanterm_fb_init.  The framebuffer is answered when the memory map has  *)
(* one.                                                                    *)
Responses == {"base_revision", "terminal", "memmap", "hhdm", "kernel_address"}

(* What lies in .bss: gdt_entries and idt_entries, which the CPU reads at  *)
(* an exception; ft_ctx with printf_lock; the variables of liballoc.c; and *)
(* those of pmm.c.                                                         *)
Objects == {"idt", "console", "heap", "pages"}

VARIABLES
  at,        \* where olive_entry stands; "hlt", "halted" (hcf), "lost" and
             \* "interrupted" are its ends
  answered,  \* the responses that are there
  mapped,    \* the objects of .bss in the page of __data_end
  stack,     \* the page of the stack: the bootloader's, in a reclaimable entry
  drawn,     \* the pages of the framebuffer that the lines after vmm_init come to
  gdt, idt,  \* are the kernel's tables loaded?
  major      \* what liballoc_alloc returned, without _hhdm_offset

boot_vars == <<at, answered, mapped, stack, drawn, gdt, idt, major>>
vars == <<pmm_vars, map_vars, boot_vars>>

but_at == <<pmm_vars, map_vars, answered, mapped, stack, drawn, gdt, idt, major>>

PagesOfType(t) ==
  UNION {EntryPages(bootmap, a) : a \in {b \in DOMAIN bootmap : bootmap[b].type = t}}

Init ==
  /\ MapInit
  /\ at = "framebuffer"
  /\ answered \in {Responses} \cup {Responses \ {r} : r \in Responses}
  /\ mapped \in SUBSET Objects
  /\ stack \in PagesOfType("reclaimable")
  /\ drawn \in SUBSET PagesOfType("framebuffer")
  /\ drawn = {} => PagesOfType("framebuffer") = {}
  /\ gdt = FALSE
  /\ idt = FALSE
  /\ major = NULL

-----------------------------------------------------------------------------
(* A check of olive_entry: when it fails, a FATAL line and hcf.            *)
Check(here, ok, there) ==
  /\ at = here
  /\ at' = IF ok THEN there ELSE "halted"
  /\ UNCHANGED but_at

CheckFramebuffer ==
  Check("framebuffer",
        "base_revision" \in answered /\ PagesOfType("framebuffer") # {}, "terminal")

CheckTerminal      == Check("terminal", "terminal" \in answered, "gdt")
CheckMemmap        == Check("memmap", "memmap" \in answered, "hhdm")
CheckHhdm          == Check("hhdm", "hhdm" \in answered, "pmm")
CheckKernelAddress == Check("address", "kernel_address" \in answered, "vmm")

BadGdtInit ==
  /\ at = "gdt"
  /\ gdt' = TRUE
  /\ at' = "memmap"
  /\ UNCHANGED <<pmm_vars, map_vars, answered, mapped, stack, drawn, idt, major>>

(* gdt_init and gdt_flush load five constant descriptors and return 0.     *)
GdtInit ==
  /\ at = "gdt"
  /\ gdt' = TRUE
  /\ at' = "idt"
  /\ UNCHANGED <<pmm_vars, map_vars, answered, mapped, stack, drawn, idt, major>>

(* idt_init sets the gates of Idt.tla, loads them, sets the interrupt flag *)
(* and returns 0.                                                          *)
IdtInit ==
  /\ at = "idt"
  /\ idt' = TRUE
  /\ at' = "memmap"
  /\ UNCHANGED <<pmm_vars, map_vars, answered, mapped, stack, drawn, gdt, major>>

CallPmmInit ==
  /\ at = "pmm"
  /\ pmm_init
  /\ UNCHANGED <<map_vars, boot_vars>>

PmmInitReturns ==
  /\ phase \in {"ready", "failed"}
  /\ Check("pmm", phase = "ready", "address")

CallVmmInit ==
  /\ at = "vmm"
  /\ vmm_init
  /\ UNCHANGED boot_vars

VmmInitReturns ==
  /\ stage \in {"done", "failed"}
  /\ Check("vmm", stage = "done", "kmalloc")

-----------------------------------------------------------------------------
(* What the CPU reaches.  The bootloader's map has all of the image and of *)
(* the memory, but nothing at NULL.                                        *)
OnOwnMap == stage = "done"

DirectMapped(p) ==
  /\ _hhdm_offset + p \in DOMAIN mapping
  /\ "rw" \in mapping[_hhdm_offset + p].flags

Reaches(objects, pages) ==
  OnOwnMap =>
    /\ ImageIsMapped
    /\ objects \subseteq mapped
    /\ \A p \in pages \cup {stack} : DirectMapped(p)

(* The pages of pm_stack with the n slots from slot s on.                  *)
SlotPages(s, n) == {pm_stack_base + t \div EntriesPerPage : t \in Pages(s, n)}

(* The code that is next can run: what it reads and writes is mapped.      *)
Runs ==
  CASE at = "kmalloc" -> Reaches({"heap"}, {})
    [] at = "alloc"   -> IF CanGrant(l_pageCount)
                         THEN Reaches({"pages"}, SlotPages(pm_stack_idx - l_pageCount, 1))
                         ELSE Reaches({"pages", "console"}, drawn)
    [] at = "headers" -> Reaches({}, {major})
    [] at = "print"   -> Reaches({"console"}, drawn)
    [] at = "kfree"   -> Reaches({"heap", "pages"}, SlotPages(pm_stack_idx, l_pageCount))
    [] OTHER          -> ~(at = "pmm" /\ phase = "fault")

(* A page fault.  idt_handler prints it and calls hcf, if its gate, its    *)
(* stack and the console can be reached; if not, the fault of the fault    *)
(* ends in a triple fault, or faults without end.                          *)
Fault ==
  /\ ~Runs
  /\ at' = IF /\ gdt /\ idt
              /\ Reaches({"idt", "console"}, drawn)
           THEN "halted" ELSE "lost"
  /\ UNCHANGED but_at

-----------------------------------------------------------------------------
(* The test of the heap: kmalloc(1), a line on the console, kfree.         *)
Step(here, there) == at = here /\ Runs /\ at' = there

Kmalloc ==
  /\ Step("kmalloc", "alloc")
  /\ UNCHANGED but_at

(* liballoc_alloc: with no pages left it returns NULL + _hhdm_offset.      *)
LiballocAlloc ==
  /\ Step("alloc", "headers")
  /\ pmm_request_pages(l_pageCount)
  /\ major' = IF CanGrant(l_pageCount) THEN Granted(l_pageCount) ELSE NULL
  /\ UNCHANGED <<map_vars, answered, mapped, stack, drawn, gdt, idt>>

(* The headers of the major and of the block, and the byte of the test.    *)
WriteHeaders ==
  /\ Step("headers", "print")
  /\ UNCHANGED but_at

PrintInfo ==
  /\ Step("print", "kfree")
  /\ UNCHANGED but_at

(* The only block goes, and the major with it: at its direct-map address.  *)
Kfree ==
  /\ Step("kfree", "hlt")
  /\ pmm_free_pages(_hhdm_offset + major, l_pageCount)
  /\ UNCHANGED <<map_vars, answered, mapped, stack, drawn, gdt, idt, major>>

olive_entry ==
  \/ CheckFramebuffer \/ CheckTerminal \/ GdtInit \/ IdtInit
  \/ CheckMemmap \/ CheckHhdm \/ CallPmmInit \/ PmmInitReturns
  \/ CheckKernelAddress \/ CallVmmInit \/ VmmInitReturns
  \/ Kmalloc \/ LiballocAlloc \/ WriteHeaders \/ PrintInfo \/ Kfree
  \/ Fault

Ends == {"hlt", "halted", "lost", "interrupted"}

(* From idt_load on an interrupt may come at any time.  One that returns   *)
(* changes nothing here.  This is one that does not: it is fatal, or it    *)
(* hit a putchar and waits for the lock of the code it interrupted (see    *)
(* Console.tla), or its handler is out of reach on the map of vmm_init.    *)
Interrupt ==
  /\ idt
  /\ at \notin Ends
  /\ at' = "interrupted"
  /\ UNCHANGED but_at

Next == olive_entry \/ Interrupt

Spec == Init /\ [][Next]_vars

(* One thread, which gets the CPU back from an interrupt that returns. *)
FairSpec == Spec /\ WF_vars(olive_entry)

-----------------------------------------------------------------------------
(* When the boot succeeds, read off the memory map alone.                  *)
UsableCount == Cardinality(UsablePages(bootmap))

ArrayPages == (UsableCount + EntriesPerPage - 1) \div EntriesPerPage

Holders == {a \in DOMAIN bootmap : IsUsable(bootmap[a]) /\ bootmap[a].length >= ArrayPages}

ArrayBase == LET e == bootmap[Max(Holders)] IN e.base + e.length - ArrayPages

(* The framebuffer and reclaimable entries with the windows behind them.   *)
Windows ==
  UNION {Pages(FirstPage(bootmap[a]), bootmap[a].base + bootmap[a].length)
         : a \in {b \in DOMAIN bootmap : bootmap[b].type \in {"framebuffer", "reclaimable"}}}

DirectMap ==
  Windows \cup (UsablePages(bootmap) \ Pages(ArrayBase, ArrayPages))

TablesNeeded ==
  UNION {Path(v) : v \in {_hhdm_offset + p : p \in DirectMap}
                         \cup (text.from .. text.to) \cup (rodata.from .. rodata.to)
                         \cup (data.from .. data.to)}

PagesLeft == UsableCount - ArrayPages - 1 - Cardinality(TablesNeeded)

CanBoot ==
  /\ answered = Responses
  /\ PagesOfType("framebuffer") # {}
  /\ Holders # {}
  /\ PagesLeft >= l_pageCount
  /\ \A s \in Pages(PagesLeft - l_pageCount, l_pageCount) :
       ArrayBase + s \div EntriesPerPage \in Windows
  /\ Objects \ {"idt"} \subseteq mapped
  /\ drawn \subseteq Windows

(* The kernel comes to the hlt at the end of olive_entry when there is     *)
(* memory for all tables and one major, the objects of .bss happen to lie  *)
(* in the last page of .data, pm_stack, which is in no usable entry any    *)
(* more, happens to lie in the window of another entry, and no line comes  *)
(* to the first page of an unaligned framebuffer; in no other case, but    *)
(* that of an interrupt that stops it.  A vmm_map that ran out of pages    *)
(* without saying so never gets that far.                                  *)
BootsExactlyWhenItCan ==
  at \in {"hlt", "halted", "lost"} => (at = "hlt" <=> CanBoot)

(* On the bootloader's map every fault is reported: GDT and IDT are up     *)
(* before anything can go wrong.                                           *)
LostOnlyOnOwnMap == at = "lost" => OnOwnMap

(* The loops over the memory map and the image end, the windows included,  *)
(* and no check or call is waited for: the boot comes to its hlt, to a     *)
(* hcf, to a fault that is lost, or an interrupt stops it.                 *)
BootEnds == <>(at \in Ends)

=============================================================================
