----------------------------- MODULE PMMProofs ------------------------------
(***************************************************************************)
(* Proofs about the physical memory manager and its clients, for every     *)
(* memory map that keeps the bootloader's promises, every EntriesPerPage   *)
(* and every number of clients: the types; that pmm.c neither loses a page *)
(* nor grants one twice when every request is for one page, as all of      *)
(* vmm.c's are, and implements PageAllocator then; that pmm_init finds a   *)
(* place for its array unless the map is fragmented, and that loop 3 never *)
(* overflows it; and that the counters count, for requests of any size.    *)
(***************************************************************************)
EXTENDS PMMClients, FiniteSetTheorems, SequenceTheorems, TLAPS

Phases == {"count", "locate", "push", "ready", "failed", "fault", "halted"}

(* Rounding up to whole pages leaves room for every slot. *)
LEMMA RoundUp ==
  ASSUME NEW a \in Nat, NEW b \in Nat \ {0}
  PROVE  /\ (a + b - 1) \div b \in Nat
         /\ a <= b * ((a + b - 1) \div b)
  BY SMT

LEMMA StackSizeType ==
  pm_total_pages \in Nat => /\ pm_stack_size \in Nat
                            /\ pm_total_pages <= EntriesPerPage * pm_stack_size
  BY RoundUp, EntriesPerPageAssumption DEF pm_stack_size

(* A boot map is a sequence of entries that start above page 0.            *)
LEMMA BootMapType ==
  ASSUME bootmap \in MemMaps
  PROVE  /\ Len(bootmap) \in Nat
         /\ DOMAIN bootmap = 1 .. Len(bootmap)
         /\ bootmap \in [DOMAIN bootmap -> Entry]
         /\ \A a \in DOMAIN bootmap : IsUsable(bootmap[a]) => bootmap[a].base > NULL
         /\ \A a, b \in DOMAIN bootmap :
              IsUsable(bootmap[a]) /\ a # b =>
                EntryPages(bootmap, a) \cap EntryPages(bootmap, b) = {}
  <1>1. bootmap \in Seq(Entry)
    BY MemMapsAssumption
  <1>2. /\ Len(bootmap) \in Nat
        /\ DOMAIN bootmap = 1 .. Len(bootmap)
        /\ bootmap \in [1 .. Len(bootmap) -> Entry]
    BY <1>1, LenProperties
  <1>3. QED
    BY <1>2, MemMapsAssumption DEF EntryPages

(* The length of the memory map never changes. *)
LEMMA MapLength ==
  ASSUME TypeOK
  PROVE  /\ Len(bootmap) \in Nat
         /\ Len(memmap) = Len(bootmap)
         /\ DOMAIN memmap = 1 .. Len(bootmap)
         /\ \A a \in 1 .. Len(bootmap) : memmap[a] \in Entry
  <1>1. /\ Len(bootmap) \in Nat
        /\ DOMAIN bootmap = 1 .. Len(bootmap)
    BY BootMapType DEF TypeOK
  <1>2. memmap \in [1 .. Len(bootmap) -> Entry]
    BY <1>1 DEF TypeOK
  <1>3. memmap \in Seq(Entry)
    BY <1>1, <1>2, SeqDef
  <1>4. QED
    BY <1>1, <1>2, <1>3, LenProperties

-----------------------------------------------------------------------------
(* Type correctness needs one more fact: while loop 2 runs, and before it, *)
(* the array has no place and the entries are those of the boot map.       *)
BeforePlace ==
  phase \in {"count", "locate"} => /\ pm_stack_base = NULL
                                   /\ memmap = bootmap
                                   /\ off = 0

LoopBounds ==
  /\ phase \in {"count", "push"} => ent >= 1
  /\ phase = "locate" => ent <= Len(bootmap)

(* Without an array nothing is ever granted. *)
NoArrayNoGrant == pm_stack_base = NULL => \A c \in Clients : held[c] = NoGrant

TypeInv == TypeOK /\ BeforePlace /\ LoopBounds /\ NoArrayNoGrant

LEMMA InitTypeInv == Init => TypeInv
  <1> SUFFICES ASSUME Init PROVE TypeInv
    OBVIOUS
  <1>1. bootmap \in MemMaps
    BY DEF Init, PMMInit
  <1>2. QED
    BY <1>1, BootMapType DEF Init, PMMInit, TypeInv, TypeOK, BeforePlace, LoopBounds, NoArrayNoGrant, NoGrant, NULL

LEMMA BootTypeInv == TypeInv /\ Boot => TypeInv'
  <1> SUFFICES ASSUME TypeInv, Boot PROVE TypeInv'
    OBVIOUS
  <1> USE DEF TypeInv, TypeOK, BeforePlace, LoopBounds, NoArrayNoGrant, Boot, pmm_memory, pmm_loops, pmm_counts
  <1>0. /\ Len(bootmap) \in Nat
        /\ Len(memmap) = Len(bootmap)
        /\ DOMAIN memmap = 1 .. Len(bootmap)
        /\ DOMAIN bootmap = 1 .. Len(bootmap)
        /\ \A a \in 1 .. Len(bootmap) :
             memmap[a] \in Entry
    BY MapLength, BootMapType
  <1>s. pm_stack_size \in Nat
    BY StackSizeType
  <1>1. CASE CountEntry
    BY <1>0, <1>1 DEF CountEntry, Entry
  <1>2. CASE CountDone
    BY <1>0, <1>2 DEF CountDone
  <1>3. CASE PlaceStack
    <2>1. /\ ent \in 1 .. Len(bootmap)
          /\ IsUsable(bootmap[ent])
      BY <1>0, <1>3 DEF PlaceStack, CanHold
    <2>a. memmap[ent].length \in Nat /\ memmap[ent].base \in Nat
      BY <1>0, <2>1 DEF Entry
    <2>b. memmap[ent].length - pm_stack_size \in Nat
      BY <1>s, <1>3, <2>a DEF PlaceStack, CanHold
    <2>2. memmap[ent].base > NULL
      BY <1>3, <2>1, <1>0, BootMapType DEF PlaceStack
    <2>c. pm_stack_base' = memmap[ent].base + memmap[ent].length - pm_stack_size
      BY <1>3 DEF PlaceStack
    <2>3. pm_stack_base' \in Nat /\ pm_stack_base' # NULL
      <3>1. \A b, l, z \in Nat : l - z \in Nat /\ b > 0 => b + l - z \in Nat \ {0}
        OBVIOUS
      <3>2. QED
        BY <3>1, <1>s, <2>a, <2>b, <2>c, <2>2 DEF NULL
    <2>4. memmap' \in [DOMAIN bootmap -> Entry]
      BY <1>0, <1>3, <2>1, <2>b DEF PlaceStack, Shortened, Entry
    <2>5. pm_stack' \in [0 .. pm_total_pages - 1 -> Nat]
      BY <1>3 DEF PlaceStack, NULL
    <2>6. QED
      BY <1>0, <1>3, <2>3, <2>4, <2>5 DEF PlaceStack
  <1>4. CASE SkipEntry
    BY <1>0, <1>4 DEF SkipEntry
  <1>5. CASE NoPlace
    BY <1>0, <1>5 DEF NoPlace
  <1>6. CASE PushPage
    <2>1. ent \in 1 .. Len(bootmap) /\ memmap[ent].base + off \in Nat
      BY <1>0, <1>6 DEF PushPage, Entry
    <2>2. CASE pm_stack_idx < pm_total_pages /\ pm_stack_base # NULL
      <3>1. /\ pm_stack' = [pm_stack EXCEPT ![pm_stack_idx] = memmap[ent].base + off]
            /\ pm_stack_idx' = pm_stack_idx + 1
            /\ off' = off + 1
            /\ phase = "push"
            /\ UNCHANGED <<phase, bootmap, memmap, pm_stack_base, pm_total_pages,
                          ent, pm_free_pages, pm_used_pages, held>>
        BY <1>6, <2>2 DEF PushPage
      <3>2. pm_stack' \in [0 .. pm_total_pages - 1 -> Nat]
        BY <2>1, <2>2, <3>1
      <3>3. QED
        BY <2>2, <3>1, <3>2
    <2>3. CASE ~(pm_stack_idx < pm_total_pages /\ pm_stack_base # NULL)
      BY <1>6, <2>1, <2>3 DEF PushPage
    <2>4. QED
      BY <2>2, <2>3
  <1>7. CASE NextEntry
    BY <1>0, <1>7 DEF NextEntry
  <1>8. CASE PushDone
    BY <1>0, <1>8 DEF PushDone
  <1>9. QED
    BY <1>1, <1>2, <1>3, <1>4, <1>5, <1>6, <1>7, <1>8 DEF pmm_init

LEMMA RequestTypeInv ==
  ASSUME NEW c \in Clients, NEW n \in Runs, TypeInv, Request(c, n)
  PROVE  TypeInv'
  <1> USE DEF TypeInv, TypeOK, BeforePlace, LoopBounds, NoArrayNoGrant
  <1>1. n \in Nat
    BY RunsAssumption
  <1>2. /\ phase = "ready"
        /\ UNCHANGED <<phase, bootmap, memmap, pm_stack_base, pm_total_pages,
                      ent, off, pm_stack>>
    BY DEF Request, pmm_request_pages, pmm_memory, pmm_loops
  <1>3. CASE CanGrant(n)
    <2>1. pm_stack_base # NULL /\ pm_stack_idx - n \in 0 .. pm_total_pages - 1
      BY <1>1, <1>3 DEF CanGrant
    <2>2. Granted(n) \in Nat
      BY <2>1 DEF Granted
    <2>3. held' \in [Clients -> [base : Nat, n : Nat]]
      BY <1>1, <1>3, <2>2 DEF Request
    <2>4. /\ pm_stack_idx' = pm_stack_idx - n
          /\ pm_used_pages' = pm_used_pages + n
          /\ pm_free_pages' = pm_free_pages - n
      BY <1>3 DEF Request, pmm_request_pages
    <2>5. QED
      BY <1>1, <1>2, <2>1, <2>3, <2>4, SMTT(60)
  <1>4. CASE ~CanGrant(n)
    BY <1>2, <1>4 DEF Request, pmm_request_pages, pmm_counts
  <1>5. QED
    BY <1>3, <1>4

LEMMA FreeTypeInv ==
  ASSUME NEW c \in Clients, TypeInv, Free(c)
  PROVE  TypeInv'
  <1> USE DEF TypeInv, TypeOK, BeforePlace, LoopBounds, NoArrayNoGrant
  <1> DEFINE ptr == held[c].base
             n == held[c].n
             room == pm_total_pages - pm_stack_idx
             pushed == IF n <= room THEN n ELSE room
  <1>1. /\ ptr \in Nat /\ n \in Nat /\ pm_stack_base # NULL
        /\ pushed \in Nat /\ pm_stack_idx + pushed <= pm_total_pages
    BY DEF Free
  <1>2. /\ phase = "ready"
        /\ UNCHANGED <<bootmap, memmap, pm_stack_base, pm_total_pages, ent, off>>
    BY DEF Free, pmm_free_pages, pmm_memory, pmm_loops
  <1>3. held' \in [Clients -> [base : Nat, n : Nat]]
    BY DEF Free, NoGrant, NULL
  <1>4. CASE ptr # NULL /\ n > 0
    <2>1. /\ pm_stack' = [s \in DOMAIN pm_stack |->
                            IF s \in Pages(pm_stack_idx, pushed)
                            THEN ptr + (s - pm_stack_idx) ELSE pm_stack[s]]
          /\ pm_stack_idx' = pm_stack_idx + pushed
          /\ phase' = phase
      BY <1>4 DEF Free, pmm_free_pages, PushRun
    <2>2. pm_free_pages' \in Int /\ pm_used_pages' \in Int
      BY <1>1, <1>4 DEF Free, pmm_free_pages
    <2>3. pm_stack' \in [0 .. pm_total_pages - 1 -> Nat]
      BY <1>1, <2>1 DEF Pages
    <2>4. QED
      BY <1>1, <1>2, <1>3, <2>1, <2>2, <2>3, SMTT(60)
  <1>5. CASE ~(ptr # NULL /\ n > 0)
    <2>1. /\ phase' = "halted"
          /\ UNCHANGED <<pm_stack, pm_stack_idx, pm_free_pages, pm_used_pages>>
      BY <1>5 DEF Free, pmm_free_pages, pmm_counts
    <2>2. QED
      BY <1>1, <1>2, <1>3, <2>1
  <1>6. QED
    BY <1>4, <1>5

(* Type correctness, for requests of every size: the slots of pm_stack     *)
(* hold page numbers, and pm_stack_idx never leaves the array.             *)
THEOREM PMMTypeOK == Spec => []TypeOK
  <1>1. Init => TypeInv
    BY InitTypeInv
  <1>2. TypeInv /\ [Next]_vars => TypeInv'
    <2> SUFFICES ASSUME TypeInv, [Next]_vars PROVE TypeInv'
      OBVIOUS
    <2>1. CASE Boot
      BY <2>1, BootTypeInv
    <2>2. ASSUME NEW c \in Clients, NEW n \in Runs, Request(c, n) PROVE TypeInv'
      BY <2>2, RequestTypeInv
    <2>3. ASSUME NEW c \in Clients, Free(c) PROVE TypeInv'
      BY <2>3, FreeTypeInv
    <2>4. CASE UNCHANGED vars
      BY <2>4 DEF vars, pmm_vars, pmm_memory, pmm_loops, pmm_counts,
                  TypeInv, TypeOK, BeforePlace, LoopBounds, NoArrayNoGrant
    <2>5. QED
      BY <2>1, <2>2, <2>3, <2>4 DEF Next
  <1>3. TypeInv => TypeOK
    BY DEF TypeInv
  <1>4. QED
    BY <1>1, <1>2, <1>3, PTL DEF Spec

-----------------------------------------------------------------------------
(* The inductive invariant. *)

(* Loop 2 carved the array out of the top of entry k of the boot map. *)
CarvedFrom(k) ==
  /\ IsUsable(bootmap[k])
  /\ bootmap[k].length >= pm_stack_size
  /\ memmap = [bootmap EXCEPT ![k].length = @ - pm_stack_size]
  /\ pm_stack_base = bootmap[k].base + bootmap[k].length - pm_stack_size

Carved == pm_stack_base # NULL => \E k \in DOMAIN bootmap : CarvedFrom(k)

NotCarved == pm_stack_base = NULL => memmap = bootmap

(* The pages that loop 3 has pushed when it stands at entry ent, page off. *)
PushedBefore ==
  UNION {EntryPages(memmap, a) : a \in {b \in 1 .. ent - 1 : IsUsable(memmap[b])}}

Pushed ==
  PushedBefore
    \cup (IF ent <= Len(memmap) /\ IsUsable(memmap[ent])
          THEN Pages(memmap[ent].base, off) ELSE {})

Distinct == \A s, t \in FreeSlots : s # t => pm_stack[s] # pm_stack[t]

Pushing ==
  phase \in {"count", "locate", "push"} =>
    /\ \A c \in Clients : held[c] = NoGrant
    /\ phase # "push" => pm_stack_idx = 0
    /\ phase = "push" =>
         /\ Distinct
         /\ FreePages = Pushed
         /\ ent <= Len(memmap) /\ IsUsable(memmap[ent]) => off <= memmap[ent].length
         /\ ent <= Len(memmap) /\ ~IsUsable(memmap[ent]) => off = 0
         /\ ent > Len(memmap) => off = 0

(* A grant is one page, never page 0, and the array has room for them all. *)
Holders == {c \in Clients : held[c] # NoGrant}

OnePage == \A c \in Holders : held[c].n = 1 /\ held[c].base # NULL

Room == phase = "ready" => pm_stack_idx + Cardinality(Holders) <= pm_total_pages

PageInv ==
  TypeInv /\ Carved /\ NotCarved /\ Pushing /\ OnePage /\ Room /\ Partition

-----------------------------------------------------------------------------
(* Carving: the array's pages are usable in the boot map, gone from the    *)
(* shortened map, and nothing else is.                                     *)
LEMMA CarvedPages ==
  ASSUME TypeInv, Carved, NotCarved
  PROVE  /\ StackPages \subseteq UsablePages(bootmap)
         /\ UsablePages(memmap) = UsablePages(bootmap) \ StackPages
         /\ \A p \in UsablePages(bootmap) : p \in Nat /\ p # NULL
         /\ \A a \in 1 .. Len(bootmap) :
              /\ IsUsable(memmap[a]) <=> IsUsable(bootmap[a])
              /\ EntryPages(memmap, a) \subseteq EntryPages(bootmap, a)
  <1>1. /\ Len(bootmap) \in Nat
        /\ DOMAIN bootmap = 1 .. Len(bootmap)
        /\ DOMAIN memmap = 1 .. Len(bootmap)
        /\ \A a \in 1 .. Len(bootmap) : memmap[a] \in Entry /\ bootmap[a] \in Entry
    BY MapLength, BootMapType DEF TypeInv, TypeOK
  <1>2. /\ \A a \in 1 .. Len(bootmap) : IsUsable(bootmap[a]) => bootmap[a].base > NULL
        /\ \A a, b \in 1 .. Len(bootmap) :
             IsUsable(bootmap[a]) /\ a # b =>
               EntryPages(bootmap, a) \cap EntryPages(bootmap, b) = {}
    BY <1>1, BootMapType DEF TypeInv, TypeOK
  <1>3. \A p \in UsablePages(bootmap) : p \in Nat /\ p # NULL
    BY <1>1, <1>2 DEF UsablePages, EntryPages, Pages, Entry, NULL
  <1>4. CASE pm_stack_base = NULL
    BY <1>1, <1>3, <1>4 DEF NotCarved, StackPages
  <1>5. CASE pm_stack_base # NULL
    <2>1. PICK k \in 1 .. Len(bootmap) : CarvedFrom(k)
      BY <1>1, <1>5 DEF Carved
    <2>s. pm_stack_size \in Nat
      BY StackSizeType DEF TypeInv, TypeOK
    <2>2. /\ bootmap[k].base \in Nat
          /\ bootmap[k].length \in Nat
          /\ bootmap[k].length >= pm_stack_size
          /\ IsUsable(bootmap[k])
      BY <1>1, <2>1 DEF CarvedFrom, Entry
    <2>3. /\ memmap[k].base = bootmap[k].base
          /\ memmap[k].type = bootmap[k].type
          /\ memmap[k].length = bootmap[k].length - pm_stack_size
      BY <1>1, <2>1 DEF CarvedFrom, Entry
    <2>4. \A a \in 1 .. Len(bootmap) : a # k => memmap[a] = bootmap[a]
      BY <1>1, <2>1 DEF CarvedFrom
    <2>5. StackPages = EntryPages(bootmap, k) \ EntryPages(memmap, k)
      BY <1>5, <2>1, <2>2, <2>3, <2>s DEF CarvedFrom, StackPages, EntryPages, Pages
    <2>6. EntryPages(memmap, k) \subseteq EntryPages(bootmap, k)
      BY <2>2, <2>3, <2>s DEF EntryPages, Pages
    <2>7. \A a \in 1 .. Len(bootmap) : IsUsable(memmap[a]) <=> IsUsable(bootmap[a])
      BY <2>3, <2>4 DEF IsUsable
    <2>8. \A a \in 1 .. Len(bootmap) :
            a # k => EntryPages(memmap, a) = EntryPages(bootmap, a)
      BY <2>4 DEF EntryPages
    <2>9. \A a \in 1 .. Len(bootmap) :
            a # k => EntryPages(bootmap, a) \cap EntryPages(bootmap, k) = {}
      BY <1>2, <2>2
    <2>10. UsablePages(memmap) = UsablePages(bootmap) \ StackPages
      <3> HIDE DEF EntryPages, StackPages
      <3>1. ASSUME NEW p PROVE p \in UsablePages(memmap)
                                 <=> p \in UsablePages(bootmap) /\ p \notin StackPages
        BY <1>1, <2>2, <2>5, <2>6, <2>7, <2>8, <2>9 DEF UsablePages
      <3>2. QED
        BY <3>1
    <2>11. StackPages \subseteq UsablePages(bootmap)
      BY <1>1, <2>2, <2>5 DEF UsablePages
    <2>12. QED
      BY <1>3, <2>6, <2>7, <2>8, <2>10, <2>11
  <1>6. QED
    BY <1>4, <1>5

(* One push or pop of a slot, and what it does to the set of free pages. *)
LEMMA PushOne ==
  ASSUME NEW p, pm_stack_idx \in Nat, Distinct, p \notin FreePages,
         pm_stack_idx' = pm_stack_idx + 1,
         pm_stack'[pm_stack_idx] = p,
         \A s \in FreeSlots : pm_stack'[s] = pm_stack[s]
  PROVE  Distinct' /\ FreePages' = FreePages \cup {p}
  <1>1. FreeSlots' = FreeSlots \cup {pm_stack_idx} /\ pm_stack_idx \notin FreeSlots
    BY DEF FreeSlots
  <1>2. \A s \in FreeSlots : pm_stack[s] # p
    BY DEF FreePages
  <1>3. QED
    BY <1>1, <1>2 DEF Distinct, FreePages

LEMMA PopOne ==
  ASSUME pm_stack_idx \in Nat \ {0}, Distinct,
         pm_stack_idx' = pm_stack_idx - 1,
         pm_stack' = pm_stack
  PROVE  /\ Distinct'
         /\ pm_stack[pm_stack_idx - 1] \in FreePages
         /\ FreePages' = FreePages \ {pm_stack[pm_stack_idx - 1]}
  <1>1. /\ FreeSlots = FreeSlots' \cup {pm_stack_idx - 1}
        /\ pm_stack_idx - 1 \notin FreeSlots'
    BY DEF FreeSlots
  <1>2. QED
    BY <1>1 DEF Distinct, FreePages

-----------------------------------------------------------------------------
LEMMA BootCarved ==
  ASSUME TypeInv, Carved, NotCarved, Boot
  PROVE  Carved' /\ NotCarved'
  <1>1. CASE PlaceStack
    <2>1. /\ ent \in DOMAIN bootmap
          /\ memmap = bootmap
      BY <1>1, BootMapType DEF PlaceStack, TypeInv, TypeOK, LoopBounds, BeforePlace
    <2>2. \E k \in DOMAIN bootmap' : CarvedFrom(k)'
      <3>1. /\ IsUsable(bootmap[ent])
            /\ bootmap[ent].length >= pm_stack_size
            /\ memmap' = [bootmap EXCEPT ![ent].length = @ - pm_stack_size]
            /\ pm_stack_base' = bootmap[ent].base + bootmap[ent].length - pm_stack_size
            /\ UNCHANGED <<bootmap, pm_total_pages>>
        BY <1>1, <2>1 DEF PlaceStack, CanHold, Shortened
      <3>2. pm_stack_size' = pm_stack_size
        BY <3>1 DEF pm_stack_size
      <3>3. QED
        BY <2>1, <3>1, <3>2 DEF CarvedFrom
    <2>3. QED
      <3>1. pm_stack_base' # NULL
        <4>1. pm_stack_size \in Nat
          BY StackSizeType DEF TypeInv, TypeOK
        <4>2. \A b, l, z \in Nat : l >= z /\ b > 0 => b + l - z # 0
          OBVIOUS
        <4>3. /\ bootmap[ent].base \in Nat /\ bootmap[ent].base > 0
              /\ bootmap[ent].length \in Nat
              /\ bootmap[ent].length >= pm_stack_size
              /\ pm_stack_base' = bootmap[ent].base + bootmap[ent].length - pm_stack_size
          BY <1>1, <2>1, BootMapType DEF PlaceStack, CanHold, TypeInv, TypeOK, Entry, NULL
        <4>4. QED
          BY <4>1, <4>2, <4>3 DEF NULL
      <3>2. QED
        BY <2>2, <3>1 DEF Carved, NotCarved
  <1>2. CASE ~PlaceStack
    <2>1. UNCHANGED <<bootmap, memmap, pm_stack_base>>
      BY <1>2 DEF Boot, pmm_init, CountEntry, CountDone, SkipEntry, NoPlace,
                  PushPage, NextEntry, PushDone, pmm_memory
    <2>2. pm_stack_base # NULL => UNCHANGED pm_total_pages
      BY <1>2 DEF Boot, pmm_init, CountEntry, CountDone, SkipEntry, NoPlace,
                  PushPage, NextEntry, PushDone, pmm_memory, TypeInv, BeforePlace
    <2>3. QED
      BY <2>1, <2>2 DEF Carved, NotCarved, CarvedFrom, pm_stack_size
  <1>3. QED
    BY <1>1, <1>2

(* Before loop 3, and between its steps, Pushed is what FreePages holds.   *)
LEMMA PushPagePushing ==
  ASSUME TypeInv, Carved, NotCarved, Pushing, PushPage, UNCHANGED held
  PROVE  Pushing'
  <1>1. /\ Len(bootmap) \in Nat
        /\ Len(memmap) = Len(bootmap)
        /\ \A a \in 1 .. Len(bootmap) : memmap[a] \in Entry
    BY MapLength DEF TypeInv
  <1>2. /\ phase = "push" /\ ent \in 1 .. Len(memmap) /\ off \in Nat
        /\ IsUsable(memmap[ent]) /\ off < memmap[ent].length
        /\ UNCHANGED <<memmap, ent>>
    BY <1>1 DEF PushPage, TypeInv, TypeOK, LoopBounds, pmm_memory
  <1>3. CASE pm_stack_idx < pm_total_pages /\ pm_stack_base # NULL
    <2> DEFINE p == memmap[ent].base + off
    <2>1. /\ pm_stack' = [pm_stack EXCEPT ![pm_stack_idx] = p]
          /\ pm_stack_idx' = pm_stack_idx + 1
          /\ off' = off + 1
          /\ phase' = "push"
      BY <1>2, <1>3 DEF PushPage
    <2>2. /\ pm_stack_idx \in Nat
          /\ pm_stack \in [0 .. pm_total_pages - 1 -> Nat]
          /\ memmap[ent].base \in Nat
          /\ memmap[ent].length \in Nat
      BY <1>1, <1>2, <1>3 DEF TypeInv, TypeOK, Entry
    <2>a. ent <= Len(memmap)
      BY <1>1, <1>2
    <2>3. Pushed = PushedBefore \cup Pages(memmap[ent].base, off)
      BY <1>2, <2>a DEF Pushed
    <2>b. PushedBefore' = PushedBefore
      BY <1>2 DEF PushedBefore, EntryPages
    <2>4. Pushed' = PushedBefore \cup Pages(memmap[ent].base, off')
      BY <1>2, <2>a, <2>b DEF Pushed
    <2>5. p \in EntryPages(memmap, ent)
      BY <1>2, <2>2 DEF EntryPages, Pages
    <2>6. p \notin PushedBefore
      <3>1. \A a \in 1 .. ent - 1 :
              IsUsable(memmap[a]) =>
                EntryPages(memmap, a) \cap EntryPages(memmap, ent) = {}
        BY <1>1, <1>2, CarvedPages, BootMapType DEF TypeInv, TypeOK
      <3>2. QED
        BY <2>5, <3>1 DEF PushedBefore
    <2>7. p \notin Pushed
      BY <1>2, <2>2, <2>3, <2>6 DEF Pages
    <2>8. Pushed' = Pushed \cup {p}
      <3>1. Pages(memmap[ent].base, off + 1) = Pages(memmap[ent].base, off) \cup {p}
        BY <1>2, <2>2 DEF Pages
      <3>2. QED
        BY <2>1, <2>3, <2>4, <3>1
    <2>9. Distinct /\ FreePages = Pushed
      BY <1>2 DEF Pushing
    <2>10. \A s \in FreeSlots : pm_stack'[s] = pm_stack[s]
      BY <1>3, <2>1, <2>2 DEF FreeSlots
    <2>11. pm_stack'[pm_stack_idx] = p
      BY <1>3, <2>1, <2>2, <1>1 DEF TypeInv, TypeOK
    <2>12. Distinct' /\ FreePages' = Pushed'
      <3> HIDE DEF p
      <3>1. QED
        BY <2>1, <2>2, <2>7, <2>8, <2>9, <2>10, <2>11, PushOne
    <2>13. QED
      BY <1>2, <2>1, <2>2, <2>12 DEF Pushing
  <1>4. CASE ~(pm_stack_idx < pm_total_pages /\ pm_stack_base # NULL)
    BY <1>2, <1>4 DEF PushPage, Pushing
  <1>5. QED
    BY <1>3, <1>4

LEMMA NextEntryPushing ==
  ASSUME TypeInv, Pushing, NextEntry, UNCHANGED held
  PROVE  Pushing'
  <1>1. /\ Len(memmap) \in Nat
        /\ \A a \in 1 .. Len(memmap) : memmap[a] \in Entry
    BY MapLength DEF TypeInv
  <1>2. /\ phase = "push" /\ ent \in 1 .. Len(memmap) /\ off \in Nat
        /\ IsUsable(memmap[ent]) => off >= memmap[ent].length
        /\ ent' = ent + 1 /\ off' = 0
        /\ UNCHANGED <<phase, memmap, pm_stack, pm_stack_idx>>
    BY <1>1 DEF NextEntry, TypeInv, TypeOK, LoopBounds, pmm_memory, pmm_counts
  <1>3. IsUsable(memmap[ent]) => Pages(memmap[ent].base, off) = EntryPages(memmap, ent)
    <2>1. IsUsable(memmap[ent]) => off = memmap[ent].length
      BY <1>1, <1>2 DEF Pushing, Entry
    <2>2. QED
      BY <2>1 DEF EntryPages
  <1>4. PushedBefore' = Pushed
    <2>1. 1 .. ent' - 1 = (1 .. ent - 1) \cup {ent}
      BY <1>1, <1>2
    <2>2. \A a : EntryPages(memmap, a)' = EntryPages(memmap, a)
      BY <1>2 DEF EntryPages
    <2>3. PushedBefore' = PushedBefore
                            \cup (IF IsUsable(memmap[ent]) THEN EntryPages(memmap, ent) ELSE {})
      BY <1>2, <2>1, <2>2 DEF PushedBefore
    <2>4. QED
      BY <1>1, <1>2, <1>3, <2>3 DEF Pushed
  <1>5. Pushed' = PushedBefore'
    <2>1. \A b \in Nat : Pages(b, 0) = {}
      BY DEF Pages
    <2>2. QED
      BY <1>1, <1>2, <2>1 DEF Pushed, Entry
  <1>6. Distinct' /\ FreePages' = Pushed'
    BY <1>2, <1>4, <1>5 DEF Pushing, Distinct, FreePages, FreeSlots
  <1>7. ent' <= Len(memmap') => memmap'[ent'].length >= 0
    BY <1>1, <1>2 DEF Entry
  <1>8. QED
    BY <1>2, <1>6, <1>7 DEF Pushing

LEMMA MapShape ==
  ASSUME NEW boot \in MemMaps, NEW map \in [DOMAIN boot -> Entry]
  PROVE  /\ Len(map) \in Nat
         /\ \A a \in 1 .. Len(map) : map[a] \in Entry
  <1>1. boot \in Seq(Entry)
    BY MemMapsAssumption
  <1>2. Len(boot) \in Nat /\ DOMAIN boot = 1 .. Len(boot)
    BY <1>1, LenProperties
  <1>3. map \in Seq(Entry)
    BY <1>2, SeqDef
  <1>4. QED
    BY <1>3, LenProperties

(* The steps before loop 3 leave the array empty.                          *)
LEMMA PlacePushing ==
  ASSUME TypeInv, Pushing, PlaceStack \/ NoPlace, UNCHANGED held, TypeInv'
  PROVE  Pushing'
  <1>1. /\ Len(memmap') \in Nat
        /\ \A a \in 1 .. Len(memmap') : memmap'[a] \in Entry
    BY MapShape DEF TypeInv, TypeOK
  <1>2. /\ phase = "locate" /\ phase' = "push"
        /\ ent' = 1 /\ off' = 0 /\ pm_stack_idx' = 0
    BY DEF PlaceStack, NoPlace, TypeInv, BeforePlace, Pushing, pmm_counts
  <1>3. Distinct' /\ FreePages' = {}
    BY <1>2 DEF Distinct, FreePages, FreeSlots
  <1>4. Pushed' = {}
    <2>1. PushedBefore' = {}
      BY <1>2 DEF PushedBefore
    <2>2. \A b \in Nat : Pages(b, 0) = {}
      BY DEF Pages
    <2>3. QED
      BY <1>1, <1>2, <2>1, <2>2 DEF Pushed, Entry
  <1>5. ent' <= Len(memmap') => memmap'[ent'].length >= 0
    BY <1>1, <1>2 DEF Entry
  <1>6. QED
    BY <1>2, <1>3, <1>4, <1>5 DEF Pushing

LEMMA BootPushing ==
  ASSUME TypeInv, Carved, NotCarved, Pushing, Boot
  PROVE  Pushing'
  <1>1. UNCHANGED held /\ TypeInv'
    BY BootTypeInv DEF Boot
  <1>2. CASE CountEntry \/ CountDone \/ SkipEntry
    BY <1>1, <1>2 DEF CountEntry, CountDone, SkipEntry, Pushing, pmm_counts
  <1>3. CASE PlaceStack \/ NoPlace
    BY <1>1, <1>3, PlacePushing
  <1>4. CASE PushPage
    BY <1>1, <1>4, PushPagePushing
  <1>5. CASE NextEntry
    BY <1>1, <1>5, NextEntryPushing
  <1>6. CASE PushDone
    BY <1>6 DEF PushDone, Pushing
  <1>7. QED
    BY <1>2, <1>3, <1>4, <1>5, <1>6 DEF Boot, pmm_init

-----------------------------------------------------------------------------
(* When loop 3 is done, it has pushed every usable page that is left.      *)
LEMMA PushDonePartition ==
  ASSUME TypeInv, Carved, NotCarved, Pushing, OnePage, PushDone, UNCHANGED held
  PROVE  OnePage' /\ Room' /\ Partition'
  <1>1. /\ phase = "push" /\ ent > Len(memmap)
        /\ UNCHANGED <<bootmap, memmap, pm_stack, pm_stack_idx, pm_stack_base, pm_total_pages>>
    BY DEF PushDone, pmm_memory
  <1>2. /\ Len(memmap) \in Nat /\ ent \in Nat
        /\ DOMAIN memmap = 1 .. Len(memmap)
    BY MapLength DEF TypeInv, TypeOK
  <1>3. \A c \in Clients : held[c] = NoGrant /\ RunOf(held[c]) = {}
    BY <1>1 DEF Pushing, RunOf, Pages, NoGrant, NULL
  <1>4. ent = Len(memmap) + 1
    <2>1. Len(memmap) = Len(bootmap) /\ ent <= Len(bootmap) + 1
      BY MapLength DEF TypeInv, TypeOK
    <2>2. QED
      BY <1>1, <1>2, <2>1
  <1>5. FreePages = UsablePages(memmap)
    <2>1. Pushed = PushedBefore
      BY <1>1, <1>2 DEF Pushed
    <2>2. PushedBefore = UsablePages(memmap)
      BY <1>2, <1>4 DEF PushedBefore, UsablePages
    <2>3. QED
      BY <1>1, <2>1, <2>2 DEF Pushing
  <1>6. UsablePages(memmap) = UsablePages(bootmap) \ StackPages
    BY CarvedPages
  <1>7. /\ FreePages' = FreePages /\ FreeSlots' = FreeSlots /\ StackPages' = StackPages
        /\ UsablePages(bootmap)' = UsablePages(bootmap)
    BY <1>1 DEF FreePages, FreeSlots, StackPages, pm_stack_size, UsablePages, EntryPages
  <1>8. Partition'
    <2>1. UNION {RunOf(held[c]) : c \in Clients} = {}
      BY <1>3
    <2>2. QED
      BY <1>1, <1>3, <1>5, <1>6, <1>7, <2>1 DEF Partition, Pushing, Distinct
  <1>9. Holders' = {}
    BY <1>3 DEF Holders
  <1>10. Room'
    BY <1>1, <1>9, FS_EmptySet DEF Room, TypeInv, TypeOK
  <1>11. QED
    BY <1>8, <1>9, <1>10 DEF OnePage

LEMMA BootPageInv ==
  ASSUME PageInv, Boot
  PROVE  PageInv'
  <1>1. /\ TypeInv' /\ Carved' /\ NotCarved' /\ Pushing' /\ UNCHANGED held
    BY BootTypeInv, BootCarved, BootPushing DEF PageInv, Boot
  <1>2. CASE PushDone
    BY <1>1, <1>2, PushDonePartition DEF PageInv
  <1>3. CASE ~PushDone
    <2>1. phase' # "ready"
      BY <1>3 DEF Boot, pmm_init, CountEntry, CountDone, PlaceStack, SkipEntry, NoPlace,
                  PushPage, NextEntry
    <2>2. QED
      BY <1>1, <2>1 DEF PageInv, OnePage, Holders, Room, Partition
  <1>4. QED
    BY <1>2, <1>3

-----------------------------------------------------------------------------
(* The steps of a client when every request is for one page.               *)
Reserve == UNCHANGED <<phase, bootmap, memmap, pm_stack_base, pm_total_pages>>

LEMMA GrantPageInv ==
  ASSUME NEW c \in Clients, NEW n \in {0, 1}, n \in Runs,
         PageInv, Request(c, n), CanGrant(n)
  PROVE  /\ PageInv'
         /\ n = 1
         /\ held' = [held EXCEPT ![c] = [base |-> Granted(1), n |-> 1]]
         /\ Granted(1) \in FreePages
         /\ FreePages' = FreePages \ {Granted(1)}
  <1> DEFINE p == Granted(1)
  <1>1. /\ n = 1 /\ pm_stack_idx \in Nat \ {0} /\ phase = "ready"
        /\ pm_stack_idx' = pm_stack_idx - 1
        /\ held[c] = NoGrant
        /\ Reserve /\ pm_stack' = pm_stack
        /\ held' = [held EXCEPT ![c] = [base |-> p, n |-> 1]]
    <2>1. n = 1 /\ pm_stack_idx \in Nat \ {0}
      BY DEF CanGrant, PageInv, TypeInv, TypeOK
    <2>2. /\ held[c] = NoGrant
          /\ phase = "ready"
          /\ pm_stack_idx' = pm_stack_idx - n
          /\ held' = [held EXCEPT ![c] = [base |-> Granted(n), n |-> n]]
          /\ UNCHANGED <<phase, pmm_memory, pm_stack>>
      BY DEF Request, pmm_request_pages
    <2>3. QED
      BY <2>1, <2>2 DEF Reserve, pmm_memory
  <1>2. Distinct
    BY <1>1 DEF PageInv, Partition, Distinct
  <1>3. Distinct' /\ p \in FreePages /\ FreePages' = FreePages \ {p}
    BY <1>1, <1>2, PopOne DEF Granted
  <1>4. TypeInv'
    BY RequestTypeInv DEF PageInv
  <1>5. Carved' /\ NotCarved'
    BY <1>1 DEF PageInv, Carved, NotCarved, CarvedFrom, Reserve, pm_stack_size
  <1>6. p \in Nat /\ p # NULL
    BY <1>1, <1>3, CarvedPages DEF PageInv, Partition
  <1>7. /\ held \in [Clients -> [base : Nat, n : Nat]]
        /\ held'[c] = [base |-> p, n |-> 1]
        /\ \A d \in Clients \ {c} : held'[d] = held[d]
    BY <1>1 DEF PageInv, TypeInv, TypeOK
  <1>8. /\ Holders' = Holders \cup {c} /\ c \notin Holders
        /\ OnePage'
    BY <1>1, <1>6, <1>7 DEF Holders, OnePage, PageInv, NoGrant, NULL
  <1>9. Room'
    <2>1. IsFiniteSet(Holders)
      BY ClientsAssumption, FS_Subset DEF Holders
    <2>2. Cardinality(Holders') = Cardinality(Holders) + 1 /\ Cardinality(Holders) \in Nat
      BY <1>8, <2>1, FS_AddElement, FS_CardinalityType
    <2>3. QED
      BY <1>1, <2>2 DEF PageInv, Room, Reserve, TypeInv, TypeOK
  <1>10. Partition'
    <2>1. RunOf(held'[c]) = {p} /\ RunOf(held[c]) = {}
      BY <1>1, <1>6, <1>7 DEF RunOf, Pages, NoGrant, NULL
    <2>2. StackPages' = StackPages /\ UsablePages(bootmap)' = UsablePages(bootmap)
      BY <1>1 DEF Reserve, StackPages, pm_stack_size, UsablePages, EntryPages
    <2>3. \A d \in Clients \ {c} : RunOf(held'[d]) = RunOf(held[d])
      BY <1>7
    <2>4. UNION {RunOf(held'[d]) : d \in Clients}
            = (UNION {RunOf(held[d]) : d \in Clients}) \cup {p}
      BY <2>1, <2>3
    <2>5. \A d \in Clients : p \notin RunOf(held[d])
      BY <1>1, <1>3 DEF PageInv, Partition
    <2>6. FreePages' \cup UNION {RunOf(held'[d]) : d \in Clients}
            = UsablePages(bootmap) \ StackPages
      BY <1>1, <1>3, <2>4 DEF PageInv, Partition
    <2>7. /\ \A d \in Clients : RunOf(held'[d]) \cap FreePages' = {}
          /\ \A d, e \in Clients : d # e => RunOf(held'[d]) \cap RunOf(held'[e]) = {}
      BY <1>1, <1>3, <2>1, <2>3, <2>5 DEF PageInv, Partition
    <2>8. QED
      BY <1>3, <2>2, <2>6, <2>7 DEF Partition, Distinct
  <1>11. Pushing'
    BY <1>1 DEF Pushing, Reserve
  <1>12. QED
    BY <1>1, <1>3, <1>4, <1>5, <1>8, <1>9, <1>10, <1>11 DEF PageInv

LEMMA StutterPageInv ==
  ASSUME PageInv, UNCHANGED vars
  PROVE  PageInv'
  <1>1. UNCHANGED <<phase, bootmap, memmap, ent, off, pm_stack, pm_stack_base, pm_stack_idx,
                    pm_total_pages, pm_free_pages, pm_used_pages, held>>
    BY DEF vars, pmm_vars, pmm_memory, pmm_loops, pmm_counts
  <1>2. TypeInv'
    BY <1>1 DEF PageInv, TypeInv, TypeOK, BeforePlace, LoopBounds, NoArrayNoGrant
  <1>3. Carved' /\ NotCarved'
    BY <1>1 DEF PageInv, Carved, NotCarved, CarvedFrom, pm_stack_size
  <1>4. /\ FreeSlots' = FreeSlots /\ FreePages' = FreePages
        /\ StackPages' = StackPages /\ Distinct' = Distinct /\ Pushed' = Pushed
        /\ Holders' = Holders /\ UsablePages(bootmap)' = UsablePages(bootmap)
    BY <1>1 DEF FreeSlots, FreePages, StackPages, pm_stack_size, Distinct, Pushed,
                PushedBefore, EntryPages, Holders, UsablePages
  <1>5. Pushing'
    BY <1>1, <1>4 DEF PageInv, Pushing
  <1>6. OnePage' /\ Room' /\ Partition'
    BY <1>1, <1>4 DEF PageInv, OnePage, Room, Partition
  <1>7. QED
    BY <1>2, <1>3, <1>5, <1>6 DEF PageInv

LEMMA RefusePageInv ==
  ASSUME NEW c \in Clients, NEW n \in Runs, PageInv, Request(c, n), ~CanGrant(n)
  PROVE  PageInv' /\ UNCHANGED vars
  <1>1. UNCHANGED vars
    BY DEF Request, pmm_request_pages, vars, pmm_vars
  <1>2. QED
    BY <1>1, StutterPageInv

LEMMA FreePageInv ==
  ASSUME NEW c \in Clients, PageInv, Free(c)
  PROVE  /\ PageInv'
         /\ phase = "ready"
         /\ held[c] # NoGrant
         /\ held' = [held EXCEPT ![c] = NoGrant]
         /\ FreePages' = FreePages \cup RunOf(held[c])
         /\ phase' = "ready"
  <1> DEFINE p == held[c].base
  <1>1. /\ held[c] # NoGrant /\ phase = "ready"
        /\ held' = [held EXCEPT ![c] = NoGrant]
    BY DEF Free, pmm_free_pages
  <1>2. /\ held[c] \in [base : Nat, n : Nat] /\ held[c].n = 1 /\ p \in Nat /\ p # NULL
        /\ c \in Holders
    BY <1>1 DEF PageInv, OnePage, Holders, TypeInv, TypeOK
  <1>3. /\ IsFiniteSet(Holders) /\ Cardinality(Holders) \in Nat \ {0}
        /\ Cardinality(Holders \ {c}) = Cardinality(Holders) - 1
    <2>1. IsFiniteSet(Holders)
      BY ClientsAssumption, FS_Subset DEF Holders
    <2>2. QED
      BY <1>2, <2>1, FS_RemoveElement, FS_CardinalityType, FS_EmptySet
  <1>4. pm_stack_idx \in Nat /\ pm_total_pages \in Nat /\ pm_stack_idx + 1 <= pm_total_pages
    BY <1>1, <1>3 DEF PageInv, Room, TypeInv, TypeOK
  <1>5. pm_stack_base # NULL /\ pm_stack \in [0 .. pm_total_pages - 1 -> Nat]
    BY <1>1 DEF PageInv, TypeInv, TypeOK, NoArrayNoGrant
  <1>6. /\ pm_stack' = [s \in DOMAIN pm_stack |->
                          IF s \in Pages(pm_stack_idx, 1)
                          THEN p + (s - pm_stack_idx) ELSE pm_stack[s]]
        /\ pm_stack_idx' = pm_stack_idx + 1
        /\ Reserve
    <2>1. 1 <= pm_total_pages - pm_stack_idx
      BY <1>4
    <2>2. pmm_free_pages(p, 1)
      BY <1>2 DEF Free
    <2>3. QED
      BY <1>2, <2>1, <2>2 DEF pmm_free_pages, PushRun, Reserve, pmm_memory
  <1>7. /\ pm_stack'[pm_stack_idx] = p
        /\ \A s \in FreeSlots : pm_stack'[s] = pm_stack[s]
    BY <1>2, <1>4, <1>5, <1>6 DEF Pages, FreeSlots
  <1>8. RunOf(held[c]) = {p}
    BY <1>2 DEF RunOf, Pages
  <1>9. Distinct /\ p \notin FreePages
    BY <1>1, <1>8 DEF PageInv, Partition, Distinct
  <1>10. Distinct' /\ FreePages' = FreePages \cup {p}
    BY <1>4, <1>6, <1>7, <1>9, PushOne
  <1>11. TypeInv'
    BY FreeTypeInv DEF PageInv
  <1>12. Carved' /\ NotCarved' /\ Pushing'
    BY <1>1, <1>6 DEF PageInv, Carved, NotCarved, CarvedFrom, Reserve, pm_stack_size, Pushing
  <1>13. /\ held'[c] = NoGrant
         /\ \A d \in Clients \ {c} : held'[d] = held[d]
    BY <1>1 DEF PageInv, TypeInv, TypeOK
  <1>14. Holders' = Holders \ {c} /\ OnePage'
    BY <1>13 DEF Holders, OnePage, PageInv
  <1>15. Room'
    BY <1>1, <1>3, <1>4, <1>6, <1>14 DEF PageInv, Room, Reserve
  <1>16. Partition'
    <2>1. RunOf(held'[c]) = {}
      BY <1>13 DEF RunOf, Pages, NoGrant, NULL
    <2>2. StackPages' = StackPages /\ UsablePages(bootmap)' = UsablePages(bootmap)
      BY <1>6 DEF Reserve, StackPages, pm_stack_size, UsablePages, EntryPages
    <2>3. \A d \in Clients \ {c} : RunOf(held'[d]) = RunOf(held[d])
      BY <1>13
    <2>4. UNION {RunOf(held[d]) : d \in Clients}
            = (UNION {RunOf(held'[d]) : d \in Clients}) \cup {p}
      BY <1>8, <2>1, <2>3
    <2>5. FreePages' \cup UNION {RunOf(held'[d]) : d \in Clients}
            = UsablePages(bootmap) \ StackPages
      BY <1>1, <1>10, <2>4 DEF PageInv, Partition
    <2>6. \A d \in Clients \ {c} : p \notin RunOf(held[d])
      BY <1>1, <1>8 DEF PageInv, Partition
    <2>7. /\ \A d \in Clients : RunOf(held'[d]) \cap FreePages' = {}
          /\ \A d, e \in Clients : d # e => RunOf(held'[d]) \cap RunOf(held'[e]) = {}
      BY <1>1, <1>10, <2>1, <2>3, <2>6 DEF PageInv, Partition
    <2>8. QED
      BY <1>10, <2>2, <2>5, <2>7 DEF Partition, Distinct
  <1>17. QED
    BY <1>1, <1>6, <1>8, <1>10, <1>11, <1>12, <1>14, <1>15, <1>16 DEF PageInv, Reserve

-----------------------------------------------------------------------------
LEMMA InitPageInv == Init => PageInv
  <1> SUFFICES ASSUME Init PROVE PageInv
    OBVIOUS
  <1>1. TypeInv
    BY InitTypeInv
  <1>2. /\ phase = "count" /\ pm_stack_base = NULL /\ memmap = bootmap /\ pm_stack_idx = 0
        /\ \A c \in Clients : held[c] = NoGrant
    BY DEF Init, PMMInit
  <1>3. QED
    BY <1>1, <1>2 DEF PageInv, Carved, NotCarved, Pushing, OnePage, Holders, Room, Partition

LEMMA NextPageInv ==
  ASSUME Runs \subseteq {0, 1}, PageInv, [Next]_vars
  PROVE  PageInv'
  <1>1. CASE Boot
    BY <1>1, BootPageInv
  <1>2. ASSUME NEW c \in Clients, NEW n \in Runs, Request(c, n) PROVE PageInv'
    BY <1>2, GrantPageInv, RefusePageInv
  <1>3. ASSUME NEW c \in Clients, Free(c) PROVE PageInv'
    BY <1>3, FreePageInv
  <1>4. CASE UNCHANGED vars
    BY <1>4, StutterPageInv
  <1>5. QED
    BY <1>1, <1>2, <1>3, <1>4 DEF Next

(* pmm.c neither loses a page nor grants one twice, however requests and   *)
(* releases interleave, when every request is for one page.                *)
THEOREM PMMPartition ==
  ASSUME Runs \subseteq {0, 1}
  PROVE  Spec => []Partition
  <1>1. Init => PageInv
    BY InitPageInv
  <1>2. PageInv /\ [Next]_vars => PageInv'
    BY NextPageInv
  <1>3. PageInv => Partition
    BY DEF PageInv
  <1>4. QED
    BY <1>1, <1>2, <1>3, PTL DEF Spec

-----------------------------------------------------------------------------
(* pmm_init carves the array out of usable memory and out of the map that  *)
(* vmm_init maps from, whatever the sizes of the requests.                 *)
ArrayInv == TypeInv /\ Carved /\ NotCarved

THEOREM PMMArrayIsReserved == Spec => []ArrayIsReserved
  <1>1. Init => ArrayInv
    BY InitPageInv DEF PageInv, ArrayInv
  <1>2. ArrayInv /\ [Next]_vars => ArrayInv'
    <2> SUFFICES ASSUME ArrayInv, [Next]_vars PROVE ArrayInv'
      OBVIOUS
    <2>1. CASE Boot
      BY <2>1, BootTypeInv, BootCarved DEF ArrayInv
    <2>2. ASSUME UNCHANGED <<bootmap, memmap, pm_stack_base, pm_total_pages>>
          PROVE  Carved' /\ NotCarved'
      BY <2>2 DEF ArrayInv, Carved, NotCarved, CarvedFrom, pm_stack_size
    <2>3. ASSUME NEW c \in Clients, NEW n \in Runs, Request(c, n) PROVE ArrayInv'
      BY <2>2, <2>3, RequestTypeInv DEF ArrayInv, Request, pmm_request_pages, pmm_memory
    <2>4. ASSUME NEW c \in Clients, Free(c) PROVE ArrayInv'
      BY <2>2, <2>4, FreeTypeInv DEF ArrayInv, Free, pmm_free_pages, pmm_memory
    <2>5. CASE UNCHANGED vars
      <3>1. TypeInv'
        BY <2>5 DEF vars, pmm_vars, pmm_memory, pmm_loops, pmm_counts, ArrayInv,
                    TypeInv, TypeOK, BeforePlace, LoopBounds, NoArrayNoGrant
      <3>2. QED
        BY <2>2, <2>5, <3>1 DEF vars, pmm_vars, pmm_memory, ArrayInv
    <2>6. QED
      BY <2>1, <2>3, <2>4, <2>5 DEF Next
  <1>3. ArrayInv => ArrayIsReserved
    <2> SUFFICES ASSUME ArrayInv PROVE ArrayIsReserved
      OBVIOUS
    <2>1. pm_total_pages <= EntriesPerPage * pm_stack_size
      BY StackSizeType DEF ArrayInv, TypeInv, TypeOK
    <2>2. QED
      BY <2>1, CarvedPages DEF ArrayInv, ArrayIsReserved
  <1>4. QED
    BY <1>1, <1>2, <1>3, PTL DEF Spec

-----------------------------------------------------------------------------
(* Every behaviour of pmm.c, for requests of one page, is one of           *)
(* PageAllocator: the end of pmm_init opens it, a request that is granted  *)
(* takes its page out of the pool, a release puts it back, and everything  *)
(* else stutters.                                                          *)
Opened == phase \in {"ready", "halted"}

LEMMA BootRefines ==
  ASSUME PageInv, Boot
  PROVE  [Alloc!Next]_Alloc!vars
  <1>1. UNCHANGED held
    BY DEF Boot
  <1>2. CASE PushDone
    <2>1. ~Opened /\ Opened'
      BY <1>2 DEF PushDone, Opened
    <2>2. FreePages' \subseteq Nat \ {0}
      <3>1. PageInv' /\ phase' = "ready"
        BY <1>2, BootPageInv DEF PushDone
      <3>2. FreePages' \subseteq UsablePages(bootmap)'
        BY <3>1 DEF PageInv, Partition
      <3>3. UsablePages(bootmap)' = UsablePages(bootmap)
        BY <1>2 DEF PushDone, pmm_memory, UsablePages, EntryPages
      <3>4. QED
        BY <3>2, <3>3, CarvedPages DEF PageInv, NULL
    <2>3. Alloc!Open
      BY <1>1, <2>1, <2>2 DEF Alloc!Open, Opened
    <2>4. QED
      BY <2>3 DEF Alloc!Next
  <1>3. CASE ~PushDone
    <2>1. ~Opened /\ ~Opened'
      BY <1>3 DEF Boot, pmm_init, CountEntry, CountDone, PlaceStack, SkipEntry, NoPlace,
                  PushPage, NextEntry, Opened
    <2>2. QED
      BY <1>1, <2>1 DEF Alloc!vars, Opened
  <1>4. QED
    BY <1>2, <1>3

LEMMA GrantRefines ==
  ASSUME NEW c \in Clients, NEW n \in {0, 1}, n \in Runs,
         PageInv, Request(c, n), CanGrant(n)
  PROVE  Alloc!Next
  <1> DEFINE p == Granted(1)
             g == [base |-> p, n |-> 1]
  <1>1. /\ phase = "ready" /\ phase' = "ready" /\ held[c] = NoGrant
    BY DEF Request, pmm_request_pages
  <1>2. /\ n = 1 /\ held' = [held EXCEPT ![c] = g]
        /\ p \in FreePages /\ FreePages' = FreePages \ {p}
    BY GrantPageInv
  <1>3. p \in Nat
    BY <1>1, <1>2, CarvedPages DEF PageInv, Partition
  <1>4. Alloc!RunOf(g) = {p}
    BY <1>3 DEF Alloc!RunOf
  <1>5. Alloc!Grant(c, g)
    <2> HIDE DEF g
    <2>1. QED
      BY <1>1, <1>2, <1>4 DEF Alloc!Grant, Alloc!NoGrant, NoGrant, NULL
  <1>6. QED
    BY <1>1, <1>2, <1>5 DEF Alloc!Next

LEMMA FreeRefines ==
  ASSUME NEW c \in Clients, PageInv, Free(c)
  PROVE  Alloc!Next
  <1>1. /\ phase = "ready" /\ phase' = "ready" /\ held[c] # NoGrant
        /\ held' = [held EXCEPT ![c] = NoGrant]
        /\ FreePages' = FreePages \cup RunOf(held[c])
    BY FreePageInv
  <1>2. Alloc!RunOf(held[c]) = RunOf(held[c])
    BY DEF Alloc!RunOf, RunOf, Pages
  <1>3. Alloc!Return(c)
    BY <1>1, <1>2 DEF Alloc!Return, Alloc!NoGrant, NoGrant, NULL
  <1>4. QED
    BY <1>3 DEF Alloc!Next

(* pmm.c is a page allocator, for every memory map and number of clients.  *)
THEOREM PMMImplementsPageAllocator ==
  ASSUME Runs \subseteq {0, 1}
  PROVE  Spec => ImplementsPageAllocator
  <1>1. Init => Alloc!Init
    BY DEF Init, PMMInit, Alloc!Init, NoGrant, Alloc!NoGrant, NULL
  <1>2. PageInv /\ [Next]_vars => [Alloc!Next]_Alloc!vars
    <2> SUFFICES ASSUME PageInv, [Next]_vars PROVE [Alloc!Next]_Alloc!vars
      OBVIOUS
    <2>1. CASE Boot
      BY <2>1, BootRefines
    <2>2. ASSUME NEW c \in Clients, NEW n \in Runs, Request(c, n)
          PROVE  [Alloc!Next]_Alloc!vars
      <3>1. CASE CanGrant(n)
        BY <2>2, <3>1, GrantRefines
      <3>2. CASE ~CanGrant(n)
        <4>1. UNCHANGED vars
          BY <2>2, <3>2, RefusePageInv
        <4>2. QED
          BY <4>1 DEF vars, pmm_vars, pmm_memory, pmm_counts, Alloc!vars, FreePages, FreeSlots
      <3>3. QED
        BY <3>1, <3>2
    <2>3. ASSUME NEW c \in Clients, Free(c) PROVE [Alloc!Next]_Alloc!vars
      BY <2>3, FreeRefines
    <2>4. CASE UNCHANGED vars
      BY <2>4 DEF vars, pmm_vars, pmm_memory, pmm_counts, Alloc!vars, FreePages, FreeSlots
    <2>5. QED
      BY <2>1, <2>2, <2>3, <2>4 DEF Next
  <1>3. Init => PageInv
    BY InitPageInv
  <1>4. PageInv /\ [Next]_vars => PageInv'
    BY NextPageInv
  <1>5. QED
    BY <1>1, <1>2, <1>3, <1>4, PTL DEF Spec, Alloc!Spec, ImplementsPageAllocator

-----------------------------------------------------------------------------
(* What loop 1 has counted after the first n entries.                      *)
Seen(n) == {a \in 1 .. n : IsUsable(bootmap[a])}

PagesSeen(n) == UNION {EntryPages(bootmap, a) : a \in Seen(n)}

LEMMA BootMapEntries ==
  ASSUME bootmap \in MemMaps
  PROVE  /\ Len(bootmap) \in Nat
         /\ DOMAIN bootmap = 1 .. Len(bootmap)
         /\ \A a \in 1 .. Len(bootmap) : bootmap[a].base \in Nat /\ bootmap[a].length \in Nat
  BY BootMapType DEF Entry

LEMMA EntryPagesCount ==
  ASSUME bootmap \in MemMaps, NEW a \in 1 .. Len(bootmap)
  PROVE  /\ IsFiniteSet(EntryPages(bootmap, a))
         /\ Cardinality(EntryPages(bootmap, a)) = bootmap[a].length
  <1> DEFINE b == bootmap[a].base
             l == bootmap[a].length
  <1>1. b \in Nat /\ l \in Nat
    BY BootMapEntries
  <1>2. EntryPages(bootmap, a) = b .. b + l - 1
    BY DEF EntryPages, Pages
  <1> HIDE DEF b, l
  <1>3. /\ b \in Int /\ b + l - 1 \in Int
        /\ IF b > b + l - 1 THEN l = 0 ELSE l = b + l - 1 - b + 1
    BY <1>1
  <1>4. IsFiniteSet(b .. b + l - 1) /\ Cardinality(b .. b + l - 1) = l
    BY <1>1, <1>3, FS_Interval
  <1> QED
    BY <1>2, <1>4 DEF l

(* One entry more. *)
LEMMA SeeOne ==
  ASSUME bootmap \in MemMaps, NEW n \in 1 .. Len(bootmap)
  PROVE  /\ IsUsable(bootmap[n]) => /\ Seen(n) = Seen(n - 1) \cup {n} /\ n \notin Seen(n - 1)
                                    /\ PagesSeen(n) = PagesSeen(n - 1) \cup EntryPages(bootmap, n)
                                    /\ PagesSeen(n - 1) \cap EntryPages(bootmap, n) = {}
         /\ ~IsUsable(bootmap[n]) => Seen(n) = Seen(n - 1) /\ PagesSeen(n) = PagesSeen(n - 1)
  <1>1. Len(bootmap) \in Nat /\ DOMAIN bootmap = 1 .. Len(bootmap)
    BY BootMapEntries
  <1>2. n \in Nat /\ 1 .. n = (1 .. n - 1) \cup {n} /\ n \notin 1 .. n - 1
        /\ 1 .. n \subseteq DOMAIN bootmap
    BY <1>1
  <1>3. CASE IsUsable(bootmap[n])
    <2>1. Seen(n) = Seen(n - 1) \cup {n} /\ n \notin Seen(n - 1)
      BY <1>2, <1>3 DEF Seen
    <2>2. PagesSeen(n) = PagesSeen(n - 1) \cup EntryPages(bootmap, n)
      BY <2>1 DEF PagesSeen
    <2>3. \A a \in Seen(n - 1) : EntryPages(bootmap, n) \cap EntryPages(bootmap, a) = {}
      BY <1>2, <1>3, BootMapType DEF Seen
    <2>4. PagesSeen(n - 1) \cap EntryPages(bootmap, n) = {}
      BY <2>3 DEF PagesSeen
    <2> QED
      BY <1>3, <2>1, <2>2, <2>4
  <1>4. CASE ~IsUsable(bootmap[n])
    <2>1. Seen(n) = Seen(n - 1)
      BY <1>2, <1>4 DEF Seen
    <2> QED
      BY <1>4, <2>1 DEF PagesSeen
  <1> QED
    BY <1>3, <1>4

LEMMA AllSeen ==
  ASSUME bootmap \in MemMaps
  PROVE  /\ Seen(Len(bootmap)) = UsableEntries
         /\ PagesSeen(Len(bootmap)) = UsablePages(bootmap)
         /\ IsFiniteSet(UsableEntries)
  <1>1. Len(bootmap) \in Nat /\ DOMAIN bootmap = 1 .. Len(bootmap)
    BY BootMapEntries
  <1>2. Seen(Len(bootmap)) = UsableEntries
    BY <1>1 DEF Seen, UsableEntries
  <1>3. PagesSeen(Len(bootmap)) = UsablePages(bootmap)
    BY <1>1 DEF Seen, PagesSeen, UsablePages
  <1>4. IsFiniteSet(1 .. Len(bootmap)) /\ UsableEntries \in SUBSET (1 .. Len(bootmap))
    BY <1>1, FS_Interval DEF UsableEntries
  <1> QED
    BY <1>2, <1>3, <1>4, FS_Subset

-----------------------------------------------------------------------------
(* The inductive invariant.                                                *)

(* Loop 1 counts pages, and n entries of k pages at most hold no more than *)
(* k * n pages.                                                            *)
Counted(n) ==
  /\ IsFiniteSet(Seen(n))
  /\ IsFiniteSet(PagesSeen(n))
  /\ pm_total_pages = Cardinality(PagesSeen(n))
  /\ \A k \in Nat :
       (\A a \in Seen(n) : bootmap[a].length <= k) =>
         pm_total_pages <= k * Cardinality(Seen(n))

CountInv ==
  /\ phase = "count" => Counted(ent - 1)
  /\ phase # "count" => Counted(Len(bootmap))

(* Loop 2 passes entries by that are too small.                            *)
TooSmall(a) == bootmap[a].length < pm_stack_size

PlaceInv ==
  /\ phase = "locate" => \A a \in UsableEntries : a > ent => TooSmall(a)
  /\ phase \notin {"count", "locate"} /\ pm_stack_base = NULL =>
       \A a \in UsableEntries : TooSmall(a)

(* The faulting store is the first one.                                    *)
EndInv ==
  /\ phase # "failed"
  /\ phase = "fault" => pm_stack_base = NULL /\ pm_total_pages > 0

FragmentInv ==
  /\ TypeInv /\ Carved /\ NotCarved /\ Pushing
  /\ CountInv /\ PlaceInv /\ EndInv

LEMMA BoundOneMore ==
  ASSUME NEW k \in Nat, NEW n \in Nat, NEW t \in Nat, NEW l \in Nat, l <= k, t <= k * n
  PROVE  t + l <= k * (n + 1)
  <1>1. k * (n + 1) = k * n + k
    BY SMT
  <1>2. k * n \in Nat
    BY SMT
  <1> DEFINE x == k * n
  <1> HIDE DEF x
  <1> QED
    BY <1>1, <1>2 DEF x

LEMMA CountOne ==
  ASSUME bootmap \in MemMaps, NEW n \in 1 .. Len(bootmap), Counted(n - 1),
         UNCHANGED bootmap, pm_total_pages \in Nat,
         pm_total_pages' = pm_total_pages
                             + IF IsUsable(bootmap[n]) THEN bootmap[n].length ELSE 0
  PROVE  Counted(n)'
  <1>1. Seen(n)' = Seen(n) /\ PagesSeen(n)' = PagesSeen(n)
    BY DEF Seen, PagesSeen, EntryPages
  <1>2. CASE IsUsable(bootmap[n])
    <2> DEFINE l == bootmap[n].length
               S == Seen(n - 1)
               U == PagesSeen(n - 1)
               E == EntryPages(bootmap, n)
    <2>1. l \in Nat /\ IsFiniteSet(E) /\ Cardinality(E) = l
      BY BootMapEntries, EntryPagesCount
    <2>2. /\ Seen(n) = S \cup {n} /\ n \notin S
          /\ PagesSeen(n) = U \cup E /\ U \cap E = {}
      BY <1>2, SeeOne
    <2>3. IsFiniteSet(S) /\ IsFiniteSet(U) /\ pm_total_pages = Cardinality(U)
      BY DEF Counted
    <2>4. pm_total_pages' = pm_total_pages + l
      BY <1>2
    <2>5. \A k \in Nat : (\A a \in S : bootmap[a].length <= k) => pm_total_pages <= k * Cardinality(S)
      BY DEF Counted
    <2> HIDE DEF l, S, U, E
    <2>6. /\ IsFiniteSet(S \cup {n}) /\ Cardinality(S \cup {n}) = Cardinality(S) + 1
          /\ Cardinality(S) \in Nat
      BY <2>2, <2>3, FS_AddElement, FS_CardinalityType
    <2>7. /\ IsFiniteSet(U \cup E)
          /\ Cardinality(U \cup E) = pm_total_pages + l
      <3>1. /\ IsFiniteSet(U \cup E)
            /\ Cardinality(U \cup E) = Cardinality(U) + Cardinality(E) - Cardinality(U \cap E)
        BY <2>1, <2>3, FS_Union
      <3>2. Cardinality(U \cap E) = 0
        BY <2>2, FS_EmptySet
      <3> QED
        BY <2>1, <2>3, <3>1, <3>2
    <2>8. ASSUME NEW k \in Nat, \A a \in Seen(n) : bootmap[a].length <= k
          PROVE  pm_total_pages + l <= k * Cardinality(Seen(n))
      <3>1. l <= k /\ \A a \in S : bootmap[a].length <= k
        BY <2>2, <2>8 DEF l
      <3>2. pm_total_pages <= k * Cardinality(S)
        BY <2>5, <3>1
      <3>3. pm_total_pages + l <= k * (Cardinality(S) + 1)
        BY <2>1, <2>6, <3>1, <3>2, BoundOneMore
      <3> QED
        BY <2>2, <2>6, <3>3
    <2>9. IsFiniteSet(Seen(n)) /\ IsFiniteSet(PagesSeen(n))
          /\ Cardinality(PagesSeen(n)) = pm_total_pages + l
      BY <2>2, <2>6, <2>7
    <2> QED
      BY <1>1, <2>4, <2>8, <2>9 DEF Counted
  <1>3. CASE ~IsUsable(bootmap[n])
    <2>1. Seen(n) = Seen(n - 1) /\ PagesSeen(n) = PagesSeen(n - 1)
      BY <1>3, SeeOne
    <2>2. pm_total_pages' = pm_total_pages
      BY <1>3
    <2>3. Counted(n)
      BY <2>1 DEF Counted
    <2> QED
      BY <1>1, <2>2, <2>3 DEF Counted
  <1> QED
    BY <1>2, <1>3

LEMMA CountedStays ==
  ASSUME NEW n, Counted(n), UNCHANGED <<bootmap, pm_total_pages>>
  PROVE  Counted(n)'
  BY DEF Counted, Seen, PagesSeen, EntryPages

(* Loops 1 and 2, and the steps that neither count nor place.              *)
LEMMA BootCount ==
  ASSUME TypeInv, CountInv, pmm_init
  PROVE  CountInv'
  <1>1. bootmap \in MemMaps /\ Len(bootmap) \in Nat /\ bootmap' = bootmap
        /\ pm_total_pages \in Nat
    BY BootMapEntries DEF TypeInv, TypeOK, pmm_init, CountEntry, CountDone, PlaceStack, SkipEntry,
       NoPlace, PushPage, NextEntry, PushDone, pmm_memory
  <1>2. CASE CountEntry
    <2>1. PICK n \in 1 .. Len(bootmap) : n = ent
      BY <1>1, <1>2 DEF CountEntry, TypeInv, TypeOK, BeforePlace, LoopBounds
    <2>2. /\ phase = "count" /\ phase' = "count" /\ ent' = n + 1
          /\ pm_total_pages' = pm_total_pages
                                 + IF IsUsable(bootmap[n]) THEN bootmap[n].length ELSE 0
      BY <1>2, <2>1 DEF CountEntry, TypeInv, BeforePlace
    <2>3. Counted(n - 1)
      BY <2>1, <2>2 DEF CountInv
    <2>4. Counted(n)'
      BY <1>1, <2>2, <2>3, CountOne
    <2>5. ent' - 1 = n
      BY <1>1, <2>2
    <2> QED
      BY <2>2, <2>4, <2>5 DEF CountInv
  <1>3. CASE CountDone
    <2>1. /\ phase = "count" /\ phase' # "count" /\ ent - 1 = Len(bootmap)
          /\ UNCHANGED pm_total_pages
      BY <1>1, <1>3 DEF CountDone, TypeInv, TypeOK, BeforePlace, LoopBounds, pmm_memory
    <2>2. PICK n : n = Len(bootmap)
      OBVIOUS
    <2>3. Counted(n)
      BY <2>1, <2>2 DEF CountInv
    <2>4. Counted(n)'
      BY <1>1, <2>1, <2>3, CountedStays
    <2>5. n = Len(bootmap')
      BY <1>1, <2>2
    <2> QED
      BY <2>1, <2>4, <2>5 DEF CountInv
  <1>4. CASE ~CountEntry /\ ~CountDone
    <2>1. phase # "count" /\ phase' # "count" /\ UNCHANGED pm_total_pages
      BY <1>4 DEF pmm_init, PlaceStack, SkipEntry, NoPlace, PushPage, NextEntry, PushDone, pmm_memory
    <2>2. PICK n : n = Len(bootmap)
      OBVIOUS
    <2>3. Counted(n)
      BY <2>1, <2>2 DEF CountInv
    <2>4. Counted(n)'
      BY <1>1, <2>1, <2>3, CountedStays
    <2>5. n = Len(bootmap')
      BY <1>1, <2>2
    <2> QED
      BY <2>1, <2>4, <2>5 DEF CountInv
  <1> QED
    BY <1>2, <1>3, <1>4

-----------------------------------------------------------------------------
(* The array is not full while there is a page to push: what was pushed,   *)
(* and this page, are all usable, and loop 1 counted them.                 *)
LEMMA SlotsAreCounted ==
  ASSUME pm_stack_idx \in Nat, Distinct
  PROVE  IsFiniteSet(FreePages) /\ Cardinality(FreePages) = pm_stack_idx
  <1> DEFINE f == [s \in FreeSlots |-> pm_stack[s]]
  <1>1. f \in Bijection(FreeSlots, FreePages)
    BY DEF Distinct, FreePages, Bijection, Injection, Surjection, IsInjective
  <1>2. IsFiniteSet(FreeSlots) /\ Cardinality(FreeSlots) = pm_stack_idx
    <2>1. 0 \in Int /\ pm_stack_idx - 1 \in Int
      OBVIOUS
    <2>2. /\ IsFiniteSet(0 .. pm_stack_idx - 1)
          /\ Cardinality(0 .. pm_stack_idx - 1)
               = IF 0 > pm_stack_idx - 1 THEN 0 ELSE pm_stack_idx - 1 - 0 + 1
      BY <2>1, FS_Interval
    <2>3. (IF 0 > pm_stack_idx - 1 THEN 0 ELSE pm_stack_idx - 1 - 0 + 1) = pm_stack_idx
      OBVIOUS
    <2> QED
      BY <2>2, <2>3 DEF FreeSlots
  <1>3. ExistsBijection(FreeSlots, FreePages)
    BY <1>1 DEF ExistsBijection
  <1> QED
    BY <1>2, <1>3, FS_Bijection

LEMMA NotFull ==
  ASSUME TypeInv, Carved, NotCarved, Pushing, CountInv, PushPage
  PROVE  pm_stack_idx < pm_total_pages
  <1> DEFINE p == memmap[ent].base + off
  <1>1. /\ phase = "push" /\ ent \in 1 .. Len(memmap) /\ off \in Nat
        /\ IsUsable(memmap[ent]) /\ off < memmap[ent].length
        /\ memmap[ent].base \in Nat /\ memmap[ent].length \in Nat
        /\ Len(memmap) = Len(bootmap) /\ Len(bootmap) \in Nat
        /\ DOMAIN memmap = 1 .. Len(bootmap)
        /\ bootmap \in MemMaps /\ pm_stack_idx \in Nat /\ pm_total_pages \in Nat
    BY MapLength DEF PushPage, TypeInv, TypeOK, LoopBounds, Entry
  <1>2. Distinct /\ FreePages = Pushed
    BY <1>1 DEF Pushing
  <1>3. Pushed = PushedBefore \cup Pages(memmap[ent].base, off)
    BY <1>1 DEF Pushed
  <1>4. p \in EntryPages(memmap, ent) /\ p \notin Pages(memmap[ent].base, off)
        /\ Pages(memmap[ent].base, off) \subseteq EntryPages(memmap, ent)
    BY <1>1 DEF EntryPages, Pages
  <1>5. p \notin PushedBefore
    <2>1. \A a \in 1 .. ent - 1 :
            IsUsable(memmap[a]) => EntryPages(memmap, a) \cap EntryPages(memmap, ent) = {}
      <3>1. \A a \in 1 .. Len(bootmap) :
              /\ IsUsable(memmap[a]) <=> IsUsable(bootmap[a])
              /\ EntryPages(memmap, a) \subseteq EntryPages(bootmap, a)
        BY CarvedPages
      <3>2. \A a, b \in 1 .. Len(bootmap) :
              IsUsable(bootmap[a]) /\ a # b => EntryPages(bootmap, a) \cap EntryPages(bootmap, b) = {}
        BY <1>1, BootMapType
      <3>3. 1 .. ent - 1 \subseteq 1 .. Len(bootmap) /\ ent \in 1 .. Len(bootmap) /\ ent \notin 1 .. ent - 1
        BY <1>1
      <3> QED
        BY <3>1, <3>2, <3>3
    <2> QED
      BY <1>4, <2>1 DEF PushedBefore
  <1>6. Pushed \cup {p} \subseteq UsablePages(memmap)
    <2>1. EntryPages(memmap, ent) \subseteq UsablePages(memmap)
      BY <1>1 DEF UsablePages
    <2>2. PushedBefore \subseteq UsablePages(memmap)
      <3>1. 1 .. ent - 1 \subseteq DOMAIN memmap
        BY <1>1
      <3> QED
        BY <3>1 DEF PushedBefore, UsablePages
    <2> QED
      BY <1>3, <1>4, <2>1, <2>2
  <1> HIDE DEF p
  <1>7. Pushed \cup {p} \subseteq UsablePages(bootmap)
    BY <1>6, CarvedPages
  <1>8. IsFiniteSet(Pushed) /\ Cardinality(Pushed) = pm_stack_idx
    BY <1>1, <1>2, SlotsAreCounted
  <1>9. Cardinality(Pushed \cup {p}) = pm_stack_idx + 1
    BY <1>3, <1>4, <1>5, <1>8, FS_AddElement
  <1>10. IsFiniteSet(UsablePages(bootmap)) /\ Cardinality(UsablePages(bootmap)) = pm_total_pages
    BY <1>1, AllSeen DEF CountInv, Counted
  <1>11. Cardinality(Pushed \cup {p}) <= pm_total_pages
    BY <1>7, <1>10, FS_Subset
  <1> QED
    BY <1>1, <1>9, <1>11

LEMMA BootPlace ==
  ASSUME TypeInv, PlaceInv, pmm_init
  PROVE  PlaceInv'
  <1>1. /\ bootmap \in MemMaps /\ Len(bootmap) \in Nat /\ DOMAIN bootmap = 1 .. Len(bootmap)
        /\ Len(memmap) = Len(bootmap) /\ ent \in Int
        /\ bootmap' = bootmap
    BY MapLength, BootMapEntries DEF TypeInv, TypeOK, pmm_init, CountEntry, CountDone,
       PlaceStack, SkipEntry, NoPlace, PushPage, NextEntry, PushDone, pmm_memory
  <1>2. UsableEntries' = UsableEntries /\ UsableEntries \subseteq 1 .. Len(bootmap)
    BY <1>1 DEF UsableEntries
  <1>3. CASE CountEntry
    BY <1>3 DEF CountEntry, PlaceInv
  <1>4. phase # "count" => \A a : TooSmall(a)' <=> TooSmall(a)
    BY <1>1 DEF pmm_init, CountEntry, CountDone, PlaceStack, SkipEntry, NoPlace, PushPage,
       NextEntry, PushDone, pmm_memory, TooSmall, pm_stack_size
  <1>5. CASE CountDone
    <2>1. phase' = "locate" /\ ent' = Len(bootmap)
      BY <1>1, <1>5 DEF CountDone
    <2>2. \A a \in UsableEntries : ~(a > ent')
      BY <1>1, <1>2, <2>1
    <2> QED
      BY <1>2, <2>1, <2>2 DEF PlaceInv
  <1>6. CASE PlaceStack
    <2>1. /\ phase = "locate" /\ memmap = bootmap /\ ent \in 1 .. Len(bootmap)
          /\ IsUsable(bootmap[ent]) /\ bootmap[ent].length >= pm_stack_size
          /\ pm_stack_base' = bootmap[ent].base + bootmap[ent].length - pm_stack_size
          /\ phase' = "push"
      BY <1>1, <1>6 DEF PlaceStack, CanHold, TypeInv, LoopBounds, BeforePlace
    <2>2. bootmap[ent].base \in Nat /\ bootmap[ent].base > 0 /\ bootmap[ent].length \in Nat
      BY <1>1, <2>1, BootMapType, BootMapEntries DEF NULL
    <2>3. pm_stack_size \in Nat
      BY StackSizeType DEF TypeInv, TypeOK
    <2>4. \A b, l, z \in Nat : l >= z /\ b > 0 => b + l - z # 0
      OBVIOUS
    <2>5. pm_stack_base' # NULL
      BY <2>1, <2>2, <2>3, <2>4 DEF NULL
    <2> QED
      BY <2>1, <2>5 DEF PlaceInv
  <1>7. CASE SkipEntry
    <2>1. /\ phase = "locate" /\ phase' = "locate" /\ memmap = bootmap /\ ent' = ent - 1
          /\ ent \in 1 .. Len(bootmap) /\ ~CanHold(bootmap[ent])
      BY <1>1, <1>7 DEF SkipEntry, TypeInv, LoopBounds, BeforePlace
    <2>2. IsUsable(bootmap[ent]) => TooSmall(ent)
      <3>1. pm_stack_size \in Nat /\ bootmap[ent].length \in Nat
        BY <1>1, <2>1, StackSizeType, BootMapEntries DEF TypeInv, TypeOK
      <3> QED
        BY <2>1, <3>1 DEF CanHold, TooSmall
    <2>3. \A a \in UsableEntries : a > ent' => a = ent \/ a > ent
      BY <1>1, <1>2, <2>1
    <2>4. \A a \in UsableEntries : a > ent' => TooSmall(a)
      BY <2>1, <2>2, <2>3 DEF PlaceInv, UsableEntries
    <2> QED
      BY <1>2, <1>4, <2>1, <2>4 DEF PlaceInv
  <1>8. CASE NoPlace
    <2>1. phase = "locate" /\ phase' = "push" /\ ent = 0
      BY <1>8 DEF NoPlace
    <2>2. \A a \in UsableEntries : a > ent
      BY <1>1, <1>2, <2>1
    <2> QED
      BY <1>2, <1>4, <2>1, <2>2 DEF PlaceInv
  <1>9. CASE PushPage \/ NextEntry \/ PushDone
    <2>1. phase = "push" /\ phase' \notin {"count", "locate"} /\ UNCHANGED pm_stack_base
      BY <1>9 DEF PushPage, NextEntry, PushDone, pmm_memory
    <2> QED
      BY <1>2, <1>4, <2>1 DEF PlaceInv
  <1> QED
    BY <1>3, <1>5, <1>6, <1>7, <1>8, <1>9 DEF pmm_init

LEMMA BootEnd ==
  ASSUME FragmentInv, pmm_init
  PROVE  EndInv'
  <1>1. CASE PushPage
    <2>1. pm_stack_idx < pm_total_pages /\ pm_stack_idx \in Nat /\ pm_total_pages \in Nat
      BY <1>1, NotFull DEF FragmentInv, TypeInv, TypeOK
    <2>2. UNCHANGED <<pm_stack_base, pm_total_pages>> /\ phase = "push"
      BY <1>1 DEF PushPage, pmm_memory
    <2>3. phase' # "failed" /\ (phase' = "fault" => pm_stack_base = NULL)
      BY <1>1, <2>1, <2>2 DEF PushPage
    <2> QED
      BY <2>1, <2>2, <2>3 DEF EndInv
  <1>2. CASE ~PushPage
    BY <1>2 DEF pmm_init, CountEntry, CountDone, PlaceStack, SkipEntry, NoPlace, NextEntry,
                PushDone, EndInv
  <1> QED
    BY <1>1, <1>2

-----------------------------------------------------------------------------
LEMMA InitFragmentInv == Init => FragmentInv
  <1> SUFFICES ASSUME Init PROVE FragmentInv
    OBVIOUS
  <1>1. /\ phase = "count" /\ ent = 1 /\ pm_total_pages = 0
        /\ TypeInv /\ Carved /\ NotCarved /\ Pushing
    BY InitPageInv DEF PageInv, Init, PMMInit
  <1>2. Seen(0) = {} /\ PagesSeen(0) = {}
    BY DEF Seen, PagesSeen
  <1>3. Counted(0)
    <2>1. \A k \in Nat : 0 <= k * 0
      BY SMT
    <2> QED
      BY <1>1, <1>2, <2>1, FS_EmptySet DEF Counted
  <1>4. CountInv
    BY <1>1, <1>3 DEF CountInv
  <1> QED
    BY <1>1, <1>4 DEF FragmentInv, PlaceInv, EndInv

(* The clients come when all is done, and leave the map and the array be.  *)
LEMMA RestFragmentInv ==
  ASSUME FragmentInv, TypeInv',
         UNCHANGED <<bootmap, memmap, pm_stack_base, pm_total_pages>>,
         phase = "ready" /\ phase' \in {"ready", "halted"}
  PROVE  FragmentInv'
  <1>1. Carved' /\ NotCarved'
    BY DEF FragmentInv, Carved, NotCarved, CarvedFrom, pm_stack_size
  <1>2. CountInv'
    <2>1. PICK n : n = Len(bootmap)
      OBVIOUS
    <2>2. Counted(n)
      BY <2>1 DEF FragmentInv, CountInv
    <2>3. Counted(n)'
      BY <2>2, CountedStays
    <2>4. n = Len(bootmap')
      BY <2>1
    <2> QED
      BY <2>3, <2>4 DEF CountInv
  <1>3. PlaceInv'
    BY DEF FragmentInv, PlaceInv, TooSmall, pm_stack_size, UsableEntries
  <1> QED
    BY <1>1, <1>2, <1>3 DEF FragmentInv, Pushing, EndInv

LEMMA NextFragmentInv ==
  ASSUME FragmentInv, [Next]_vars
  PROVE  FragmentInv'
  <1>1. CASE Boot
    BY <1>1, BootTypeInv, BootCarved, BootPushing, BootCount, BootPlace, BootEnd
       DEF FragmentInv, Boot
  <1>2. ASSUME NEW c \in Clients, NEW n \in Runs, Request(c, n) PROVE FragmentInv'
    BY <1>2, RequestTypeInv, RestFragmentInv
       DEF FragmentInv, Request, pmm_request_pages, pmm_memory
  <1>3. ASSUME NEW c \in Clients, Free(c) PROVE FragmentInv'
    BY <1>3, FreeTypeInv, RestFragmentInv DEF FragmentInv, Free, pmm_free_pages, pmm_memory
  <1>4. CASE UNCHANGED vars
    <2>1. UNCHANGED <<phase, bootmap, memmap, ent, off, pm_stack, pm_stack_base, pm_stack_idx,
                      pm_total_pages, pm_free_pages, pm_used_pages, held>>
      BY <1>4 DEF vars, pmm_vars, pmm_memory, pmm_loops, pmm_counts
    <2>2. TypeInv' /\ Carved' /\ NotCarved'
      BY <2>1 DEF FragmentInv, TypeInv, TypeOK, BeforePlace, LoopBounds, NoArrayNoGrant,
                  Carved, NotCarved, CarvedFrom, pm_stack_size
    <2>3. Pushing'
      BY <2>1 DEF FragmentInv, Pushing, Distinct, FreePages, FreeSlots, Pushed, PushedBefore,
                  EntryPages
    <2>4. CountInv' /\ PlaceInv' /\ EndInv'
      BY <2>1 DEF FragmentInv, CountInv, Counted, Seen, PagesSeen, EntryPages,
                  PlaceInv, TooSmall, pm_stack_size, UsableEntries, EndInv
    <2> QED
      BY <2>2, <2>3, <2>4 DEF FragmentInv
  <1> QED
    BY <1>1, <1>2, <1>3, <1>4 DEF Next

(* More than m entries are needed to hold t pages, when each of them holds *)
(* less than the array, of one page for every m of the t.                  *)
LEMMA ManyFragments ==
  ASSUME NEW t \in Nat \ {0}, NEW m \in Nat \ {0}, NEW n \in Nat,
         t <= ((t + m - 1) \div m - 1) * n
  PROVE  n > m
  <1> DEFINE q == (t + m - 1) \div m - 1
  <1>1. q \in Nat /\ q * m <= t - 1
    <2>1. t + m - 1 \in Nat /\ t + m - 1 >= m
      OBVIOUS
    <2>2. /\ (t + m - 1) \div m \in Nat
          /\ m * ((t + m - 1) \div m) <= t + m - 1
          /\ (t + m - 1) \div m >= 1
      BY <2>1, SMT
    <2> DEFINE d == (t + m - 1) \div m
    <2> HIDE DEF d
    <2>3. d \in Nat /\ m * d <= t + m - 1 /\ d >= 1 /\ q = d - 1
      BY <2>2 DEF d
    <2>4. (d - 1) * m = m * d - m
      BY <2>3, SMT
    <2> QED
      BY <2>3, <2>4
  <1> HIDE DEF q
  <1>2. t <= q * n
    BY DEF q
  <1>3. n <= m => q * n <= q * m
    BY <1>1, SMT
  <1> QED
    BY <1>1, <1>2, <1>3, SMT

(* pmm_init fails to place its array only when the firmware hands over     *)
(* more usable fragments than a page has slots, for every memory map; and  *)
(* it never takes its overflow return.                                     *)
THEOREM PMMBootFailsOnlyOnFragments == Spec => []BootFailsOnlyOnFragments
  <1>1. FragmentInv => BootFailsOnlyOnFragments
    <2> SUFFICES ASSUME FragmentInv, phase = "fault"
                 PROVE  Cardinality(UsableEntries) > EntriesPerPage
      BY DEF FragmentInv, EndInv, BootFailsOnlyOnFragments
    <2>1. /\ pm_total_pages \in Nat \ {0} /\ bootmap \in MemMaps
          /\ \A a \in UsableEntries : TooSmall(a)
      BY DEF FragmentInv, EndInv, PlaceInv, TypeInv, TypeOK
    <2>2. /\ IsFiniteSet(UsableEntries)
          /\ \A k \in Nat : (\A a \in UsableEntries : bootmap[a].length <= k) =>
                             pm_total_pages <= k * Cardinality(UsableEntries)
      BY <2>1, AllSeen DEF FragmentInv, CountInv, Counted
    <2>3. Cardinality(UsableEntries) \in Nat
      BY <2>2, FS_CardinalityType
    <2>4. pm_stack_size \in Nat \ {0}
      <3>1. pm_stack_size \in Nat /\ pm_total_pages <= EntriesPerPage * pm_stack_size
        BY <2>1, StackSizeType
      <3>2. EntriesPerPage * 0 = 0
        BY EntriesPerPageAssumption
      <3> QED
        BY <2>1, <3>1, <3>2
    <2>5. \A a \in UsableEntries : bootmap[a].length <= pm_stack_size - 1
      BY <2>1, <2>4, BootMapEntries DEF TooSmall, UsableEntries
    <2>6. pm_total_pages <= (pm_stack_size - 1) * Cardinality(UsableEntries)
      BY <2>2, <2>4, <2>5
    <2> QED
      BY <2>1, <2>3, <2>6, ManyFragments, EntriesPerPageAssumption DEF pm_stack_size
  <1> QED
    BY <1>1, InitFragmentInv, NextFragmentInv, PTL DEF Spec

-----------------------------------------------------------------------------
(* The counters, for requests of any size.  Until the end of loop 3 the    *)
(* pages are counted by PageInv, afterwards Accounting holds by itself.    *)
CounterInv ==
  /\ FragmentInv
  /\ phase \in {"count", "locate", "push"} => PageInv /\ pm_used_pages = 0
  /\ Accounting

LEMMA PushDoneAgrees ==
  ASSUME CounterInv, Boot, PushDone
  PROVE  Accounting'
  <1>1. /\ phase = "push" /\ UNCHANGED <<bootmap, pm_total_pages, pm_stack, pm_stack_idx, pm_stack_base>>
        /\ phase' = "ready" /\ pm_free_pages' = pm_stack_idx /\ pm_used_pages' = 0
        /\ UNCHANGED held
    BY DEF PushDone, Boot, CounterInv, pmm_memory
  <1>2. PageInv' /\ FragmentInv
    BY <1>1, BootPageInv DEF CounterInv
  <1>3. HeldCount' = 0
    <2>1. UNION {PagesOf(c)' : c \in Clients} = {}
      BY <1>1 DEF CounterInv, PageInv, Pushing, PagesOf, NoGrant
    <2> QED
      BY <2>1, FS_EmptySet DEF HeldCount
  <1>4. /\ UsablePages(bootmap)' = UsablePages(bootmap) /\ StackPages' = StackPages
        /\ pm_stack_size' = pm_stack_size /\ FreePages' = FreePages
    BY <1>1 DEF UsablePages, EntryPages, StackPages, pm_stack_size, FreePages, FreeSlots
  <1>5. FreePages = UsablePages(bootmap) \ StackPages
    <2>1. UNION {RunOf(held'[c]) : c \in Clients} = {}
      BY <1>1 DEF CounterInv, PageInv, Pushing, RunOf, Pages, NoGrant, NULL
    <2> QED
      BY <1>1, <1>2, <1>4, <2>1 DEF PageInv, Partition
  <1>6. pm_stack_idx \in Nat /\ Distinct /\ pm_total_pages \in Nat /\ bootmap \in MemMaps
        /\ pm_stack_base \in Nat
    BY <1>1 DEF CounterInv, PageInv, Pushing, TypeInv, TypeOK
  <1>7. /\ IsFiniteSet(UsablePages(bootmap)) /\ Cardinality(UsablePages(bootmap)) = pm_total_pages
        /\ Cardinality(FreePages) = pm_stack_idx
    BY <1>1, <1>2, <1>6, AllSeen, SlotsAreCounted DEF FragmentInv, CountInv, Counted
  <1>8. StackPages \subseteq UsablePages(bootmap)
    BY <1>1, CarvedPages DEF CounterInv, PageInv
  <1>9. pm_stack_idx = pm_total_pages - Cardinality(StackPages)
    <2>1. UsablePages(bootmap) \cap StackPages = StackPages
      BY <1>8
    <2> QED
      BY <1>5, <1>7, <2>1, FS_Difference
  <1>10. Cardinality(StackPages) = pm_stack_size
    <2>1. pm_stack_size \in Nat
      BY <1>6, StackSizeType
    <2>2. CASE pm_stack_base = NULL
      <3>1. StackPages = {} /\ Cardinality(StackPages) = 0
        BY <2>2, FS_EmptySet DEF StackPages
      <3>2. pm_stack_idx = 0
        BY <1>1, <2>2 DEF CounterInv, PageInv, TypeInv, TypeOK
      <3>3. pm_total_pages = 0
        BY <1>6, <1>9, <3>1, <3>2
      <3>4. \A m \in Nat \ {0} : (0 + m - 1) \div m = 0
        BY SMT
      <3>5. pm_stack_size = 0
        BY <3>3, <3>4, EntriesPerPageAssumption DEF pm_stack_size
      <3> QED
        BY <3>1, <3>5
    <2>3. CASE pm_stack_base # NULL
      <3> DEFINE b == pm_stack_base
                 l == pm_stack_size
      <3>1. StackPages = b .. b + l - 1
        BY <2>3 DEF StackPages, Pages
      <3>2. b \in Nat /\ l \in Nat
        BY <1>6, <2>1
      <3> HIDE DEF b, l
      <3>3. /\ b \in Int /\ b + l - 1 \in Int
            /\ IF b > b + l - 1 THEN l = 0 ELSE l = b + l - 1 - b + 1
        BY <3>2
      <3>4. Cardinality(b .. b + l - 1) = l
        BY <3>2, <3>3, FS_Interval
      <3> QED
        BY <3>1, <3>4 DEF l
    <2> QED
      BY <2>2, <2>3
  <1>11. pm_stack_size \in Nat
    BY <1>6, StackSizeType
  <1>12. pm_free_pages' + pm_used_pages' + pm_stack_size = pm_total_pages
    BY <1>1, <1>6, <1>9, <1>10, <1>11
  <1> QED
    BY <1>1, <1>3, <1>4, <1>7, <1>12 DEF Accounting

(* Grants are made and given back as a whole.                              *)
Grants == [Clients -> [base : Nat, n : Nat]]

PagesIn(h, c) == {c} \X (0 .. h[c].n - 1)

LEMMA PagesInCount ==
  ASSUME NEW h \in Grants, NEW c \in Clients
  PROVE  IsFiniteSet(PagesIn(h, c)) /\ Cardinality(PagesIn(h, c)) = h[c].n
  <1> DEFINE n == h[c].n
             f == [k \in 0 .. n - 1 |-> <<c, k>>]
  <1>1. n \in Nat
    BY DEF Grants
  <1>2. IsFiniteSet(0 .. n - 1) /\ Cardinality(0 .. n - 1) = n
    <2> HIDE DEF n
    <2>1. 0 \in Int /\ n - 1 \in Int /\ (IF 0 > n - 1 THEN 0 ELSE n - 1 - 0 + 1) = n
      BY <1>1
    <2> QED
      BY <2>1, FS_Interval
  <1>3. f \in Bijection(0 .. n - 1, PagesIn(h, c))
    BY DEF PagesIn, Bijection, Injection, Surjection, IsInjective
  <1> QED
    BY <1>2, <1>3, FS_Bijection DEF ExistsBijection

LEMMA PagesInFinite ==
  ASSUME NEW h, NEW S, IsFiniteSet(S)
  PROVE  IsFiniteSet({PagesIn(h, d) : d \in S})
  <1> DEFINE f == [d \in S |-> PagesIn(h, d)]
             T == {PagesIn(h, d) : d \in S}
  <1>1. f \in Surjection(S, T)
    BY DEF Surjection
  <1> HIDE DEF f, T
  <1>2. IsFiniteSet(T)
    BY <1>1, FS_Surjection
  <1> QED
    BY <1>2 DEF T

(* All that h grants, apart from what it grants to c. *)
Others(h, c) == UNION {PagesIn(h, d) : d \in Clients \ {c}}

LEMMA GrantedPages ==
  ASSUME NEW h \in Grants, NEW c \in Clients
  PROVE  /\ Cardinality(Others(h, c)) \in Nat
         /\ Cardinality(UNION {PagesIn(h, d) : d \in Clients})
              = Cardinality(Others(h, c)) + h[c].n
  <1>1. IsFiniteSet(Others(h, c))
    <2>1. IsFiniteSet(Clients \ {c})
      BY ClientsAssumption, FS_RemoveElement
    <2>2. IsFiniteSet({PagesIn(h, d) : d \in Clients \ {c}})
      BY <2>1, PagesInFinite
    <2> QED
      BY <2>2, PagesInCount, FS_UNION DEF Others
  <1>2. Others(h, c) \cap PagesIn(h, c) = {}
    BY DEF PagesIn, Others
  <1>3. UNION {PagesIn(h, d) : d \in Clients} = Others(h, c) \cup PagesIn(h, c)
    BY DEF Others
  <1>4. /\ IsFiniteSet(PagesIn(h, c)) /\ Cardinality(PagesIn(h, c)) = h[c].n
        /\ h[c].n \in Nat
    BY PagesInCount DEF Grants
  <1>5. Cardinality(Others(h, c)) \in Nat
    BY <1>1, FS_CardinalityType
  <1>6. Cardinality(Others(h, c) \cup PagesIn(h, c)) = Cardinality(Others(h, c)) + h[c].n
    <2>1. Cardinality({}) = 0
      BY FS_EmptySet
    <2>2. Cardinality(Others(h, c) \cup PagesIn(h, c))
            = Cardinality(Others(h, c)) + Cardinality(PagesIn(h, c)) - Cardinality({})
      BY <1>1, <1>2, <1>4, FS_Union
    <2> QED
      BY <1>4, <1>5, <2>1, <2>2
  <1> QED
    BY <1>3, <1>5, <1>6

LEMMA HeldChanges ==
  ASSUME TypeInv, TypeInv', NEW c \in Clients, NEW g,
         held' = [held EXCEPT ![c] = g]
  PROVE  /\ HeldCount \in Nat /\ held[c].n <= HeldCount
         /\ HeldCount' = HeldCount - held[c].n + g.n
  <1>1. /\ HeldCount = Cardinality(UNION {PagesIn(held, d) : d \in Clients})
        /\ HeldCount' = Cardinality(UNION {PagesIn(held', d) : d \in Clients})
    BY DEF HeldCount, PagesOf, PagesIn
  <1>2. held \in Grants /\ held' \in Grants
    BY DEF TypeInv, TypeOK, Grants
  <1>3. Others(held', c) = Others(held, c)
    BY <1>2 DEF Others, PagesIn, Grants
  <1>4. held'[c] = g /\ held[c].n \in Nat /\ g.n \in Nat
    BY <1>2 DEF Grants
  <1>5. /\ HeldCount = Cardinality(Others(held, c)) + held[c].n
        /\ HeldCount' = Cardinality(Others(held, c)) + held'[c].n
        /\ Cardinality(Others(held, c)) \in Nat
    BY <1>1, <1>2, <1>3, GrantedPages
  <1> QED
    BY <1>4, <1>5

(* A step that leaves the array, and takes d pages from the free ones to   *)
(* the used ones.                                                          *)
LEMMA MoveAgrees ==
  ASSUME CounterInv, NEW d \in Int,
         UNCHANGED <<bootmap, pm_total_pages>>, phase = "ready",
         pm_stack_idx' = pm_stack_idx - d,
         pm_free_pages' = pm_free_pages - d,
         pm_used_pages' = pm_used_pages + d,
         HeldCount' = HeldCount + d
  PROVE  Accounting'
  <1>1. /\ pm_free_pages = pm_stack_idx /\ pm_used_pages = HeldCount
        /\ pm_free_pages + pm_used_pages + pm_stack_size = Cardinality(UsablePages(bootmap))
        /\ pm_free_pages \in Int /\ pm_used_pages \in Int /\ pm_stack_size \in Nat
    BY StackSizeType DEF CounterInv, FragmentInv, Accounting, TypeInv, TypeOK
  <1>2. UsablePages(bootmap)' = UsablePages(bootmap) /\ pm_stack_size' = pm_stack_size
    BY DEF UsablePages, EntryPages, pm_stack_size
  <1>3. pm_free_pages' + pm_used_pages' = pm_free_pages + pm_used_pages
    BY <1>1
  <1> QED
    BY <1>1, <1>2, <1>3 DEF Accounting

LEMMA BootCounterInv ==
  ASSUME CounterInv, Boot
  PROVE  CounterInv'
  <1>1. phase \in {"count", "locate", "push"} /\ pm_used_pages' = pm_used_pages
    BY DEF Boot, pmm_init, CountEntry, CountDone, PlaceStack, SkipEntry, NoPlace,
           PushPage, NextEntry, PushDone, pmm_counts
  <1>2. PageInv' /\ FragmentInv'
    BY <1>1, BootPageInv, NextFragmentInv DEF CounterInv, Next
  <1>3. CASE PushDone
    BY <1>2, <1>3, PushDoneAgrees DEF CounterInv, PushDone
  <1>4. CASE ~PushDone
    <2>1. phase' # "ready"
      BY <1>4 DEF Boot, pmm_init, CountEntry, CountDone, PlaceStack, SkipEntry, NoPlace,
                  PushPage, NextEntry
    <2> QED
      BY <1>1, <1>2, <2>1 DEF CounterInv, Accounting
  <1> QED
    BY <1>3, <1>4

LEMMA RequestCounterInv ==
  ASSUME CounterInv, NEW c \in Clients, NEW n \in Runs, Request(c, n)
  PROVE  CounterInv'
  <1>1. /\ FragmentInv' /\ TypeInv /\ TypeInv'
        /\ phase = "ready" /\ phase' = "ready" /\ held[c] = NoGrant
        /\ UNCHANGED <<bootmap, pm_total_pages>>
    BY NextFragmentInv DEF CounterInv, FragmentInv, Next, Request, pmm_request_pages, pmm_memory
  <1>2. CASE CanGrant(n)
    <2> DEFINE g == [base |-> Granted(n), n |-> n]
    <2>1. /\ held' = [held EXCEPT ![c] = g] /\ g.n = n /\ n \in Int /\ held[c].n = 0
          /\ pm_stack_idx' = pm_stack_idx - n
          /\ pm_free_pages' = pm_free_pages - n
          /\ pm_used_pages' = pm_used_pages + n
      BY <1>1, <1>2, RunsAssumption DEF Request, pmm_request_pages, NoGrant
    <2> HIDE DEF g
    <2>2. HeldCount \in Nat /\ HeldCount' = HeldCount - 0 + n
      BY <1>1, <2>1, HeldChanges
    <2>3. HeldCount' = HeldCount + n
      BY <2>1, <2>2
    <2>4. Accounting'
      BY <1>1, <2>1, <2>3, MoveAgrees
    <2> QED
      BY <1>1, <2>4 DEF CounterInv
  <1>3. CASE ~CanGrant(n)
    <2>1. UNCHANGED <<bootmap, pm_total_pages, pm_stack_idx, pm_free_pages, pm_used_pages, held>>
      BY <1>1, <1>3 DEF Request, pmm_request_pages, pmm_counts
    <2>2. Accounting'
      BY <1>1, <2>1
         DEF CounterInv, Accounting, HeldCount, PagesOf, pm_stack_size, UsablePages, EntryPages
    <2> QED
      BY <1>1, <2>2 DEF CounterInv
  <1> QED
    BY <1>2, <1>3

(* What is given back fits the array: all that is free or held is usable,  *)
(* and the array has a slot for every usable page.                         *)
LEMMA GrantsFit ==
  ASSUME CounterInv, phase = "ready", NEW c \in Clients
  PROVE  held[c].n <= pm_total_pages - pm_stack_idx
  <1> DEFINE n == held[c].n
             h == held
  <1>1. TypeInv /\ held \in Grants /\ n \in Nat
    BY DEF CounterInv, FragmentInv, TypeInv, TypeOK, Grants
  <1>2. /\ HeldCount = Cardinality(UNION {PagesIn(h, d) : d \in Clients})
        /\ Cardinality(Others(h, c)) \in Nat
        /\ HeldCount = Cardinality(Others(h, c)) + n
    BY <1>1, GrantedPages DEF HeldCount, PagesOf, PagesIn
  <1> HIDE DEF n
  <1>3. HeldCount \in Nat /\ n <= HeldCount
    BY <1>1, <1>2
  <1>4. Cardinality(UsablePages(bootmap)) = pm_total_pages
    BY <1>1, AllSeen DEF CounterInv, FragmentInv, CountInv, Counted, TypeInv, TypeOK
  <1>5. /\ pm_stack_idx \in Nat /\ pm_total_pages \in Nat /\ pm_stack_size \in Nat
        /\ pm_stack_idx + HeldCount + pm_stack_size = pm_total_pages
    BY <1>1, <1>4, StackSizeType DEF CounterInv, Accounting, TypeInv, TypeOK
  <1>6. n <= pm_total_pages - pm_stack_idx
    BY <1>1, <1>3, <1>5
  <1> QED
    BY <1>6 DEF n

LEMMA FreeCounterInv ==
  ASSUME CounterInv, NEW c \in Clients, Free(c)
  PROVE  CounterInv'
  <1> DEFINE n == held[c].n
  <1>1. /\ FragmentInv' /\ TypeInv /\ TypeInv'
        /\ phase = "ready" /\ UNCHANGED <<bootmap, pm_total_pages>>
        /\ phase' \in {"ready", "halted"} /\ held' = [held EXCEPT ![c] = NoGrant]
    BY NextFragmentInv DEF CounterInv, FragmentInv, Next, Free, pmm_free_pages, pmm_memory
  <1>2. /\ HeldCount \in Nat /\ n <= HeldCount /\ n \in Nat
        /\ HeldCount' = HeldCount - n + 0
    <2>1. NoGrant.n = 0 /\ n \in Nat
      BY <1>1 DEF NoGrant, TypeInv, TypeOK
    <2> QED
      BY <1>1, <2>1, HeldChanges
  <1>4. pm_stack_idx \in Nat /\ pm_free_pages \in Int /\ pm_used_pages \in Int
    BY <1>1 DEF TypeInv, TypeOK
  <1>5. n <= pm_total_pages - pm_stack_idx
    BY <1>1, GrantsFit
  <1>6. CASE phase' = "ready"
    <2>1. /\ pm_stack_idx' = pm_stack_idx + n
          /\ pm_free_pages' = pm_free_pages + n
          /\ pm_used_pages' = pm_used_pages - n
      <3>1. pmm_free_pages(held[c].base, n) /\ phase' # "halted"
        BY <1>6 DEF Free
      <3> QED
        BY <1>5, <3>1 DEF pmm_free_pages
    <2> HIDE DEF n
    <2>2. /\ -n \in Int
          /\ pm_stack_idx' = pm_stack_idx - (-n)
          /\ pm_free_pages' = pm_free_pages - (-n)
          /\ pm_used_pages' = pm_used_pages + (-n)
          /\ HeldCount' = HeldCount + (-n)
      BY <1>2, <1>4, <2>1
    <2>3. Accounting'
      BY <1>1, <2>2, MoveAgrees
    <2> QED
      BY <1>1, <1>6, <2>3 DEF CounterInv
  <1>7. CASE phase' = "halted"
    BY <1>1, <1>7 DEF CounterInv, Accounting
  <1> QED
    BY <1>1, <1>6, <1>7

LEMMA NextCounterInv ==
  ASSUME CounterInv, [Next]_vars
  PROVE  CounterInv'
  <1>1. CASE UNCHANGED vars
    <2>1. FragmentInv'
      BY <1>1, NextFragmentInv DEF CounterInv
    <2>2. UNCHANGED <<phase, bootmap, memmap, ent, off, pm_stack, pm_stack_base, pm_stack_idx,
                      pm_total_pages, pm_free_pages, pm_used_pages, held>>
      BY <1>1 DEF vars, pmm_vars, pmm_memory, pmm_loops, pmm_counts
    <2>3. Accounting'
      BY <2>2
         DEF CounterInv, Accounting, HeldCount, PagesOf, pm_stack_size, UsablePages, EntryPages
    <2>4. PageInv => PageInv'
      BY <1>1, StutterPageInv
    <2> QED
      BY <2>1, <2>2, <2>3, <2>4 DEF CounterInv
  <1> QED
    BY <1>1, BootCounterInv, RequestCounterInv, FreeCounterInv DEF Next

LEMMA InitCounterInv == Init => CounterInv
  BY InitPageInv, InitFragmentInv DEF CounterInv, Accounting, Init, PMMInit

(* Whenever pmm.c is at rest, pm_free_pages is the stack index,            *)
(* pm_used_pages the number of pages in grants, and with the pages of the  *)
(* array they make up all that is usable: no request or release of any     *)
(* size gets the counters of pmm.c wrong.                                  *)
THEOREM PMMAccounting == Spec => []Accounting
  <1>1. Init => CounterInv
    BY InitCounterInv
  <1>2. CounterInv /\ [Next]_vars => CounterInv'
    BY NextCounterInv
  <1>3. CounterInv => Accounting
    BY DEF CounterInv
  <1> QED
    BY <1>1, <1>2, <1>3, PTL DEF Spec

-----------------------------------------------------------------------------
(* The arguments of pmm_free_pages.  Page 0 is in no slot below the index  *)
(* and is the base of no grant, for requests of any size: so a client that *)
(* keeps the protocol never fails an ASSERT.                               *)
Valid ==
  /\ phase = "ready" => \A s \in FreeSlots : pm_stack[s] # NULL
  /\ \A c \in Holders : held[c].base # NULL /\ held[c].n # 0
  /\ phase # "halted"

ValidInv == FragmentInv /\ Valid

LEMMA BootPagesArePages ==
  ASSUME TypeInv, Carved, NotCarved, Pushing, PushDone
  PROVE  \A s \in FreeSlots : pm_stack[s] # NULL
  <1>1. phase = "push" /\ ent > Len(memmap) /\ Len(memmap) \in Nat /\ ent \in Nat
        /\ DOMAIN memmap = 1 .. Len(memmap) /\ ent <= Len(memmap) + 1
    BY MapLength DEF PushDone, TypeInv, TypeOK
  <1>2. FreePages \subseteq UsablePages(memmap)
    BY <1>1 DEF Pushing, Pushed, PushedBefore, UsablePages
  <1>3. \A p \in UsablePages(bootmap) : p # NULL
    <2>1. \A a \in DOMAIN bootmap : IsUsable(bootmap[a]) => \A p \in EntryPages(bootmap, a) : p # NULL
      BY BootMapType DEF TypeInv, TypeOK, EntryPages, Pages, Entry, NULL
    <2> QED
      BY <2>1 DEF UsablePages
  <1> QED
    BY <1>2, <1>3, CarvedPages DEF FreePages

LEMMA BootValid ==
  ASSUME ValidInv, Boot
  PROVE  Valid'
  <1>1. UNCHANGED held /\ phase' # "halted" /\ phase # "ready"
    BY DEF Boot, pmm_init, CountEntry, CountDone, PlaceStack, SkipEntry, NoPlace, PushPage,
           NextEntry, PushDone, ValidInv, Valid
  <1>2. \A c \in Holders' : held'[c].base # NULL /\ held'[c].n # 0
    BY <1>1 DEF Holders, ValidInv, Valid
  <1>3. CASE PushDone
    <2>1. \A s \in FreeSlots : pm_stack[s] # NULL
      BY <1>3, BootPagesArePages DEF ValidInv, FragmentInv
    <2>2. UNCHANGED <<pm_stack, pm_stack_idx>>
      BY <1>3 DEF PushDone
    <2> QED
      BY <1>1, <1>2, <2>1, <2>2 DEF Valid, FreeSlots
  <1>4. CASE ~PushDone
    <2>1. phase' # "ready"
      BY <1>1, <1>4 DEF Boot, pmm_init, CountEntry, CountDone, PlaceStack, SkipEntry, NoPlace,
                        PushPage, NextEntry
    <2> QED
      BY <1>1, <1>2, <2>1 DEF Valid
  <1> QED
    BY <1>3, <1>4

LEMMA RequestValid ==
  ASSUME ValidInv, NEW c \in Clients, NEW n \in Runs, Request(c, n)
  PROVE  Valid'
  <1>1. /\ TypeOK /\ n \in Nat /\ phase = "ready" /\ phase' = "ready" /\ UNCHANGED pm_stack
        /\ held \in [Clients -> [base : Nat, n : Nat]] /\ pm_stack_idx \in Nat
    BY RunsAssumption DEF ValidInv, FragmentInv, TypeInv, TypeOK, Request, pmm_request_pages
  <1>2. CASE CanGrant(n)
    <2>1. pm_stack_idx' = pm_stack_idx - n /\ n # 0 /\ n <= pm_stack_idx
      BY <1>2 DEF Request, pmm_request_pages, CanGrant
    <2>2. FreeSlots' \subseteq FreeSlots /\ pm_stack_idx - n \in FreeSlots
      BY <1>1, <2>1 DEF FreeSlots
    <2>3. held' = [held EXCEPT ![c] = [base |-> pm_stack[pm_stack_idx - n], n |-> n]]
      BY <1>2 DEF Request, Granted
    <2>4. pm_stack[pm_stack_idx - n] # NULL
      BY <1>1, <2>2 DEF ValidInv, Valid
    <2>5. \A d \in Holders' : held'[d].base # NULL /\ held'[d].n # 0
      BY <1>1, <2>1, <2>3, <2>4 DEF ValidInv, Valid, Holders
    <2> QED
      BY <1>1, <2>2, <2>5 DEF ValidInv, Valid
  <1>3. CASE ~CanGrant(n)
    <2>1. UNCHANGED <<held, pm_stack_idx>>
      BY <1>3 DEF Request, pmm_request_pages, pmm_counts
    <2> QED
      BY <1>1, <2>1 DEF ValidInv, Valid, Holders, FreeSlots
  <1> QED
    BY <1>2, <1>3

LEMMA FreeValid ==
  ASSUME ValidInv, NEW c \in Clients, Free(c)
  PROVE  Valid'
  <1> DEFINE p == held[c].base
             n == held[c].n
             room == pm_total_pages - pm_stack_idx
             k == IF n <= room THEN n ELSE room
  <1>1. /\ phase = "ready" /\ held[c] # NoGrant
        /\ held \in [Clients -> [base : Nat, n : Nat]]
        /\ held' = [held EXCEPT ![c] = NoGrant]
    BY DEF Free, pmm_free_pages, ValidInv, FragmentInv, TypeInv, TypeOK
  <1>2. p \in Nat /\ n \in Nat /\ p # NULL /\ n # 0 /\ n > 0
    BY <1>1 DEF ValidInv, Valid, Holders
  <1>3. /\ phase' = "ready"
        /\ pm_stack' = PushRun(p, k) /\ pm_stack_idx' = pm_stack_idx + k
    BY <1>1, <1>2 DEF Free, pmm_free_pages
  <1>4. /\ pm_stack_idx \in Nat /\ pm_total_pages \in Nat /\ k \in Nat
        /\ pm_stack_idx + k <= pm_total_pages /\ DOMAIN pm_stack = 0 .. pm_total_pages - 1
    BY <1>1, <1>2 DEF ValidInv, FragmentInv, TypeInv, TypeOK, NoArrayNoGrant
  <1> HIDE DEF p, n, k, room
  <1>5. \A s \in FreeSlots' : pm_stack'[s] # NULL
    <2>0. FreeSlots' = 0 .. pm_stack_idx + k - 1
      BY <1>3, <1>4 DEF FreeSlots
    <2> SUFFICES ASSUME NEW s \in 0 .. pm_stack_idx + k - 1
                 PROVE  pm_stack'[s] # NULL
      BY <2>0
    <2>1. s \in DOMAIN pm_stack
      BY <1>4
    <2>2. pm_stack'[s] = IF s \in Pages(pm_stack_idx, k) THEN p + (s - pm_stack_idx)
                                                          ELSE pm_stack[s]
      BY <1>3, <2>1 DEF PushRun
    <2>3. CASE s < pm_stack_idx
      BY <1>1, <1>4, <2>2, <2>3 DEF ValidInv, Valid, FreeSlots, Pages
    <2>4. CASE s >= pm_stack_idx
      BY <1>2, <1>4, <2>2, <2>4 DEF Pages, NULL
    <2> QED
      BY <1>4, <2>3, <2>4
  <1>6. \A d \in Holders' : held'[d].base # NULL /\ held'[d].n # 0
    BY <1>1 DEF ValidInv, Valid, Holders
  <1> QED
    BY <1>3, <1>5, <1>6 DEF Valid

LEMMA NextValid ==
  ASSUME ValidInv, [Next]_vars
  PROVE  ValidInv'
  <1>1. FragmentInv'
    BY NextFragmentInv DEF ValidInv
  <1>2. CASE UNCHANGED vars
    BY <1>1, <1>2 DEF ValidInv, Valid, Holders, FreeSlots, vars, pmm_vars, pmm_counts
  <1> QED
    BY <1>1, <1>2, BootValid, RequestValid, FreeValid DEF Next, ValidInv

LEMMA InitValid == Init => ValidInv
  BY InitFragmentInv DEF Init, PMMInit, ValidInv, Valid, Holders

(* pmm.c:124 and pmm.c:126: no client's release fails an ASSERT, whatever  *)
(* the sizes of the requests, so none halts the CPU with the lock taken.   *)
THEOREM PMMAssertsHold == Spec => []AssertsHold
  <1>1. ValidInv => AssertsHold
    BY DEF ValidInv, Valid, AssertsHold
  <1> QED
    BY <1>1, InitValid, NextValid, PTL DEF Spec

=============================================================================
