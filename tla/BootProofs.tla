----------------------------- MODULE BootProofs -----------------------------
(***************************************************************************)
(* Proofs about the boot, for every memory map, every image and every      *)
(* placement of .bss.                                                      *)
(***************************************************************************)
EXTENDS Boot, FiniteSetTheorems, TLAPS

-----------------------------------------------------------------------------
(* Faults are reported.                                                    *)

WithGdt == {"idt", "memmap", "hhdm", "pmm", "address", "vmm",
            "kmalloc", "alloc", "headers", "print", "kfree"}

(* What olive_entry has loaded when it comes to a place. *)
Loaded ==
  /\ at \in WithGdt => gdt
  /\ at \in WithGdt \ {"idt"} => idt
  /\ gdt \in BOOLEAN /\ idt \in BOOLEAN

FaultInv == Loaded /\ LostOnlyOnOwnMap

(* On the bootloader's map only pmm_init faults, without a place for its   *)
(* array, and the handler can be reached.                                  *)
LEMMA FaultIsReported ==
  ASSUME Loaded, Fault, ~OnOwnMap
  PROVE  at' = "halted"
  <1>1. \A objects, pages : Reaches(objects, pages)
    BY DEF Reaches
  <1>2. at = "pmm"
    BY <1>1, Zenon DEF Fault, Runs
  <1>3. gdt /\ idt
    BY <1>2 DEF Loaded, WithGdt
  <1> QED
    BY <1>1, <1>3 DEF Fault

(* A step of the kernel itself never goes to lost, and loads the tables    *)
(* before it comes to the places behind them.                              *)
LEMMA FaultInvStep == FaultInv /\ [Next]_vars => FaultInv'
  <1> SUFFICES ASSUME FaultInv, [Next]_vars PROVE FaultInv'
    OBVIOUS
  <1> USE DEF FaultInv, Loaded, LostOnlyOnOwnMap, OnOwnMap, WithGdt
  <1>1. CASE \/ CheckFramebuffer \/ CheckTerminal \/ CheckMemmap \/ CheckHhdm
             \/ CheckKernelAddress \/ PmmInitReturns \/ VmmInitReturns
    BY <1>1 DEF Check, CheckFramebuffer, CheckTerminal, CheckMemmap, CheckHhdm,
                CheckKernelAddress, PmmInitReturns, VmmInitReturns, but_at
  <1>2. CASE GdtInit \/ IdtInit
    BY <1>2 DEF GdtInit, IdtInit
  <1>3. CASE CallPmmInit \/ CallVmmInit
    BY <1>3 DEF CallPmmInit, CallVmmInit, boot_vars
  <1>4. CASE Kmalloc \/ LiballocAlloc \/ WriteHeaders \/ PrintInfo \/ Kfree
    BY <1>4 DEF Kmalloc, LiballocAlloc, WriteHeaders, PrintInfo, Kfree, Step, but_at
  <1>5. CASE Fault
    <2>1. at' \in {"halted", "lost"} /\ UNCHANGED <<stage, gdt, idt>>
      BY <1>5 DEF Fault, but_at, map_vars
    <2>2. ~OnOwnMap => at' = "halted"
      BY <1>5, FaultIsReported
    <2> QED
      BY <2>1, <2>2
  <1>6. CASE Interrupt
    BY <1>6 DEF Interrupt, but_at, map_vars
  <1>7. CASE UNCHANGED vars
    BY <1>7 DEF vars, boot_vars, map_vars
  <1> QED
    BY <1>1, <1>2, <1>3, <1>4, <1>5, <1>6, <1>7 DEF Next, olive_entry

(* No fault on the bootloader's map is lost: the GDT and the IDT are       *)
(* loaded before the first call that may fault.                            *)
THEOREM BootLostOnlyOnOwnMap == Spec => []LostOnlyOnOwnMap
  <1>1. Init => FaultInv
    BY DEF Init, FaultInv, Loaded, WithGdt, LostOnlyOnOwnMap
  <1>2. FaultInv /\ [Next]_vars => FaultInv'
    BY FaultInvStep
  <1>3. FaultInv => LostOnlyOnOwnMap
    BY DEF FaultInv
  <1> QED
    BY <1>1, <1>2, <1>3, PTL DEF Spec

-----------------------------------------------------------------------------
(* The pages that vmm_init takes.                                          *)

In(t, S) == IF t \in S THEN 1 ELSE 0

(* The size of a set of up to three elements. *)
LEMMA CardinalityOfThree ==
  ASSUME NEW x, NEW y, NEW z, x # y, x # z, y # z,
         NEW S, S \subseteq {x, y, z}
  PROVE  /\ IsFiniteSet(S)
         /\ Cardinality(S) = In(x, S) + In(y, S) + In(z, S)
  <1> DEFINE A == IF x \in S THEN {x} ELSE {}
             C == IF y \in S THEN A \cup {y} ELSE A
  <1>1. IsFiniteSet(A) /\ Cardinality(A) = In(x, S)
    BY FS_EmptySet, FS_Singleton DEF In
  <1>2. IsFiniteSet(C) /\ Cardinality(C) = In(x, S) + In(y, S)
    <2>1. y \notin A
      OBVIOUS
    <2>2. IsFiniteSet(A \cup {y}) /\ Cardinality(A \cup {y}) = Cardinality(A) + 1
      BY <1>1, <2>1, FS_AddElement
    <2> QED
      BY <1>1, <2>2 DEF In
  <1>3. CASE z \in S
    <2>1. z \notin C /\ S = C \cup {z}
      BY <1>3
    <2>2. IsFiniteSet(C \cup {z}) /\ Cardinality(C \cup {z}) = Cardinality(C) + 1
      BY <1>2, <2>1, FS_AddElement
    <2> HIDE DEF A, C
    <2> QED
      BY <1>2, <1>3, <2>1, <2>2 DEF In
  <1>4. CASE z \notin S
    <2>1. S = C
      BY <1>4
    <2> HIDE DEF A, C
    <2> QED
      BY <1>2, <1>4, <2>1 DEF In
  <1> QED
    BY <1>3, <1>4

(* The missing tables that k pages are enough for, from the top down. *)
Linked(missing, k) ==
  {t \in missing : Cardinality({u \in missing : u[1] > t[1]}) < k}

(* With k pages vmm_map links k of the tables that are missing. *)
LEMMA LinkedTables ==
  ASSUME NEW v, NEW missing \in SUBSET Path(v), NEW k \in Nat,
         k <= Cardinality(missing)
  PROVE  /\ IsFiniteSet(missing) /\ Cardinality(missing) \in Nat
         /\ IsFiniteSet(Linked(missing, k))
         /\ Linked(missing, k) \subseteq missing
         /\ Cardinality(Linked(missing, k)) = k
         /\ k = Cardinality(missing) => Linked(missing, k) = missing
  <1> DEFINE t1 == <<1, v \div Fanout>>
             t2 == <<2, v \div (Fanout * Fanout)>>
             t3 == <<3, v \div (Fanout * Fanout * Fanout)>>
             L  == Linked(missing, k)
             Above(t) == {u \in missing : u[1] > t[1]}
  <1>1. Path(v) = {t1, t2, t3}
    BY DEF Path
  <1>2. t1 # t2 /\ t1 # t3 /\ t2 # t3 /\ t1[1] = 1 /\ t2[1] = 2 /\ t3[1] = 3
    OBVIOUS
  <1> HIDE DEF t1, t2, t3
  <1>3. \A S \in SUBSET {t1, t2, t3} :
          /\ IsFiniteSet(S)
          /\ Cardinality(S) = In(t1, S) + In(t2, S) + In(t3, S)
    BY <1>2, CardinalityOfThree
  <1>4. /\ missing \in SUBSET {t1, t2, t3}
        /\ L \in SUBSET missing
        /\ L \in SUBSET {t1, t2, t3}
        /\ \A t : Above(t) \in SUBSET {t1, t2, t3}
    BY <1>1 DEF Linked
  <1>5. /\ IsFiniteSet(missing)
        /\ Cardinality(missing) = In(t1, missing) + In(t2, missing) + In(t3, missing)
        /\ IsFiniteSet(L)
        /\ Cardinality(L) = In(t1, L) + In(t2, L) + In(t3, L)
    BY <1>3, <1>4
  <1>6. /\ t3 \in L <=> t3 \in missing /\ 0 < k
        /\ t2 \in L <=> t2 \in missing /\ In(t3, missing) < k
        /\ t1 \in L <=> t1 \in missing /\ In(t2, missing) + In(t3, missing) < k
    <2>1. /\ t1 \notin Above(t1)
          /\ t2 \in Above(t1) <=> t2 \in missing
          /\ t3 \in Above(t1) <=> t3 \in missing
      BY <1>2
    <2>2. /\ t1 \notin Above(t2)
          /\ t2 \notin Above(t2)
          /\ t3 \in Above(t2) <=> t3 \in missing
      BY <1>2
    <2>3. t1 \notin Above(t3) /\ t2 \notin Above(t3) /\ t3 \notin Above(t3)
      BY <1>2
    <2>4. \A t : t \in L <=> t \in missing /\ Cardinality(Above(t)) < k
      BY DEF Linked
    <2> HIDE DEF Above, L
    <2>5. \A t : Cardinality(Above(t)) =
                  In(t1, Above(t)) + In(t2, Above(t)) + In(t3, Above(t))
      BY <1>3, <1>4
    <2>6. Cardinality(Above(t1)) = In(t2, missing) + In(t3, missing)
      <3>1. In(t1, Above(t1)) = 0
        BY <2>1 DEF In
      <3>2. In(t2, Above(t1)) = In(t2, missing)
        BY <2>1 DEF In
      <3>3. In(t3, Above(t1)) = In(t3, missing)
        BY <2>1 DEF In
      <3>4. In(t2, missing) \in Nat /\ In(t3, missing) \in Nat
        BY DEF In
      <3>5. Cardinality(Above(t1)) =
              In(t1, Above(t1)) + In(t2, Above(t1)) + In(t3, Above(t1))
        BY <2>5
      <3> QED
        BY <3>1, <3>2, <3>3, <3>4, <3>5
    <2>7. Cardinality(Above(t2)) = In(t3, missing)
      BY <2>2, <2>5 DEF In
    <2>8. Cardinality(Above(t3)) = 0
      BY <2>3, <2>5 DEF In
    <2> QED
      BY <2>4, <2>6, <2>7, <2>8
  <1> HIDE DEF L
  <1>7. /\ Cardinality(L) = k
        /\ k = Cardinality(missing) =>
             \A t \in {t1, t2, t3} : t \in missing => t \in L
    BY <1>5, <1>6 DEF In
  <1>8. k = Cardinality(missing) => L = missing
    BY <1>4, <1>7
  <1>9. Cardinality(missing) \in Nat
    BY <1>5 DEF In
  <1> QED
    BY <1>4, <1>5, <1>7, <1>8, <1>9 DEF L

(* The places in front of the return of vmm_init, and those behind it.     *)
Before == {"framebuffer", "terminal", "gdt", "idt", "memmap", "hhdm", "pmm", "address", "vmm"}
Behind == {"kmalloc", "alloc", "headers", "print", "kfree", "hlt"}

Mapping == {"entries", "text", "rodata", "data"}

Paid ==
  /\ IsFiniteSet(tables)
  /\ pm_used_pages = 1 + Cardinality(tables)
  /\ \A v \in DOMAIN mapping : Path(v) \subseteq tables

(* TablesArePaidFor speaks of pm_used_pages, which pmm_init must leave     *)
(* alone and kmalloc may only change when vmm_init is done.                *)
TableInv ==
  /\ at \in Before \cup Behind \cup {"halted", "lost", "interrupted"}
  /\ at \in Behind => stage = "done"
  /\ at \in Before => pm_stack_idx \in Nat
  /\ stage \in {"root", "done", "failed"} \cup Mapping
  /\ stage = "root" => pm_used_pages = 0 /\ tables = {} /\ mapping = <<>>
  /\ stage \in Mapping => Paid

LEMMA PathIsFinite == \A v : IsFiniteSet(Path(v))
  <1> SUFFICES ASSUME NEW v PROVE IsFiniteSet(Path(v))
    OBVIOUS
  <1> DEFINE a == v \div Fanout
             b == v \div (Fanout * Fanout)
             c == v \div (Fanout * Fanout * Fanout)
  <1>1. Path(v) = ({<<1, a>>} \cup {<<2, b>>}) \cup {<<3, c>>}
    BY DEF Path
  <1> HIDE DEF a, b, c
  <1>2. IsFiniteSet({<<1, a>>} \cup {<<2, b>>})
    BY FS_Singleton, FS_AddElement
  <1> QED
    BY <1>1, <1>2, FS_AddElement

(* A call of vmm_map, with or without enough pages. *)
LEMMA MapIsPaid ==
  ASSUME Paid, pm_stack_idx \in Nat,
         NEW v, NEW p, NEW flags, vmm_map(v, p, flags)
  PROVE  Paid' /\ pm_stack_idx' \in Nat
  <1> DEFINE missing == Path(v) \ tables
             n == Cardinality(missing)
             k == IF n <= pm_stack_idx THEN n ELSE pm_stack_idx
             linked == Linked(missing, k)
  <1>1. n \in Nat
    <2>1. IsFiniteSet(missing)
      BY PathIsFinite, FS_Subset
    <2> QED
      BY <2>1, FS_CardinalityType
  <1>2. k \in Nat /\ k <= n /\ k <= pm_stack_idx
    BY <1>1
  <1>3. /\ pmm_request_pages(k)
        /\ tables' = tables \cup linked
        /\ mapping' = IF k = n THEN WithEntry(v, p, flags) ELSE mapping
    BY DEF vmm_map, Linked
  <1> HIDE DEF k
  <1>4. /\ IsFiniteSet(linked)
        /\ linked \subseteq missing
        /\ Cardinality(linked) = k
        /\ k = n => linked = missing
    BY <1>2, LinkedTables
  <1> HIDE DEF linked
  <1>5. pm_used_pages' = pm_used_pages + k /\ pm_stack_idx' = pm_stack_idx - k
    <2>1. pm_used_pages \in Int
      BY FS_CardinalityType DEF Paid
    <2> QED
      BY <1>2, <1>3, <2>1 DEF pmm_request_pages, CanGrant, pmm_counts
  <1>6. /\ IsFiniteSet(tables')
        /\ Cardinality(tables') = Cardinality(tables) + k
    <2>1. linked \cap tables = {}
      BY <1>4
    <2>2. Cardinality(tables) \in Nat
      BY FS_CardinalityType DEF Paid
    <2>3. /\ IsFiniteSet(tables \cup linked)
          /\ Cardinality(tables \cup linked) = Cardinality(tables) + Cardinality(linked)
                                               - Cardinality(tables \cap linked)
      BY <1>4, FS_Union DEF Paid
    <2>4. Cardinality(tables \cap linked) = 0
      BY <2>1, FS_EmptySet
    <2> QED
      BY <1>2, <1>3, <1>4, <2>2, <2>3, <2>4
  <1>7. \A w \in DOMAIN mapping' : Path(w) \subseteq tables'
    <2>1. CASE k = n
      <3>1. DOMAIN mapping' = DOMAIN mapping \cup {v}
        BY <1>3, <2>1 DEF WithEntry
      <3>2. Path(v) \subseteq tables'
        BY <1>3, <1>4, <2>1
      <3> QED
        BY <1>3, <3>1, <3>2 DEF Paid
    <2>2. CASE k # n
      BY <1>3, <2>2 DEF Paid
    <2> QED
      BY <2>1, <2>2
  <1>8. pm_used_pages' = 1 + Cardinality(tables')
    <2>1. Cardinality(tables) \in Nat
      BY FS_CardinalityType DEF Paid
    <2> QED
      BY <1>2, <1>5, <1>6, <2>1 DEF Paid
  <1> QED
    BY <1>2, <1>5, <1>6, <1>7, <1>8 DEF Paid

(* vmm_init, step by step. *)
LEMMA VmmInitKeepsTableInv ==
  ASSUME TableInv, CallVmmInit
  PROVE  TableInv'
  <1> USE DEF TableInv, Mapping
  <1>1. at = "vmm" /\ UNCHANGED at /\ vmm_init /\ pm_stack_idx \in Nat
    BY DEF CallVmmInit, boot_vars, Before
  <1>2. CASE CreateRoot
    <2>1. /\ stage = "root" /\ UNCHANGED <<tables, mapping>>
          /\ stage' = IF CanGrant(1) THEN "entries" ELSE "failed"
          /\ pmm_request_pages(1)
      BY <1>2 DEF CreateRoot
    <2>2. /\ CanGrant(1) => pm_used_pages' = 1
          /\ pm_stack_idx' \in Nat
      BY <1>1, <2>1 DEF pmm_request_pages, CanGrant, pmm_counts
    <2>3. Cardinality({}) = 0 /\ IsFiniteSet({})
      BY FS_EmptySet
    <2>4. CanGrant(1) => Paid'
      <3>1. tables' = {} /\ DOMAIN mapping' = {}
        BY <2>1
      <3> QED
        BY <2>2, <2>3, <3>1 DEF Paid
    <2> QED
      BY <1>1, <2>1, <2>2, <2>4 DEF Before, Behind
  <1>3. CASE MapPage \/ MapSegmentPage
    <2>1. /\ stage \in Mapping /\ UNCHANGED stage
          /\ \E v, p, flags : vmm_map(v, p, flags)
      BY <1>3 DEF MapPage, MapSegmentPage
    <2>2. Paid' /\ pm_stack_idx' \in Nat
      BY <1>1, <2>1, MapIsPaid
    <2> QED
      BY <1>1, <2>1, <2>2 DEF Before, Behind
  <1>4. CASE EntryDone \/ EntriesDone \/ SegmentDone
    <2>1. /\ stage \in Mapping /\ stage' \in Mapping \cup {"done"}
          /\ UNCHANGED <<tables, mapping, pm_used_pages, pm_stack_idx>>
      BY <1>4 DEF EntryDone, EntriesDone, SegmentDone, pmm_vars, pmm_counts
    <2> QED
      BY <1>1, <2>1 DEF Before, Behind, Paid
  <1> QED
    BY <1>1, <1>2, <1>3, <1>4 DEF vmm_init

(* pmm_init leaves pm_used_pages alone, and only pushes. *)
LEMMA PmmInitCounts ==
  ASSUME pmm_init, pm_stack_idx \in Nat
  PROVE  pm_stack_idx' \in Nat /\ UNCHANGED pm_used_pages
  BY DEF pmm_init, CountEntry, CountDone, PlaceStack, SkipEntry, NoPlace, PushPage,
         NextEntry, PushDone, pmm_counts

LEMMA TableInvStep == TableInv /\ [Next]_vars => TableInv'
  <1> SUFFICES ASSUME TableInv, [Next]_vars PROVE TableInv'
    OBVIOUS
  <1> USE DEF TableInv
  <1>1. CASE CallVmmInit
    BY <1>1, VmmInitKeepsTableInv
  <1>2. CASE CallPmmInit
    <2>1. /\ at = "pmm" /\ UNCHANGED <<at, stage, tables, mapping>>
          /\ pmm_init /\ pm_stack_idx \in Nat
      BY <1>2 DEF CallPmmInit, boot_vars, map_vars, Before
    <2>2. pm_stack_idx' \in Nat /\ UNCHANGED pm_used_pages
      BY <2>1, PmmInitCounts
    <2> QED
      BY <2>1, <2>2 DEF Before, Behind, Paid
  <1>3. CASE Kmalloc \/ LiballocAlloc \/ WriteHeaders \/ PrintInfo \/ Kfree
    <2>1. /\ at \in Behind /\ at' \in Behind /\ UNCHANGED <<stage, tables, mapping>>
      BY <1>3 DEF Kmalloc, LiballocAlloc, WriteHeaders, PrintInfo, Kfree, Step, but_at,
                  map_vars, Behind
    <2> QED
      BY <2>1 DEF Before, Behind, Mapping
  <1>4. CASE \/ CheckFramebuffer \/ CheckTerminal \/ CheckMemmap \/ CheckHhdm
             \/ CheckKernelAddress \/ PmmInitReturns \/ VmmInitReturns
             \/ GdtInit \/ IdtInit \/ Fault \/ Interrupt
    <2>1. /\ UNCHANGED <<stage, tables, mapping, pm_used_pages, pm_stack_idx>>
          /\ \/ at' \in {"halted", "lost", "interrupted"}
             \/ at \in Before /\ at' \in Before
             \/ at \in Before /\ at' = "kmalloc" /\ stage = "done"
      BY <1>4 DEF Check, CheckFramebuffer, CheckTerminal, CheckMemmap, CheckHhdm,
                  CheckKernelAddress, PmmInitReturns, VmmInitReturns, GdtInit, IdtInit,
                  Fault, Interrupt, but_at, map_vars, pmm_vars, pmm_counts, Before
    <2> QED
      BY <2>1 DEF Before, Behind, Paid
  <1>5. CASE UNCHANGED vars
    BY <1>5 DEF vars, boot_vars, map_vars, pmm_vars, pmm_counts, Paid
  <1> QED
    BY <1>1, <1>2, <1>3, <1>4, <1>5 DEF Next, olive_entry

(* Every page that vmm_init takes is the PML4 or a table of the map, and   *)
(* every entry of the map is behind tables that exist, also when vmm_map   *)
(* runs out of memory half way down.                                       *)
THEOREM BootTablesArePaidFor == Spec => []TablesArePaidFor
  <1>1. Init => TableInv
    BY DEF Init, MapInit, PMMInit, TableInv, Before, Behind, Mapping
  <1>2. TableInv /\ [Next]_vars => TableInv'
    BY TableInvStep
  <1>3. TableInv => TablesArePaidFor
    BY DEF TableInv, TablesArePaidFor, Paid, Mapping
  <1> QED
    BY <1>1, <1>2, <1>3, PTL DEF Spec

-----------------------------------------------------------------------------
(* The memory map under pmm_init: one usable entry gets shorter, once.     *)

MapShape ==
  /\ bootmap \in MemMaps
  /\ pm_total_pages \in Nat
  /\ memmap \in Seq(Entry)
  /\ Len(memmap) = Len(bootmap)
  /\ \A a \in DOMAIN bootmap :
       /\ memmap[a].type = bootmap[a].type
       /\ memmap[a].base = bootmap[a].base
       /\ memmap[a].length <= bootmap[a].length
  /\ phase \in {"count", "locate"} => memmap = bootmap
  /\ phase \in {"count", "push"} => ent \in Nat \ {0}
  /\ phase = "locate" => ent \in 0 .. Len(memmap)

LEMMA StackSizeIsNat == pm_total_pages \in Nat => pm_stack_size \in Nat
  <1>1. \A a \in Nat, b \in Nat \ {0} : (a + b - 1) \div b \in Nat
    BY SMT
  <1> QED
    BY <1>1, EntriesPerPageAssumption DEF pm_stack_size

LEMMA ShortenedShape ==
  ASSUME MapShape, PlaceStack
  PROVE  MapShape'
  <1>1. /\ phase = "locate" /\ phase' = "push" /\ ent' = 1
        /\ ent \in 1 .. Len(memmap) /\ memmap = bootmap
        /\ UNCHANGED <<bootmap, pm_total_pages>>
        /\ memmap' = [memmap EXCEPT ![ent].length = @ - pm_stack_size]
        /\ memmap[ent].length >= pm_stack_size
    BY DEF MapShape, PlaceStack, CanHold, Shortened
  <1>2. pm_stack_size \in Nat
    BY StackSizeIsNat DEF MapShape
  <1>3. memmap \in Seq(Entry) /\ Len(memmap) \in Nat /\ DOMAIN memmap = 1 .. Len(memmap)
    BY DEF MapShape
  <1>4. \A a \in DOMAIN memmap : memmap[a] \in Entry
    BY <1>3
  <1>5. DOMAIN memmap' = DOMAIN memmap
    BY <1>1
  <1>6. \A a \in DOMAIN memmap :
          /\ memmap'[a] \in Entry
          /\ memmap'[a].type = memmap[a].type
          /\ memmap'[a].base = memmap[a].base
          /\ memmap'[a].length <= memmap[a].length
    <2> SUFFICES ASSUME NEW a \in DOMAIN memmap
                 PROVE  /\ memmap'[a] \in Entry
                        /\ memmap'[a].type = memmap[a].type
                        /\ memmap'[a].base = memmap[a].base
                        /\ memmap'[a].length <= memmap[a].length
      OBVIOUS
    <2>1. memmap[a] \in Entry
      BY <1>4
    <2>2. CASE a = ent
      <3>1. memmap'[a] = [memmap[a] EXCEPT !.length = @ - pm_stack_size]
        BY <1>1, <2>2
      <3>2. memmap[a].length - pm_stack_size \in Nat
        BY <1>1, <1>2, <2>1, <2>2 DEF Entry
      <3> QED
        BY <1>2, <2>1, <3>1, <3>2 DEF Entry
    <2>3. CASE a # ent
      <3>1. memmap'[a] = memmap[a]
        BY <1>1, <2>3
      <3> QED
        BY <2>1, <3>1 DEF Entry
    <2> QED
      BY <2>2, <2>3
  <1>7. memmap' \in Seq(Entry) /\ Len(memmap') = Len(memmap)
    <2>1. memmap' = [a \in 1 .. Len(memmap) |-> memmap'[a]]
      BY <1>1, <1>3, <1>5
    <2>2. \A a \in 1 .. Len(memmap) : memmap'[a] \in Entry
      BY <1>3, <1>6
    <2> QED
      BY <1>3, <2>1, <2>2
  <1> QED
    BY <1>1, <1>3, <1>6, <1>7 DEF MapShape

LEMMA PmmInitKeepsShape ==
  ASSUME MapShape, pmm_init
  PROVE  MapShape'
  <1>1. CASE PlaceStack
    BY <1>1, ShortenedShape
  <1>2. CASE CountEntry
    <2>1. ent \in 1 .. Len(memmap) /\ memmap \in Seq(Entry) /\ Len(memmap) \in Nat
      BY <1>2 DEF MapShape, CountEntry
    <2>2. memmap[ent] \in Entry
      BY <2>1
    <2>3. memmap[ent].length \in Nat
      BY <2>2 DEF Entry
    <2>4. pm_total_pages' \in Nat
      BY <1>2, <2>3 DEF MapShape, CountEntry
    <2> QED
      BY <1>2, <2>1, <2>4 DEF MapShape, CountEntry
  <1>3. CASE CountDone \/ SkipEntry \/ NoPlace
    BY <1>3 DEF MapShape, CountDone, SkipEntry, NoPlace, pmm_memory
  <1>4. CASE PushPage \/ NextEntry \/ PushDone
    BY <1>4 DEF MapShape, PushPage, NextEntry, PushDone, pmm_memory, pmm_loops
  <1> QED
    BY <1>1, <1>2, <1>3, <1>4 DEF pmm_init

(* Entries after pmm_init: as the assumptions say, with the one of the     *)
(* array no longer than it was.                                            *)
LEMMA EntriesInOrder ==
  ASSUME MapShape
  PROVE  /\ Len(memmap) \in Nat /\ DOMAIN memmap = 1 .. Len(memmap)
         /\ \A a \in DOMAIN memmap :
              /\ memmap[a] \in Entry
              /\ 2 * memmap[a].base + memmap[a].length < _hhdm_offset
              /\ \A s \in {text, rodata, data} :
                   _hhdm_offset + memmap[a].base + memmap[a].length <= s.from
         /\ \A a, b \in DOMAIN memmap :
              a < b => /\ memmap[a].base <= memmap[b].base
                       /\ {memmap[a].type, memmap[b].type} \cap {"usable", "reclaimable"} # {} =>
                            memmap[a].base + memmap[a].length <= memmap[b].base
  <1>1. /\ Len(memmap) \in Nat /\ DOMAIN memmap = 1 .. Len(memmap)
        /\ \A a \in DOMAIN memmap : memmap[a] \in Entry
    BY DEF MapShape
  <1>2. bootmap \in Seq(Entry)
    BY MemMapsAssumption DEF MapShape
  <1>3. /\ DOMAIN bootmap = DOMAIN memmap
        /\ \A a \in DOMAIN bootmap : bootmap[a] \in Entry
    BY <1>1, <1>2 DEF MapShape
  <1>4. \A a \in DOMAIN memmap :
          /\ memmap[a].type = bootmap[a].type /\ memmap[a].base = bootmap[a].base
          /\ memmap[a].base \in Nat /\ memmap[a].length \in Nat /\ bootmap[a].length \in Nat
          /\ memmap[a].length <= bootmap[a].length
    BY <1>1, <1>3 DEF MapShape, Entry
  <1>5. _hhdm_offset \in Nat /\ \A s \in {text, rodata, data} : s.from \in Nat
    BY DirectMapAssumption, ImageAssumption
  <1>6. ASSUME NEW a \in DOMAIN memmap
        PROVE  /\ 2 * memmap[a].base + memmap[a].length < _hhdm_offset
               /\ \A s \in {text, rodata, data} :
                    _hhdm_offset + memmap[a].base + memmap[a].length <= s.from
    <2>1. /\ 2 * bootmap[a].base + bootmap[a].length < _hhdm_offset
          /\ \A s \in {text, rodata, data} :
               _hhdm_offset + bootmap[a].base + bootmap[a].length <= s.from
      BY <1>3, <1>6, DirectMapAssumption DEF MapShape
    <2> QED
      BY <1>4, <1>5, <1>6, <2>1
  <1>7. ASSUME NEW a \in DOMAIN memmap, NEW b \in DOMAIN memmap, a < b
        PROVE  /\ memmap[a].base <= memmap[b].base
               /\ {memmap[a].type, memmap[b].type} \cap {"usable", "reclaimable"} # {} =>
                    memmap[a].base + memmap[a].length <= memmap[b].base
    <2>1. /\ bootmap[a].base <= bootmap[b].base
          /\ {bootmap[a].type, bootmap[b].type} \cap {"usable", "reclaimable"} # {} =>
               bootmap[a].base + bootmap[a].length <= bootmap[b].base
      BY <1>3, <1>7, SortedAssumption DEF MapShape
    <2> QED
      BY <1>4, <1>7, <2>1
  <1> QED
    BY <1>1, <1>6, <1>7

-----------------------------------------------------------------------------
(* What vmm_init maps.                                                     *)

Flags == {ReadWrite, Device, Text, Rodata, Data}

Segments == {"text", "rodata", "data"}

(* The types of vmm_init; and memmap stays as it is once vmm_init runs,    *)
(* because pmm_init has returned.                                          *)
MapTypes ==
  /\ TypeOK
  /\ i \in Nat \ {0}
  /\ next \in Nat
  /\ at \in Before \ {"vmm"} => stage = "root"
  /\ stage = "root" => i = 1 /\ next = 0
  /\ stage # "root" => phase \notin {"count", "locate", "push"}
  /\ stage \in Segments => next >= Segment.pages.from

(* The loop of vmm_init has mapped page p of entry a. *)
Covered(a, p) ==
  stage = "entries" => a < i \/ (a = i /\ p < FirstPage(memmap[a]) + next)

(* The pages of an entry that vmm_init shows. *)
ShownPages(a) == {p \in EntryPages(memmap, a) : p >= FirstPage(memmap[a])}

EntryFlags ==
  stage \in Mapping \cup {"done"} /\ ~logged =>
    \A a \in DOMAIN memmap : IsMapped(memmap[a]) =>
      \A p \in ShownPages(a) :
        Covered(a, p) => Maps(_hhdm_offset + p, p, FlagsOf(memmap[a]))

LEMMA FirstPageIs ==
  ASSUME NEW e \in Entry
  PROVE  /\ FirstPage(e) \in Nat /\ FirstPage(e) >= e.base /\ FirstPage(e) <= e.base + 1
         /\ e.type # "framebuffer" => FirstPage(e) = e.base
  BY DEF FirstPage, Skew, Entry

LEMMA MapPageTypes ==
  ASSUME TypeOK, NEW v \in Nat, NEW p \in 0 .. _hhdm_offset - 1, NEW flags \in Flags,
         vmm_map(v, p, flags), UNCHANGED stage
  PROVE  TypeOK'
  <1>1. /\ \/ mapping' = mapping \/ mapping' = WithEntry(v, p, flags)
        /\ tables' \subseteq tables \cup Path(v)
        /\ logged' \in BOOLEAN
    BY DEF vmm_map, TypeOK
  <1>2. Path(v) \subseteq (1 .. 3) \X Nat
    <2>1. Fanout \in Nat \ {0} /\ Fanout * Fanout \in Nat \ {0}
          /\ Fanout * Fanout * Fanout \in Nat \ {0}
      <3>1. \A a, b \in Nat \ {0} : a * b \in Nat \ {0}
        BY SMT
      <3> QED
        BY <3>1, FanoutAssumption
    <2>2. \A d \in Nat \ {0} : v \div d \in Nat
      BY SMT
    <2> QED
      BY <2>1, <2>2 DEF Path
  <1>3. \A w \in DOMAIN mapping' :
          mapping'[w].phys \in 0 .. _hhdm_offset - 1 /\ mapping'[w].flags \in Flags
    <2>1. CASE mapping' = mapping
      BY <2>1 DEF TypeOK, Flags
    <2>2. CASE mapping' = WithEntry(v, p, flags)
      <3>1. DOMAIN mapping' = DOMAIN mapping \cup {v}
        BY <2>2 DEF WithEntry
      <3>2. \A w \in DOMAIN mapping' :
              mapping'[w] = IF w = v THEN [phys |-> p, flags |-> flags] ELSE mapping[w]
        BY <2>2 DEF WithEntry
      <3> QED
        BY <3>1, <3>2 DEF TypeOK, Flags
    <2> QED
      BY <1>1, <2>1, <2>2
  <1> QED
    BY <1>1, <1>2, <1>3 DEF TypeOK, Flags

(* A call of vmm_map that logs nothing writes the entry. *)
LEMMA NothingLogged ==
  ASSUME NEW v, NEW p, NEW flags, vmm_map(v, p, flags), logged \in BOOLEAN, ~logged',
         pm_stack_idx \in Nat
  PROVE  /\ ~logged
         /\ Maps(v, p, flags)'
         /\ \A w, q, f : w # v => (Maps(w, q, f) => Maps(w, q, f)')
  <1> DEFINE n == Cardinality(Path(v) \ tables)
             k == IF n <= pm_stack_idx THEN n ELSE pm_stack_idx
  <1>1. /\ logged' = (logged \/ k < n)
        /\ mapping' = IF k = n THEN WithEntry(v, p, flags) ELSE mapping
    BY DEF vmm_map
  <1>2. n \in Nat
    BY PathIsFinite, FS_Subset, FS_CardinalityType
  <1>3. ~logged /\ k = n
    <2>1. ~logged /\ ~(k < n)
      BY <1>1, Zenon
    <2> QED
      BY <1>2, <2>1
  <1>4. mapping' = WithEntry(v, p, flags)
    BY <1>1, <1>3
  <1> HIDE DEF k, n
  <1>5. /\ DOMAIN mapping' = DOMAIN mapping \cup {v}
        /\ mapping'[v] = [phys |-> p, flags |-> flags]
        /\ \A w \in DOMAIN mapping : w # v => mapping'[w] = mapping[w]
    BY <1>4 DEF WithEntry
  <1> QED
    BY <1>3, <1>5 DEF Maps

(* Two pages of entries that are mapped with other flags are not the same, *)
(* also not when one of them is in the window behind the later entry.      *)
LEMMA LaterWindowsSpare ==
  ASSUME MapShape, NEW a \in DOMAIN memmap, NEW b \in DOMAIN memmap, a < b,
         IsMapped(memmap[a]), IsMapped(memmap[b]),
         NEW p \in EntryPages(memmap, a), NEW n \in Nat, p = FirstPage(memmap[b]) + n
  PROVE  FlagsOf(memmap[a]) = FlagsOf(memmap[b])
  <1>1. /\ memmap[a] \in Entry /\ memmap[b] \in Entry
        /\ {memmap[a].type, memmap[b].type} \cap {"usable", "reclaimable"} # {} =>
             memmap[a].base + memmap[a].length <= memmap[b].base
    BY EntriesInOrder
  <1>2. p < memmap[a].base + memmap[a].length
    BY <1>1 DEF EntryPages, Pages, Entry
  <1>3. p >= memmap[b].base
    BY <1>1, FirstPageIs DEF Entry
  <1>4. {memmap[a].type, memmap[b].type} \cap {"usable", "reclaimable"} = {}
    BY <1>1, <1>2, <1>3 DEF Entry
  <1> QED
    BY <1>4 DEF IsMapped, FlagsOf

LEMMA MapPageKeepsFlags ==
  ASSUME MapShape, MapTypes, EntryFlags, pm_stack_idx \in Nat, MapPage,
         at = "vmm", UNCHANGED at
  PROVE  MapTypes' /\ EntryFlags'
  <1> PICK e, q, flags : e = memmap[i] /\ q = FirstPage(e) + next /\ flags = FlagsOf(e)
    OBVIOUS
  <1>1. /\ stage = "entries" /\ i \in Nat /\ i <= Len(memmap) /\ IsMapped(e)
        /\ next < Window(e) /\ next \in Nat /\ next' = next + 1
        /\ vmm_map(_hhdm_offset + q, q, flags)
        /\ UNCHANGED <<stage, i>>
    BY DEF MapPage, MapTypes
  <1>2. /\ i \in DOMAIN memmap /\ e \in Entry
        /\ 2 * e.base + e.length < _hhdm_offset
    BY <1>1, EntriesInOrder DEF MapTypes
  <1>3. /\ e.base \in Nat /\ e.length \in Nat /\ _hhdm_offset \in Nat
        /\ FirstPage(e) \in Nat /\ FirstPage(e) <= e.base + 1
        /\ IsUsable(e) => FirstPage(e) = e.base
    BY <1>2, FirstPageIs, DirectMapAssumption DEF Entry, IsUsable
  <1>4. q \in 0 .. _hhdm_offset - 1 /\ _hhdm_offset + q \in Nat
    <2>1. q \in Nat /\ q = FirstPage(e) + next
      BY <1>1, <1>3
    <2>2. CASE IsUsable(e)
      <3>1. q < e.base + e.length
        BY <1>1, <1>3, <2>1, <2>2 DEF Window
      <3> QED
        BY <1>2, <1>3, <2>1, <3>1
    <2>3. CASE ~IsUsable(e)
      <3>1. next < e.base + e.length
        BY <1>1, <2>3 DEF Window
      <3>2. \A b, l, f, n, h \in Nat :
              f <= b + 1 /\ n < b + l /\ 2 * b + l < h =>
                f + n \in 0 .. h - 1 /\ h + (f + n) \in Nat
        OBVIOUS
      <3>3. next \in Nat
        BY <1>1
      <3> QED
        BY <1>2, <1>3, <2>1, <3>1, <3>2, <3>3
    <2> QED
      BY <2>2, <2>3
  <1>5. UNCHANGED <<phase, bootmap, memmap>>
    BY <1>1 DEF vmm_map, pmm_request_pages, pmm_memory
  <1>6. MapTypes'
    <2>1. TypeOK'
      BY <1>1, <1>4, MapPageTypes DEF MapTypes, FlagsOf, Flags
    <2>2. at' \notin Before \ {"vmm"} /\ stage' \notin Segments
      BY <1>1 DEF Segments
    <2> QED
      BY <1>1, <1>5, <2>1, <2>2 DEF MapTypes
  <1>7. ASSUME ~logged', NEW a \in DOMAIN memmap, IsMapped(memmap[a]),
               NEW p \in ShownPages(a), Covered(a, p)'
        PROVE  (Maps(_hhdm_offset + p, p, FlagsOf(memmap[a])))'
    <2>1. memmap'[a] = memmap[a] /\ memmap[a] \in Entry /\ a \in Nat
      BY <1>5, EntriesInOrder
    <2>2. p \in Nat /\ FirstPage(memmap[a]) \in Nat /\ p \in EntryPages(memmap, a)
      BY <2>1, FirstPageIs DEF ShownPages, EntryPages, Pages, Entry
    <2>3. a < i \/ (a = i /\ p < q + 1)
      BY <1>1, <1>3, <1>5, <1>7, <2>2 DEF Covered
    <2>4. /\ ~logged
          /\ Maps(_hhdm_offset + q, q, flags)'
          /\ \A w, x, f : w # _hhdm_offset + q => (Maps(w, x, f) => Maps(w, x, f)')
      <3>1. logged \in BOOLEAN
        BY DEF MapTypes, TypeOK
      <3>2. vmm_map(_hhdm_offset + q, q, flags)
        BY <1>1
      <3> QED
        BY <1>7, <3>1, <3>2, NothingLogged
    <2>5. CASE p = q
      <3>1. FlagsOf(memmap[a]) = FlagsOf(e)
        <4>1. CASE a < i
          <5>1. q = FirstPage(memmap[i]) + next
            OBVIOUS
          <5> QED
            BY <1>1, <1>2, <1>7, <2>2, <2>5, <4>1, <5>1, LaterWindowsSpare
        <4>2. CASE a = i
          BY <4>2
        <4> QED
          BY <2>3, <4>1, <4>2
      <3> QED
        BY <1>1, <2>1, <2>4, <2>5, <3>1
    <2>6. CASE p # q
      <3>1. Covered(a, p)
        <4>1. \A m, n \in Nat : m < n + 1 /\ m # n => m < n
          OBVIOUS
        <4>2. a = i => p < q
          BY <1>4, <2>1, <2>2, <2>3, <2>6, <4>1
        <4>3. a = i => q = FirstPage(memmap[a]) + next
          OBVIOUS
        <4> QED
          BY <1>1, <2>1, <2>3, <4>2, <4>3 DEF Covered
      <3>2. Maps(_hhdm_offset + p, p, FlagsOf(memmap[a]))
        BY <1>1, <1>7, <2>4, <3>1 DEF EntryFlags, Mapping
      <3>3. _hhdm_offset + p # _hhdm_offset + q
        BY <1>3, <1>4, <2>2, <2>6
      <3> QED
        BY <2>1, <2>4, <3>2, <3>3
    <2> QED
      BY <2>5, <2>6
  <1> QED
    BY <1>1, <1>5, <1>6, <1>7 DEF EntryFlags, FlagsOf, IsMapped, ShownPages, EntryPages,
                                   FirstPage, Skew

LEMMA EntryDoneKeepsFlags ==
  ASSUME MapShape, MapTypes, EntryFlags, EntryDone \/ EntriesDone,
         at = "vmm", UNCHANGED at
  PROVE  MapTypes' /\ EntryFlags'
  <1>1. /\ stage = "entries" /\ i \in Nat
        /\ UNCHANGED <<phase, bootmap, memmap, mapping, tables, logged>>
    BY DEF EntryDone, EntriesDone, MapTypes, pmm_vars, pmm_memory
  <1>2. /\ Len(memmap) \in Nat /\ DOMAIN memmap = 1 .. Len(memmap)
        /\ \A a \in DOMAIN memmap : memmap[a] \in Entry
    BY EntriesInOrder
  <1>3. \A a \in DOMAIN memmap : IsMapped(memmap[a]) =>
          \A p \in ShownPages(a) : Covered(a, p)' => Covered(a, p)
    <2> SUFFICES ASSUME NEW a \in DOMAIN memmap, IsMapped(memmap[a]),
                        NEW p \in ShownPages(a), Covered(a, p)'
                 PROVE  Covered(a, p)
      OBVIOUS
    <2>1. /\ memmap[a] \in Entry /\ a \in 1 .. Len(memmap)
          /\ memmap[a].base \in Nat /\ memmap[a].length \in Nat
          /\ p \in memmap[a].base .. memmap[a].base + memmap[a].length - 1
          /\ FirstPage(memmap[a]) \in Nat /\ p >= FirstPage(memmap[a])
          /\ IsUsable(memmap[a]) => FirstPage(memmap[a]) = memmap[a].base
      BY <1>2, FirstPageIs DEF Entry, ShownPages, EntryPages, Pages, IsUsable
    <2>2. CASE EntryDone
      <3>1. a < i + 1 \/ (a = i + 1 /\ p < FirstPage(memmap[a]))
        BY <1>1, <2>1, <2>2 DEF EntryDone, Covered
      <3>2. CASE a = i
        <4>1. next >= Window(memmap[a]) /\ next \in Nat
          BY <2>2, <3>2 DEF EntryDone, MapTypes
        <4>2. p < FirstPage(memmap[a]) + next
          BY <2>1, <4>1 DEF Window
        <4> QED
          BY <3>2, <4>2 DEF Covered
      <3> QED
        BY <1>1, <2>1, <3>1, <3>2 DEF Covered
    <2>3. CASE EntriesDone
      BY <1>1, <1>2, <2>1, <2>3 DEF EntriesDone, Covered
    <2> QED
      BY <2>2, <2>3
  <1>4. EntryFlags'
    BY <1>1, <1>3 DEF EntryFlags, Mapping, Maps, ShownPages, EntryPages, FirstPage, Skew
  <1>5. /\ stage' \in {"entries", "text"} /\ i' \in Nat \ {0} /\ next' \in Nat
        /\ stage' = "text" => next' = text.from
    BY <1>1, ImageAssumption DEF EntryDone, EntriesDone, MapTypes
  <1>6. TypeOK'
    BY <1>1, <1>5 DEF MapTypes, TypeOK
  <1>7. stage' \in Segments => next' >= Segment'.pages.from
    BY <1>5, ImageAssumption DEF Segments, Segment
  <1> QED
    BY <1>1, <1>4, <1>5, <1>6, <1>7 DEF MapTypes

(* The segments of the image. *)
LEMMA SegmentsAre ==
  ASSUME stage \in Segments
  PROVE  /\ Segment.pages \in {text, rodata, data}
         /\ Segment.pages.from \in Nat /\ Segment.pages.to \in Nat
         /\ Segment.flags \in Flags
         /\ \A v \in Segment.pages.from .. Segment.pages.to :
              ImagePhys(v) \in 0 .. _hhdm_offset - 1
  <1>1. CASE stage = "text"
    <2>1. Segment = [pages |-> text, flags |-> Text]
      BY <1>1 DEF Segment
    <2> QED
      BY <2>1, ImageAssumption, DirectMapAssumption DEF Flags, ImagePhys
  <1>2. CASE stage = "rodata"
    <2>1. Segment = [pages |-> rodata, flags |-> Rodata]
      BY <1>2 DEF Segment
    <2> QED
      BY <2>1, ImageAssumption, DirectMapAssumption DEF Flags, ImagePhys
  <1>3. CASE stage = "data"
    <2>1. Segment = [pages |-> data, flags |-> Data]
      BY <1>3 DEF Segment
    <2> QED
      BY <2>1, ImageAssumption, DirectMapAssumption DEF Flags, ImagePhys
  <1> QED
    BY <1>1, <1>2, <1>3 DEF Segments

LEMMA SegmentKeepsFlags ==
  ASSUME MapShape, MapTypes, EntryFlags, pm_stack_idx \in Nat, MapSegmentPage,
         at = "vmm", UNCHANGED at
  PROVE  MapTypes' /\ EntryFlags'
  <1>1. /\ stage \in Segments /\ next \in Nat /\ next >= Segment.pages.from
        /\ next <= Segment.pages.to /\ next' = next + 1
        /\ vmm_map(next, ImagePhys(next), Segment.flags)
        /\ UNCHANGED <<stage, i>>
    BY DEF MapSegmentPage, MapTypes, Segments
  <1>2. /\ Segment.pages \in {text, rodata, data}
        /\ Segment.pages.from \in Nat /\ Segment.pages.to \in Nat
        /\ Segment.flags \in Flags
        /\ ImagePhys(next) \in 0 .. _hhdm_offset - 1
    BY <1>1, SegmentsAre
  <1>3. UNCHANGED <<phase, bootmap, memmap>>
    BY <1>1 DEF vmm_map, pmm_request_pages, pmm_memory
  <1>4. Segment' = Segment
    BY <1>1 DEF Segment
  <1>5. MapTypes'
    <2>1. TypeOK'
      BY <1>1, <1>2, MapPageTypes DEF MapTypes
    <2>2. /\ at' \notin Before \ {"vmm"} /\ stage # "root"
          /\ next' \in Nat /\ next' >= Segment.pages.from
      BY <1>1, <1>2 DEF Segments
    <2> QED
      BY <1>1, <1>3, <1>4, <2>1, <2>2 DEF MapTypes
  <1>6. ASSUME ~logged', NEW a \in DOMAIN memmap, IsMapped(memmap[a]),
               NEW p \in ShownPages(a)
        PROVE  (Maps(_hhdm_offset + p, p, FlagsOf(memmap[a])))'
    <2>1. /\ memmap'[a] = memmap[a] /\ memmap[a] \in Entry
          /\ _hhdm_offset + memmap[a].base + memmap[a].length <= Segment.pages.from
      BY <1>2, <1>3, EntriesInOrder
    <2>2. p < memmap[a].base + memmap[a].length /\ p \in Nat
      BY <2>1 DEF ShownPages, EntryPages, Pages, Entry
    <2>3. _hhdm_offset + p # next
      BY <1>1, <1>2, <2>1, <2>2, DirectMapAssumption DEF Entry
    <2>4. /\ ~logged
          /\ \A w, x, f : w # next => (Maps(w, x, f) => Maps(w, x, f)')
      BY <1>1, <1>6, NothingLogged DEF MapTypes, TypeOK
    <2>5. Maps(_hhdm_offset + p, p, FlagsOf(memmap[a]))
      BY <1>1, <1>6, <2>4 DEF EntryFlags, Covered, Mapping, Segments
    <2> QED
      BY <2>1, <2>3, <2>4, <2>5
  <1> QED
    BY <1>1, <1>3, <1>5, <1>6 DEF EntryFlags, IsMapped, ShownPages, EntryPages, FirstPage, Skew

LEMMA SegmentDoneKeepsFlags ==
  ASSUME MapTypes, EntryFlags, SegmentDone, at = "vmm", UNCHANGED at
  PROVE  MapTypes' /\ EntryFlags'
  <1>1. /\ stage \in Segments
        /\ UNCHANGED <<phase, bootmap, memmap, mapping, tables, logged, i>>
    BY DEF SegmentDone, pmm_vars, pmm_memory, Segments
  <1>2. \/ stage' = "rodata" /\ next' = rodata.from
        \/ stage' = "data" /\ next' = data.from
        \/ stage' = "done" /\ next' = 0
    BY <1>1 DEF SegmentDone, Segments
  <1>3. stage' \in Segments => next' >= Segment'.pages.from
    BY <1>2, ImageAssumption DEF Segment, Segments
  <1>4. next' \in Nat /\ stage' \in {"rodata", "data", "done"}
    BY <1>2, ImageAssumption
  <1>5. TypeOK'
    BY <1>1, <1>4 DEF MapTypes, TypeOK
  <1>6. EntryFlags'
    <2>1. ~logged => \A a \in DOMAIN memmap : IsMapped(memmap[a]) =>
                       \A p \in ShownPages(a) :
                         Maps(_hhdm_offset + p, p, FlagsOf(memmap[a]))
      BY <1>1 DEF EntryFlags, Covered, Mapping, Segments
    <2>2. memmap' = memmap /\ mapping' = mapping /\ logged' = logged
      BY <1>1
    <2> QED
      BY <2>1, <2>2, Zenon DEF EntryFlags, Maps, ShownPages, EntryPages, Pages, IsMapped,
                               FlagsOf, FirstPage, Skew
  <1>7. /\ at' \notin Before \ {"vmm"} /\ i' \in Nat \ {0}
        /\ phase' \notin {"count", "locate", "push"}
    BY <1>1 DEF MapTypes, Segments
  <1> QED
    BY <1>3, <1>4, <1>5, <1>6, <1>7 DEF MapTypes

-----------------------------------------------------------------------------
MapInv == MapShape /\ MapTypes /\ EntryFlags

LEMMA VmmInitKeepsMapInv ==
  ASSUME TableInv, MapInv, CallVmmInit
  PROVE  MapInv'
  <1>1. at = "vmm" /\ UNCHANGED at /\ vmm_init /\ pm_stack_idx \in Nat
    BY DEF CallVmmInit, boot_vars, TableInv, Before
  <1>2. MapShape'
    <2>1. UNCHANGED <<phase, bootmap, memmap, pm_total_pages, ent>>
      BY <1>1 DEF vmm_init, CreateRoot, MapPage, EntryDone, EntriesDone, MapSegmentPage,
                  SegmentDone, vmm_map, pmm_request_pages, pmm_vars, pmm_memory, pmm_loops
    <2> QED
      BY <2>1 DEF MapInv, MapShape
  <1>3. CASE CreateRoot
    <2>1. /\ phase = "ready" /\ UNCHANGED <<phase, memmap, i, next, mapping, tables, logged>>
          /\ stage = "root" /\ stage' \in {"entries", "failed"}
      BY <1>1, <1>3 DEF vmm_init, CreateRoot, pmm_request_pages, pmm_memory
    <2>2. MapTypes'
      BY <1>1, <2>1 DEF MapInv, MapTypes, TypeOK, Segments
    <2>3. i = 1 /\ next = 0
      BY <2>1 DEF MapInv, MapTypes
    <2>4. \A a \in DOMAIN memmap : \A p \in ShownPages(a) :
            stage' = "entries" => ~Covered(a, p)'
      <3>1. \A a \in DOMAIN memmap : a \in Nat \ {0} /\ memmap[a] \in Entry
        BY EntriesInOrder DEF MapInv
      <3>2. \A a \in DOMAIN memmap : \A p \in ShownPages(a) :
              p \in Nat /\ FirstPage(memmap[a]) \in Nat /\ p >= FirstPage(memmap[a])
        BY <3>1, FirstPageIs DEF ShownPages, EntryPages, Pages, Entry
      <3> QED
        BY <2>1, <2>3, <3>1, <3>2 DEF Covered
    <2>5. EntryFlags'
      BY <2>1, <2>4 DEF EntryFlags, Mapping, ShownPages, EntryPages, FirstPage, Skew
    <2> QED
      BY <1>2, <2>2, <2>5 DEF MapInv
  <1>4. CASE MapPage
    BY <1>1, <1>2, <1>4, MapPageKeepsFlags DEF MapInv
  <1>5. CASE EntryDone \/ EntriesDone
    BY <1>1, <1>2, <1>5, EntryDoneKeepsFlags DEF MapInv
  <1>6. CASE MapSegmentPage
    BY <1>1, <1>2, <1>6, SegmentKeepsFlags DEF MapInv
  <1>7. CASE SegmentDone
    BY <1>1, <1>2, <1>7, SegmentDoneKeepsFlags DEF MapInv
  <1> QED
    BY <1>1, <1>3, <1>4, <1>5, <1>6, <1>7 DEF vmm_init

LEMMA UnchangedMap ==
  ASSUME MapTypes, EntryFlags,
         UNCHANGED <<stage, i, next, mapping, tables, logged, memmap>>,
         phase \notin {"count", "locate", "push"} => phase' \notin {"count", "locate", "push"},
         at' \in Before \ {"vmm"} => stage = "root"
  PROVE  MapTypes' /\ EntryFlags'
  <1>1. TypeOK' /\ Segment' = Segment
    BY DEF MapTypes, TypeOK, Segment
  <1>2. MapTypes'
    BY <1>1 DEF MapTypes
  <1>3. EntryFlags'
    <2>1. \A a, p : (Covered(a, p))' = Covered(a, p)
      BY DEF Covered, FirstPage, Skew
    <2>2. \A a : (ShownPages(a))' = ShownPages(a)
      BY DEF ShownPages, EntryPages, FirstPage, Skew
    <2>3. \A v, p, flags : (Maps(v, p, flags))' = Maps(v, p, flags)
      BY DEF Maps
    <2>4. \A a : (IsMapped(memmap[a]))' = IsMapped(memmap[a])
               /\ (FlagsOf(memmap[a]))' = FlagsOf(memmap[a])
      BY DEF IsMapped, FlagsOf
    <2>5. UNCHANGED <<stage, logged, memmap>>
      OBVIOUS
    <2> QED
      BY <2>1, <2>2, <2>3, <2>4, <2>5 DEF EntryFlags
  <1> QED
    BY <1>2, <1>3

LEMMA MapInvStep == TableInv /\ MapInv /\ [Next]_vars => MapInv'
  <1> SUFFICES ASSUME TableInv, MapInv, [Next]_vars PROVE MapInv'
    OBVIOUS
  <1> USE DEF MapInv
  <1>1. CASE CallVmmInit
    BY <1>1, VmmInitKeepsMapInv
  <1>2. CASE CallPmmInit
    <2>1. /\ at = "pmm" /\ UNCHANGED <<at, stage, i, next, mapping, tables, logged>>
          /\ pmm_init
      BY <1>2 DEF CallPmmInit, boot_vars, map_vars
    <2>2. MapShape' /\ stage = "root"
      BY <2>1, PmmInitKeepsShape DEF MapTypes, Before
    <2>3. TypeOK'
      BY <2>1 DEF MapTypes, TypeOK
    <2>4. MapTypes'
      BY <2>1, <2>2, <2>3 DEF MapTypes, Segments
    <2>5. EntryFlags'
      BY <2>1, <2>2 DEF EntryFlags, Mapping
    <2> QED
      BY <2>2, <2>4, <2>5
  <1>3. CASE \/ CheckFramebuffer \/ CheckTerminal \/ CheckMemmap \/ CheckHhdm
             \/ CheckKernelAddress \/ PmmInitReturns \/ VmmInitReturns
             \/ GdtInit \/ IdtInit \/ Fault \/ Interrupt
             \/ Kmalloc \/ WriteHeaders \/ PrintInfo
             \/ UNCHANGED vars
    <2>1. /\ UNCHANGED <<phase, bootmap, memmap, pm_total_pages, ent,
                         stage, i, next, mapping, tables, logged>>
          /\ at' \in Before \ {"vmm"} => at \in Before \ {"vmm"}
      BY <1>3 DEF Check, CheckFramebuffer, CheckTerminal, CheckMemmap, CheckHhdm,
                  CheckKernelAddress, PmmInitReturns, VmmInitReturns, GdtInit, IdtInit,
                  Fault, Interrupt, Kmalloc, WriteHeaders, PrintInfo, Step, but_at, vars,
                  boot_vars,
                  map_vars, pmm_vars, pmm_memory, pmm_loops, Before
    <2>2. MapShape'
      BY <2>1 DEF MapShape
    <2>3. at' \in Before \ {"vmm"} => stage = "root"
      BY <2>1 DEF MapTypes
    <2> QED
      BY <2>1, <2>2, <2>3, UnchangedMap
  <1>4. CASE LiballocAlloc \/ Kfree
    <2>1. /\ UNCHANGED <<bootmap, memmap, pm_total_pages, ent,
                         stage, i, next, mapping, tables, logged>>
          /\ at' \in {"headers", "hlt"}
          /\ phase' \in {"ready", "halted"}
      BY <1>4 DEF LiballocAlloc, Kfree, Step, map_vars, pmm_request_pages, pmm_free_pages,
                  pmm_memory, pmm_loops
    <2>2. MapShape'
      BY <2>1 DEF MapShape
    <2>3. at' \notin Before \ {"vmm"}
      BY <2>1 DEF Before
    <2> QED
      BY <2>1, <2>2, <2>3, UnchangedMap
  <1> QED
    BY <1>1, <1>2, <1>3, <1>4 DEF Next, olive_entry

LEMMA InitMapInv == Init => MapInv
  <1> SUFFICES ASSUME Init PROVE MapInv
    OBVIOUS
  <1> USE DEF Init, MapInit, PMMInit
  <1>1. MapShape
    <2>1. bootmap \in Seq(Entry)
      BY MemMapsAssumption
    <2>2. \A a \in DOMAIN bootmap : bootmap[a] \in Entry
      BY <2>1
    <2>3. \A a \in DOMAIN bootmap : bootmap[a].length <= bootmap[a].length
      BY <2>2 DEF Entry
    <2> QED
      BY <2>1, <2>3 DEF MapShape
  <1>2. MapTypes
    <2>1. \A v : v \notin DOMAIN mapping
      OBVIOUS
    <2>2. TypeOK
      BY <2>1 DEF TypeOK
    <2>3. /\ at = "framebuffer" /\ stage = "root" /\ i = 1 /\ next = 0
      OBVIOUS
    <2> HIDE DEF Init, MapInit, PMMInit
    <2> QED
      BY <2>2, <2>3 DEF MapTypes, Segments
  <1>3. EntryFlags
    BY DEF EntryFlags, Mapping
  <1> QED
    BY <1>1, <1>2, <1>3 DEF MapInv

LEMMA MapInvAlways == Spec => []MapInv
  <1>1. Init => TableInv
    BY DEF Init, MapInit, PMMInit, TableInv, Before, Behind, Mapping
  <1> QED
    BY <1>1, InitMapInv, TableInvStep, MapInvStep, PTL DEF Spec

(* The entries of the page map of vmm_init point to physical pages, never  *)
(* to pages of the direct map, with flags that vmm_init uses; its tables   *)
(* are those of three levels.                                              *)
THEOREM BootTypeOK == Spec => []TypeOK
  <1>1. MapInv => TypeOK
    BY DEF MapInv, MapTypes
  <1> QED
    BY <1>1, MapInvAlways, PTL

(* When vmm_init loads CR3 and no vmm_map ran out of pages, every page of  *)
(* an entry has the flags of that entry, but for the page in the middle of *)
(* which a framebuffer begins: ALIGN_UP of its base leaves that one out.   *)
(* The windows that run on behind framebuffers and reclaimable entries are *)
(* mapped over in time, because the entries are sorted.                    *)
THEOREM BootEntriesKeepTheirFlags == Spec => []EntriesKeepTheirFlags
  <1>1. MapInv => EntriesKeepTheirFlags
    BY DEF MapInv, EntryFlags, Covered, ShownPages, EntriesKeepTheirFlags, FlagsOf, Mapping
  <1> QED
    BY <1>1, MapInvAlways, PTL

-----------------------------------------------------------------------------
(* When the kernel comes up.  What PMMProofs says of pmm.c without clients *)
(* is said of pmm_init here.                                               *)

NoGrants == [c \in {} |-> NULL]

Pmm == INSTANCE PMMProofs WITH Clients <- {}, Runs <- {}, held <- NoGrants

LEMMA NoClients == IsFiniteSet({}) /\ {} \subseteq Nat
  BY FS_EmptySet

(* The facts of PMMProofs that are used. *)
LEMMA PmmStarts == Pmm!Init => Pmm!CounterInv
  BY Pmm!InitCounterInv, NoClients, MemMapsAssumption, EntriesPerPageAssumption
     DEF Pmm!Entry, Entry, Pmm!EntryTypes, EntryTypes, Pmm!IsUsable, IsUsable,
         Pmm!Pages, Pages, Pmm!NULL, NULL, Pmm!IsFiniteSet, IsFiniteSet

LEMMA PmmGoesOn ==
  ASSUME Pmm!CounterInv, Pmm!Boot
  PROVE  Pmm!CounterInv'
  BY Pmm!BootCounterInv, NoClients, MemMapsAssumption, EntriesPerPageAssumption
     DEF Pmm!Entry, Entry, Pmm!EntryTypes, EntryTypes, Pmm!IsUsable, IsUsable,
         Pmm!Pages, Pages, Pmm!NULL, NULL, Pmm!IsFiniteSet, IsFiniteSet

LEMMA PmmStays ==
  ASSUME Pmm!CounterInv,
         UNCHANGED <<phase, bootmap, memmap, ent, off, pm_stack, pm_stack_base,
                     pm_total_pages, pm_stack_idx, pm_free_pages, pm_used_pages>>
  PROVE  Pmm!CounterInv'
  <1>1. UNCHANGED Pmm!vars
    BY DEF Pmm!vars, Pmm!pmm_vars, Pmm!pmm_memory, Pmm!pmm_loops, Pmm!pmm_counts, NoGrants
  <1> QED
    BY <1>1, Pmm!NextCounterInv, NoClients, MemMapsAssumption, EntriesPerPageAssumption
       DEF Pmm!Entry, Entry, Pmm!EntryTypes, EntryTypes, Pmm!IsUsable, IsUsable,
           Pmm!Pages, Pages, Pmm!NULL, NULL, Pmm!IsFiniteSet, IsFiniteSet

LEMMA PmmKeepsPages ==
  ASSUME Pmm!PageInv, Pmm!Boot
  PROVE  Pmm!PageInv'
  BY Pmm!BootPageInv, NoClients, MemMapsAssumption, EntriesPerPageAssumption
     DEF Pmm!Entry, Entry, Pmm!EntryTypes, EntryTypes, Pmm!IsUsable, IsUsable,
         Pmm!Pages, Pages, Pmm!NULL, NULL, Pmm!IsFiniteSet, IsFiniteSet

LEMMA PmmCarves ==
  ASSUME Pmm!TypeInv, Pmm!Carved, Pmm!NotCarved
  PROVE  /\ Pmm!StackPages \subseteq Pmm!UsablePages(bootmap)
         /\ Pmm!UsablePages(memmap) = Pmm!UsablePages(bootmap) \ Pmm!StackPages
         /\ \A p \in Pmm!UsablePages(bootmap) : p \in Nat /\ p # NULL
  BY Pmm!CarvedPages, NoClients, MemMapsAssumption, EntriesPerPageAssumption
     DEF Pmm!Entry, Entry, Pmm!EntryTypes, EntryTypes, Pmm!IsUsable, IsUsable,
         Pmm!Pages, Pages, Pmm!NULL, NULL, Pmm!IsFiniteSet, IsFiniteSet

LEMMA PmmSees ==
  ASSUME bootmap \in MemMaps
  PROVE  Pmm!PagesSeen(Len(bootmap)) = Pmm!UsablePages(bootmap)
  BY Pmm!AllSeen, NoClients, MemMapsAssumption, EntriesPerPageAssumption
     DEF Pmm!Entry, Entry, Pmm!EntryTypes, EntryTypes, Pmm!IsUsable, IsUsable,
         Pmm!Pages, Pages, Pmm!NULL, NULL, Pmm!IsFiniteSet, IsFiniteSet

(* The definitions of PMM are the same in both. *)
LEMMA SamePages ==
  /\ Pmm!UsablePages(bootmap) = UsablePages(bootmap)
  /\ Pmm!UsablePages(memmap) = UsablePages(memmap)
  /\ Pmm!pm_stack_size = pm_stack_size
  /\ Pmm!StackPages = StackPages
  /\ Pmm!FreePages = FreePages
  BY DEF Pmm!UsablePages, UsablePages, Pmm!EntryPages, EntryPages, Pmm!Pages, Pages,
         Pmm!IsUsable, IsUsable, Pmm!pm_stack_size, pm_stack_size, Pmm!StackPages, StackPages,
         Pmm!NULL, NULL, Pmm!FreePages, FreePages, Pmm!FreeSlots, FreeSlots

LEMMA PmmInitIsBoot == pmm_init => Pmm!Boot
  BY DEF Pmm!Boot, Pmm!pmm_init, pmm_init, NoGrants,
         Pmm!CountEntry, CountEntry, Pmm!CountDone, CountDone, Pmm!PlaceStack, PlaceStack,
         Pmm!SkipEntry, SkipEntry, Pmm!NoPlace, NoPlace, Pmm!PushPage, PushPage,
         Pmm!NextEntry, NextEntry, Pmm!PushDone, PushDone, Pmm!CanHold, CanHold,
         Pmm!Shortened, Shortened, Pmm!pm_stack_size, pm_stack_size, Pmm!IsUsable, IsUsable,
         Pmm!pmm_memory, pmm_memory, Pmm!pmm_loops, pmm_loops, Pmm!pmm_counts, pmm_counts,
         Pmm!NULL, NULL

LEMMA PmmInitIsInit == PMMInit => Pmm!Init
  BY DEF Pmm!Init, Pmm!PMMInit, PMMInit, NoGrants, Pmm!NULL, NULL, Pmm!NoGrant

LEMMA SameCardinality ==
  /\ \A S : Pmm!Cardinality(S) = Cardinality(S)
  /\ \A S : Pmm!IsFiniteSet(S) <=> IsFiniteSet(S)
  BY DEF Pmm!Cardinality, Cardinality, Pmm!IsFiniteSet, IsFiniteSet

(* The array comes out of the highest entry that is large enough. *)
Placed ==
  pm_stack_base # NULL =>
    \E k \in DOMAIN bootmap :
      /\ Pmm!CarvedFrom(k)
      /\ \A a \in DOMAIN bootmap :
           a > k /\ IsUsable(bootmap[a]) => bootmap[a].length < pm_stack_size

LEMMA PlacedStep ==
  ASSUME Pmm!CounterInv, Placed, pmm_init
  PROVE  Placed'
  <1>1. /\ bootmap \in MemMaps /\ DOMAIN bootmap = 1 .. Len(bootmap) /\ Len(bootmap) \in Nat
        /\ phase \in {"count", "locate"} => pm_stack_base = NULL /\ memmap = bootmap
        /\ phase = "locate" => ent <= Len(bootmap)
        /\ phase = "locate" => \A a \in Pmm!UsableEntries : a > ent => Pmm!TooSmall(a)
        /\ ent \in Nat
    BY MemMapsAssumption
       DEF Pmm!CounterInv, Pmm!FragmentInv, Pmm!TypeInv, Pmm!TypeOK, Pmm!BeforePlace,
           Pmm!LoopBounds, Pmm!PlaceInv, Pmm!NULL, NULL
  <1>2. CASE PlaceStack
    <2>1. /\ phase = "locate" /\ ent \in DOMAIN bootmap /\ memmap = bootmap
          /\ IsUsable(bootmap[ent]) /\ bootmap[ent].length >= pm_stack_size
          /\ memmap' = [bootmap EXCEPT ![ent].length = @ - pm_stack_size]
          /\ pm_stack_base' = bootmap[ent].base + bootmap[ent].length - pm_stack_size
          /\ UNCHANGED <<bootmap, pm_total_pages>>
      BY <1>1, <1>2 DEF PlaceStack, CanHold, Shortened
    <2>2. pm_stack_size' = pm_stack_size
      BY <2>1 DEF pm_stack_size
    <2>3. \A a \in DOMAIN bootmap :
            a > ent /\ IsUsable(bootmap[a]) => bootmap[a].length < pm_stack_size
      BY <1>1, <2>1 DEF Pmm!UsableEntries, Pmm!TooSmall, Pmm!IsUsable, IsUsable,
                        Pmm!pm_stack_size, pm_stack_size
    <2>4. PICK k : k = ent
      OBVIOUS
    <2>5. /\ k \in DOMAIN bootmap' /\ Pmm!CarvedFrom(k)'
          /\ \A a \in DOMAIN bootmap' :
               a > k /\ IsUsable(bootmap'[a]) => bootmap'[a].length < pm_stack_size'
      <3>1. Pmm!CarvedFrom(k)'
        BY <2>1, <2>2, <2>4
           DEF Pmm!CarvedFrom, Pmm!IsUsable, IsUsable, Pmm!pm_stack_size, pm_stack_size
      <3> QED
        BY <2>1, <2>2, <2>3, <2>4, <3>1
    <2> QED
      BY <2>5 DEF Placed
  <1>3. CASE ~PlaceStack
    <2>1. /\ UNCHANGED <<bootmap, memmap, pm_stack_base>>
          /\ phase \notin {"count", "locate"} => UNCHANGED pm_total_pages
      BY <1>3 DEF pmm_init, CountEntry, CountDone, SkipEntry, NoPlace, PushPage, NextEntry,
                  PushDone, pmm_memory
    <2>2. CASE phase \in {"count", "locate"}
      BY <1>1, <2>1, <2>2 DEF Placed
    <2>3. CASE phase \notin {"count", "locate"}
      <3>1. UNCHANGED pm_total_pages
        BY <2>1, <2>3
      <3> QED
        BY <2>1, <3>1 DEF Placed, Pmm!CarvedFrom, Pmm!pm_stack_size, pm_stack_size
    <2> QED
      BY <2>2, <2>3
  <1> QED
    BY <1>2, <1>3

(* Where pmm_init leaves the memory, read off the boot map. *)
Arranged ==
  /\ IsFiniteSet(UsablePages(bootmap))
  /\ pm_total_pages = UsableCount
  /\ pm_stack_base \in Nat
  /\ pm_stack_base = NULL => Holders = {}
  /\ pm_stack_base # NULL => Holders # {} /\ pm_stack_base = ArrayBase
  /\ UsablePages(memmap) = UsablePages(bootmap) \ StackPages
  /\ StackPages \subseteq UsablePages(bootmap)
  /\ \A p \in UsablePages(bootmap) : p \in Nat /\ p # NULL
  /\ \A a \in DOMAIN bootmap : ~IsUsable(bootmap[a]) => memmap[a] = bootmap[a]

LEMMA Arranges ==
  ASSUME Pmm!CounterInv, Placed, phase \notin {"count", "locate"}
  PROVE  Arranged
  <1>1. /\ Pmm!TypeInv /\ Pmm!Carved /\ Pmm!NotCarved /\ Pmm!CountInv /\ Pmm!PlaceInv
        /\ bootmap \in MemMaps
    BY DEF Pmm!CounterInv, Pmm!FragmentInv, Pmm!TypeInv, Pmm!TypeOK
  <1>2. bootmap \in Seq(Entry) /\ Len(bootmap) \in Nat /\ DOMAIN bootmap = 1 .. Len(bootmap)
    BY <1>1, MemMapsAssumption
  <1>3. /\ IsFiniteSet(UsablePages(bootmap)) /\ pm_total_pages = UsableCount
        /\ pm_stack_base \in Nat
    BY <1>1, PmmSees, SamePages, SameCardinality
       DEF Pmm!CountInv, Pmm!Counted, UsableCount, Pmm!TypeInv, Pmm!TypeOK
  <1>4. pm_stack_size = ArrayPages
    BY <1>3 DEF pm_stack_size, ArrayPages
  <1>5. /\ UsablePages(memmap) = UsablePages(bootmap) \ StackPages
        /\ StackPages \subseteq UsablePages(bootmap)
        /\ \A p \in UsablePages(bootmap) : p \in Nat /\ p # NULL
    BY <1>1, PmmCarves, SamePages
  <1>6. \A a \in DOMAIN bootmap : bootmap[a] \in Entry
    BY <1>2
  <1>7. ArrayPages \in Nat
    BY <1>1, <1>4, StackSizeIsNat DEF Pmm!TypeInv, Pmm!TypeOK
  <1>8. CASE pm_stack_base = NULL
    <2>1. Holders = {}
      <3>1. \A a \in Pmm!UsableEntries : Pmm!TooSmall(a)
        BY <1>1, <1>8 DEF Pmm!PlaceInv, Pmm!NULL, NULL
      <3>2. \A a \in DOMAIN bootmap : IsUsable(bootmap[a]) => bootmap[a].length < ArrayPages
        BY <3>1, <1>4, SamePages DEF Pmm!UsableEntries, Pmm!TooSmall, Pmm!IsUsable, IsUsable
      <3>3. \A a \in DOMAIN bootmap : bootmap[a].length \in Nat
        BY <1>6 DEF Entry
      <3> QED
        BY <1>7, <3>2, <3>3 DEF Holders
    <2>2. memmap = bootmap
      BY <1>1, <1>8 DEF Pmm!NotCarved, Pmm!NULL, NULL
    <2> QED
      BY <1>3, <1>5, <1>8, <2>1, <2>2 DEF Arranged
  <1>9. CASE pm_stack_base # NULL
    <2>1. PICK k \in DOMAIN bootmap :
            /\ Pmm!CarvedFrom(k)
            /\ \A a \in DOMAIN bootmap :
                 a > k /\ IsUsable(bootmap[a]) => bootmap[a].length < pm_stack_size
      BY <1>9 DEF Placed
    <2>2. /\ IsUsable(bootmap[k]) /\ bootmap[k].length >= ArrayPages
          /\ memmap = [bootmap EXCEPT ![k].length = @ - ArrayPages]
          /\ pm_stack_base = bootmap[k].base + bootmap[k].length - ArrayPages
      BY <2>1, <1>4, SamePages DEF Pmm!CarvedFrom, Pmm!IsUsable, IsUsable
    <2>3. k \in Holders /\ \A a \in Holders : a \in Int /\ ~(a > k)
      <3>1. \A a \in DOMAIN bootmap : bootmap[a].length \in Nat /\ a \in Int
        BY <1>2, <1>6 DEF Entry
      <3> QED
        BY <2>1, <2>2, <1>4, <1>7, <3>1 DEF Holders
    <2>4. Max(Holders) = k
      <3>1. k \in Int /\ \A a \in Holders : k >= a
        BY <2>3
      <3> QED
        BY <2>3, <3>1 DEF Max
    <2>5. pm_stack_base = ArrayBase
      BY <2>2, <2>4 DEF ArrayBase
    <2>6. \A a \in DOMAIN bootmap : ~IsUsable(bootmap[a]) => memmap[a] = bootmap[a]
      BY <2>2
    <2> QED
      BY <1>3, <1>5, <1>9, <2>3, <2>5, <2>6 DEF Arranged
  <1> QED
    BY <1>8, <1>9

LEMMA ArrangedStays ==
  ASSUME Arranged, UNCHANGED <<bootmap, memmap, pm_stack_base, pm_total_pages>>
  PROVE  Arranged'
  <1>1. /\ UsablePages(bootmap)' = UsablePages(bootmap)
        /\ UsablePages(memmap)' = UsablePages(memmap)
    BY DEF UsablePages, EntryPages
  <1>2. StackPages' = StackPages
    BY DEF StackPages, pm_stack_size
  <1>3. UsableCount' = UsableCount /\ ArrayPages' = ArrayPages
    BY <1>1 DEF UsableCount, ArrayPages
  <1>4. Holders' = Holders
    BY <1>3 DEF Holders
  <1>5. ArrayBase' = ArrayBase
    BY <1>3, <1>4 DEF ArrayBase
  <1> QED
    BY <1>1, <1>2, <1>3, <1>4, <1>5 DEF Arranged

-----------------------------------------------------------------------------
(* What olive_entry finds when pmm_init has returned: the live slots hold  *)
(* pages of the shortened map, and no page but the array's is missing.     *)
Ready ==
  /\ Arranged
  /\ FreePages \subseteq UsablePages(memmap)
  /\ pm_stack_idx \in Nat /\ pm_used_pages \in Nat
  /\ pm_stack_idx + pm_used_pages = UsableCount - ArrayPages
  /\ pm_stack_base = NULL => pm_stack_idx = 0

Early == {"framebuffer", "terminal", "gdt", "idt", "memmap", "hhdm"}
Late  == {"kmalloc", "alloc", "headers", "print", "kfree"}

Setup ==
  /\ at \in Early => phase = "count"
  /\ at = "pmm" => phase \in {"count", "locate", "push", "ready", "fault"}
  /\ at \in {"address", "vmm"} \cup Late => phase = "ready"
  /\ at \in Early \cup {"pmm"} /\ phase \in {"count", "locate", "push"} =>
       Pmm!CounterInv /\ Placed
  /\ at = "pmm" /\ phase = "fault" => Holders = {}
  /\ at \in {"pmm", "address", "vmm"} \cup Late /\ phase = "ready" => Ready

LEMMA ReadyWhenPushed ==
  ASSUME Pmm!CounterInv, Placed, pmm_init, PushDone
  PROVE  Ready'
  <1>1. /\ phase = "push" /\ phase' = "ready"
        /\ UNCHANGED <<bootmap, memmap, pm_stack_base, pm_total_pages, pm_stack, pm_stack_idx,
                       pm_used_pages>>
    BY DEF PushDone, pmm_memory
  <1>2. Arranged /\ Arranged'
    BY <1>1, Arranges, ArrangedStays
  <1>3. Pmm!CounterInv' /\ Pmm!PageInv'
    BY <1>1, PmmInitIsBoot, PmmGoesOn, PmmKeepsPages DEF Pmm!CounterInv
  <1>4. /\ pm_stack_idx \in Nat
        /\ pm_stack_base = NULL => pm_stack_idx = 0
        /\ pm_used_pages = 0
    BY <1>1 DEF Pmm!CounterInv, Pmm!PageInv, Pmm!TypeInv, Pmm!TypeOK, Pmm!NULL, NULL
  <1>5. FreePages \subseteq UsablePages(memmap)
    <2>1. Pmm!FreePages' \subseteq Pmm!UsablePages(bootmap)' \ Pmm!StackPages'
      BY <1>1, <1>3 DEF Pmm!PageInv, Pmm!Partition
    <2>2. /\ Pmm!FreePages' = Pmm!FreePages
          /\ Pmm!UsablePages(bootmap)' = Pmm!UsablePages(bootmap)
          /\ Pmm!StackPages' = Pmm!StackPages
      BY <1>1 DEF Pmm!FreePages, Pmm!FreeSlots, Pmm!UsablePages, Pmm!EntryPages,
                  Pmm!StackPages, Pmm!pm_stack_size
    <2> QED
      BY <1>2, <2>1, <2>2, SamePages DEF Arranged
  <1>6. pm_stack_idx = UsableCount - ArrayPages
    <2>1. pm_free_pages' = pm_stack_idx /\ pm_used_pages' = 0
      BY <1>1, <1>4 DEF PushDone
    <2>2. pm_free_pages' + pm_used_pages' + Pmm!pm_stack_size'
            = Pmm!Cardinality(Pmm!UsablePages(bootmap)')
      BY <1>1, <1>3 DEF Pmm!CounterInv, Pmm!Accounting
    <2>3. /\ Pmm!pm_stack_size' = pm_stack_size
          /\ Pmm!UsablePages(bootmap)' = UsablePages(bootmap)
      BY <1>1, SamePages DEF Pmm!pm_stack_size, Pmm!UsablePages, Pmm!EntryPages
    <2>4. pm_stack_size = ArrayPages /\ ArrayPages \in Nat /\ UsableCount \in Nat
      <3>1. UsableCount \in Nat
        BY <1>2, FS_CardinalityType DEF Arranged, UsableCount
      <3>2. pm_stack_size = ArrayPages
        BY <1>2 DEF Arranged, pm_stack_size, ArrayPages
      <3> QED
        BY <1>2, <3>1, <3>2, StackSizeIsNat DEF Arranged
    <2>5. Pmm!Cardinality(UsablePages(bootmap)) = UsableCount
      BY SameCardinality DEF UsableCount
    <2> QED
      BY <1>4, <2>1, <2>2, <2>3, <2>4, <2>5
  <1>7. /\ FreePages' = FreePages /\ UsablePages(memmap)' = UsablePages(memmap)
        /\ UsableCount' = UsableCount /\ ArrayPages' = ArrayPages
    BY <1>1 DEF FreePages, FreeSlots, UsablePages, EntryPages, UsableCount, ArrayPages
  <1>8. UsableCount - ArrayPages = pm_stack_idx + pm_used_pages
    BY <1>4, <1>6
  <1> QED
    BY <1>1, <1>2, <1>4, <1>5, <1>7, <1>8 DEF Ready

LEMMA PmmInitSetsUp ==
  ASSUME TableInv, Setup, CallPmmInit
  PROVE  Setup'
  <1>1. at = "pmm" /\ at' = "pmm" /\ pmm_init
    BY DEF CallPmmInit, boot_vars
  <1>2. phase \in {"count", "locate", "push"}
    BY <1>1 DEF pmm_init, CountEntry, CountDone, PlaceStack, SkipEntry, NoPlace, PushPage,
                NextEntry, PushDone
  <1>3. Pmm!CounterInv /\ Placed
    BY <1>1, <1>2 DEF Setup
  <1>4. Pmm!CounterInv' /\ Placed'
    BY <1>1, <1>3, PmmInitIsBoot, PmmGoesOn, PlacedStep
  <1>5. /\ phase' \in {"count", "locate", "push", "ready", "failed", "fault"}
        /\ phase' = "ready" => PushDone
        /\ phase' = "fault" => phase = "push" /\ UNCHANGED <<bootmap, pm_stack_base>>
    BY <1>1, <1>2 DEF pmm_init, CountEntry, CountDone, PlaceStack, SkipEntry, NoPlace, PushPage,
                      NextEntry, PushDone, pmm_memory
  <1>6. /\ phase' # "failed"
        /\ phase' = "fault" => pm_stack_base' = NULL
    BY <1>4 DEF Pmm!CounterInv, Pmm!FragmentInv, Pmm!EndInv, Pmm!NULL, NULL
  <1>7. phase' = "fault" => Holders' = {}
    <2> SUFFICES ASSUME phase' = "fault" PROVE Holders' = {}
      OBVIOUS
    <2>1. Holders = {}
      BY <1>3, <1>5, <1>6, Arranges DEF Arranged
    <2>2. Holders' = Holders
      BY <1>5 DEF Holders, ArrayPages, UsableCount, UsablePages, EntryPages
    <2> QED
      BY <2>1, <2>2
  <1>8. phase' = "ready" => Ready'
    BY <1>1, <1>3, <1>5, ReadyWhenPushed
  <1> QED
    BY <1>1, <1>4, <1>5, <1>6, <1>7, <1>8 DEF Setup, Early, Late

LEMMA RequestKeepsReady ==
  ASSUME Ready, NEW n \in Nat, pmm_request_pages(n)
  PROVE  Ready'
  <1>1. /\ UNCHANGED <<bootmap, memmap, pm_stack_base, pm_total_pages, pm_stack>>
        /\ pm_stack_idx' \in Nat /\ pm_used_pages' \in Nat
        /\ pm_stack_idx' <= pm_stack_idx
        /\ pm_stack_idx' + pm_used_pages' = pm_stack_idx + pm_used_pages
    BY DEF Ready, pmm_request_pages, CanGrant, pmm_memory, pmm_counts
  <1>2. Arranged'
    BY <1>1, ArrangedStays DEF Ready
  <1>3. /\ UsablePages(memmap)' = UsablePages(memmap)
        /\ UsableCount' = UsableCount /\ ArrayPages' = ArrayPages
    BY <1>1 DEF UsablePages, EntryPages, UsableCount, ArrayPages
  <1>4. FreePages' \subseteq FreePages
    <2>1. pm_stack_idx \in Nat
      BY DEF Ready
    <2>2. \A x, y \in Nat : x <= y => 0 .. x - 1 \subseteq 0 .. y - 1
      OBVIOUS
    <2>3. FreeSlots' \subseteq FreeSlots
      BY <1>1, <2>1, <2>2 DEF FreeSlots
    <2> QED
      BY <1>1, <2>3 DEF FreePages
  <1>5. pm_stack_idx' + pm_used_pages' = UsableCount' - ArrayPages'
    BY <1>1, <1>3 DEF Ready
  <1>6. pm_stack_base' = NULL => pm_stack_idx' = 0
    BY <1>1 DEF Ready
  <1> QED
    BY <1>1, <1>2, <1>3, <1>4, <1>5, <1>6 DEF Ready

LEMMA UnchangedReady ==
  ASSUME Ready, UNCHANGED <<bootmap, memmap, pm_stack_base, pm_total_pages, pm_stack,
                            pm_stack_idx, pm_used_pages>>
  PROVE  Ready'
  <1>1. Arranged'
    BY ArrangedStays DEF Ready
  <1>2. /\ UsablePages(memmap)' = UsablePages(memmap) /\ FreePages' = FreePages
        /\ UsableCount' = UsableCount /\ ArrayPages' = ArrayPages
    BY DEF UsablePages, EntryPages, UsableCount, ArrayPages, FreePages, FreeSlots
  <1> QED
    BY <1>1, <1>2 DEF Ready

(* A step of vmm_init asks for pages, or leaves pmm.c alone. *)
LEMMA VmmInitRequests ==
  ASSUME vmm_init, pm_stack_idx \in Nat
  PROVE  \/ \E n \in Nat : pmm_request_pages(n)
         \/ UNCHANGED pmm_vars
  <1>1. ASSUME NEW v, NEW p, NEW flags, vmm_map(v, p, flags)
        PROVE  \E n \in Nat : pmm_request_pages(n)
    <2> DEFINE n == Cardinality(Path(v) \ tables)
               k == IF n <= pm_stack_idx THEN n ELSE pm_stack_idx
    <2>1. n \in Nat
      BY PathIsFinite, FS_Subset, FS_CardinalityType
    <2>2. k \in Nat
      BY <2>1
    <2>3. pmm_request_pages(k)
      BY <1>1 DEF vmm_map
    <2> HIDE DEF k
    <2> QED
      BY <2>2, <2>3
  <1>2. CASE CreateRoot
    BY <1>2 DEF CreateRoot
  <1>3. CASE MapPage
    BY <1>1, <1>3 DEF MapPage
  <1>4. CASE MapSegmentPage
    BY <1>1, <1>4 DEF MapSegmentPage
  <1>5. CASE EntryDone \/ EntriesDone \/ SegmentDone
    BY <1>5 DEF EntryDone, EntriesDone, SegmentDone
  <1> QED
    BY <1>2, <1>3, <1>4, <1>5 DEF vmm_init

LEMMA SetupStep == TableInv /\ Setup /\ [Next]_vars => Setup'
  <1> SUFFICES ASSUME TableInv, Setup, [Next]_vars PROVE Setup'
    OBVIOUS
  <1> USE DEF Early, Late
  <1>1. CASE CallPmmInit
    BY <1>1, PmmInitSetsUp
  <1>2. CASE CallVmmInit \/ LiballocAlloc
    <2>1. /\ at \in {"vmm", "alloc"} /\ at' \in {"vmm", "headers"}
          /\ phase = "ready" /\ Ready
      BY <1>2 DEF CallVmmInit, LiballocAlloc, Step, boot_vars, Setup
    <2>2. \/ \E n \in Nat : pmm_request_pages(n)
          \/ UNCHANGED pmm_vars
      <3>1. pm_stack_idx \in Nat /\ l_pageCount \in Nat
        BY <2>1, PageCountAssumption DEF Ready
      <3> QED
        BY <1>2, <3>1, VmmInitRequests DEF CallVmmInit, LiballocAlloc
    <2>3. phase' = "ready"
      BY <2>1, <2>2 DEF pmm_request_pages, pmm_vars
    <2>4. Ready'
      BY <2>1, <2>2, RequestKeepsReady, UnchangedReady DEF pmm_vars, pmm_memory, pmm_counts
    <2> QED
      BY <2>1, <2>3, <2>4 DEF Setup
  <1>3. CASE \/ CheckFramebuffer \/ CheckTerminal \/ CheckMemmap \/ CheckHhdm
             \/ CheckKernelAddress \/ PmmInitReturns \/ VmmInitReturns
             \/ GdtInit \/ IdtInit \/ Fault \/ Interrupt
             \/ Kmalloc \/ WriteHeaders \/ PrintInfo
             \/ UNCHANGED vars
    <2>1. UNCHANGED pmm_vars
      BY <1>3 DEF Check, CheckFramebuffer, CheckTerminal, CheckMemmap, CheckHhdm,
                  CheckKernelAddress, PmmInitReturns, VmmInitReturns, GdtInit, IdtInit,
                  Fault, Interrupt, Kmalloc, WriteHeaders, PrintInfo, but_at, vars
    <2>2. \/ at' = at \/ at' \in {"halted", "lost", "interrupted"}
          \/ at \in Early /\ at' \in Early \cup {"pmm"}
          \/ at = "pmm" /\ phase = "ready" /\ at' = "address"
          \/ at \in {"address", "vmm"} \cup Late /\ at' \in {"address", "vmm"} \cup Late
      BY <1>3 DEF Check, CheckFramebuffer, CheckTerminal, CheckMemmap, CheckHhdm,
                  CheckKernelAddress, PmmInitReturns, VmmInitReturns, GdtInit, IdtInit,
                  Fault, Interrupt, Kmalloc, WriteHeaders, PrintInfo, Step, vars, boot_vars
    <2>3. /\ Ready => Ready'
          /\ Pmm!CounterInv /\ Placed => Pmm!CounterInv' /\ Placed'
          /\ Holders' = Holders /\ phase' = phase
      <3>1. UNCHANGED <<phase, bootmap, memmap, ent, off, pm_stack, pm_stack_base,
                        pm_total_pages, pm_stack_idx, pm_free_pages, pm_used_pages>>
        BY <2>1 DEF pmm_vars, pmm_memory, pmm_loops, pmm_counts
      <3>2. Pmm!CounterInv => Pmm!CounterInv'
        BY <3>1, PmmStays
      <3>3. Placed => Placed'
        BY <3>1 DEF Placed, Pmm!CarvedFrom, Pmm!pm_stack_size, pm_stack_size
      <3>4. Holders' = Holders
        BY <3>1 DEF Holders, ArrayPages, UsableCount, UsablePages, EntryPages
      <3> QED
        BY <3>1, <3>2, <3>3, <3>4, UnchangedReady
    <2> QED
      BY <2>2, <2>3, Zenon DEF Setup
  <1>4. CASE Kfree
    BY <1>4 DEF Kfree, Step, Setup
  <1> QED
    BY <1>1, <1>2, <1>3, <1>4 DEF Next, olive_entry

LEMMA InitSetup == Init => Setup
  <1>1. Init => PMMInit /\ at = "framebuffer" /\ pm_stack_base = NULL
    BY DEF Init, MapInit, PMMInit
  <1> QED
    BY <1>1, PmmInitIsInit, PmmStarts DEF Setup, PMMInit, Placed, Early, Late

-----------------------------------------------------------------------------
(* How far the page map and its tables reach.                              *)
Image == (text.from .. text.to) \cup (rodata.from .. rodata.to) \cup (data.from .. data.to)

Addresses == {_hhdm_offset + p : p \in DirectMap} \cup Image

LEMMA NeededIs == TablesNeeded = UNION {Path(v) : v \in Addresses}
  <1>1. Addresses = {_hhdm_offset + p : p \in DirectMap}
                      \cup (text.from .. text.to) \cup (rodata.from .. rodata.to)
                      \cup (data.from .. data.to)
    BY DEF Addresses, Image
  <1> QED
    BY <1>1 DEF TablesNeeded

LEMMA PathIsNeeded ==
  ASSUME NEW v \in Addresses
  PROVE  Path(v) \subseteq TablesNeeded
  BY NeededIs

(* What of physical memory is mapped lies between page 0 and the direct    *)
(* map, and the image lies above what it shows of the entries.             *)
LEMMA BootEntries ==
  ASSUME bootmap \in MemMaps
  PROVE  /\ Len(bootmap) \in Nat /\ DOMAIN bootmap = 1 .. Len(bootmap)
         /\ \A a \in DOMAIN bootmap :
              /\ bootmap[a] \in Entry
              /\ bootmap[a].base \in Nat /\ bootmap[a].length \in Nat
              /\ 2 * bootmap[a].base + bootmap[a].length < _hhdm_offset
              /\ IsMapped(bootmap[a]) => bootmap[a].base > NULL
              /\ \A s \in {text, rodata, data} :
                   _hhdm_offset + bootmap[a].base + bootmap[a].length <= s.from
  <1>1. bootmap \in Seq(Entry)
    BY MemMapsAssumption
  <1>2. Len(bootmap) \in Nat /\ DOMAIN bootmap = 1 .. Len(bootmap)
        /\ \A a \in DOMAIN bootmap : bootmap[a] \in Entry
    BY <1>1
  <1>3. \A a \in DOMAIN bootmap : bootmap[a].base \in Nat /\ bootmap[a].length \in Nat
    BY <1>2 DEF Entry
  <1>4. \A a \in DOMAIN bootmap : IsMapped(bootmap[a]) => bootmap[a].base > NULL
    BY MemMapsAssumption, NullAssumption DEF IsMapped, IsUsable
  <1> QED
    BY <1>2, <1>3, <1>4, DirectMapAssumption

LEMMA MappedPages ==
  ASSUME bootmap \in MemMaps
  PROVE  \A p \in Windows \cup UsablePages(bootmap) : p \in Nat /\ p # NULL /\ p < _hhdm_offset
  <1>1. ASSUME NEW a \in DOMAIN bootmap, IsMapped(bootmap[a]), NEW f \in Nat,
               f >= bootmap[a].base, f <= bootmap[a].base + 1,
               NEW p \in Pages(f, bootmap[a].base + bootmap[a].length)
        PROVE  p \in Nat /\ p # NULL /\ p < _hhdm_offset
    BY <1>1, BootEntries, DirectMapAssumption DEF Pages, NULL
  <1>2. ASSUME NEW p \in Windows
        PROVE  p \in Nat /\ p # NULL /\ p < _hhdm_offset
    <2>1. PICK a \in DOMAIN bootmap :
            /\ bootmap[a].type \in {"framebuffer", "reclaimable"}
            /\ p \in Pages(FirstPage(bootmap[a]), bootmap[a].base + bootmap[a].length)
      BY <1>2 DEF Windows
    <2>2. bootmap[a] \in Entry
      BY BootEntries
    <2> QED
      BY <1>1, <2>1, <2>2, FirstPageIs DEF IsMapped
  <1>3. ASSUME NEW p \in UsablePages(bootmap)
        PROVE  p \in Nat /\ p # NULL /\ p < _hhdm_offset
    <2>1. PICK a \in DOMAIN bootmap : IsUsable(bootmap[a]) /\ p \in EntryPages(bootmap, a)
      BY <1>3 DEF UsablePages
    <2>2. p \in Pages(bootmap[a].base, bootmap[a].base + bootmap[a].length)
      BY <2>1, BootEntries DEF EntryPages, Pages
    <2>3. /\ bootmap[a].base \in Nat /\ IsMapped(bootmap[a])
          /\ bootmap[a].base >= bootmap[a].base /\ bootmap[a].base <= bootmap[a].base + 1
      BY <2>1, BootEntries DEF IsMapped, IsUsable
    <2> QED
      BY <1>1, <2>2, <2>3
  <1> QED
    BY <1>2, <1>3

LEMMA EntriesBelowImage ==
  ASSUME bootmap \in MemMaps, NEW a \in DOMAIN bootmap, NEW p \in EntryPages(bootmap, a)
  PROVE  _hhdm_offset + p \notin Image
  <1>1. /\ p \in Nat /\ p < bootmap[a].base + bootmap[a].length
        /\ bootmap[a].base \in Nat /\ bootmap[a].length \in Nat /\ _hhdm_offset \in Nat
    BY BootEntries, DirectMapAssumption DEF EntryPages, Pages
  <1>2. ASSUME NEW s \in {text, rodata, data}, NEW w \in s.from .. s.to
        PROVE  w # _hhdm_offset + p
    <2>1. /\ s.from \in Nat /\ s.to \in Nat
          /\ _hhdm_offset + bootmap[a].base + bootmap[a].length <= s.from
      BY BootEntries, ImageAssumption
    <2> QED
      BY <1>1, <2>1
  <1> QED
    BY <1>2 DEF Image

LEMMA NeededIsFinite ==
  ASSUME bootmap \in MemMaps
  PROVE  IsFiniteSet(TablesNeeded) /\ Cardinality(TablesNeeded) \in Nat
  <1> DEFINE top == 2 * _hhdm_offset + text.to + rodata.to + data.to
             f == [v \in Addresses |-> Path(v)]
             T == {Path(v) : v \in Addresses}
  <1>1. _hhdm_offset \in Nat /\ \A s \in {text, rodata, data} : s.from \in Nat /\ s.to \in Nat
    BY DirectMapAssumption, ImageAssumption
  <1>2. top \in Nat
    BY <1>1
  <1>3. Addresses \subseteq 0 .. top
    <2>1. \A p \in DirectMap : p \in Nat /\ p < _hhdm_offset
      BY MappedPages DEF DirectMap
    <2>2. \A p \in DirectMap : _hhdm_offset + p \in 0 .. top
      BY <1>1, <2>1
    <2>3. /\ text.from .. text.to \subseteq 0 .. top
          /\ rodata.from .. rodata.to \subseteq 0 .. top
          /\ data.from .. data.to \subseteq 0 .. top
      <3>1. /\ text.from \in Nat /\ text.to \in Nat
            /\ rodata.from \in Nat /\ rodata.to \in Nat
            /\ data.from \in Nat /\ data.to \in Nat
        BY <1>1
      <3> QED
        BY <1>1, <3>1
    <2> QED
      BY <2>2, <2>3 DEF Addresses, Image
  <1>4. IsFiniteSet(Addresses)
    <2> HIDE DEF top
    <2>1. IsFiniteSet(0 .. top)
      BY <1>2, FS_Interval
    <2> QED
      BY <1>3, <2>1, FS_Subset
  <1>5. f \in Surjection(Addresses, T)
    BY DEF Surjection
  <1>6. IsFiniteSet(T)
    BY <1>4, <1>5, FS_Surjection
  <1>7. \A t \in T : IsFiniteSet(t)
    BY PathIsFinite
  <1>8. IsFiniteSet(UNION T)
    BY <1>6, <1>7, FS_UNION
  <1> QED
    BY <1>8, NeededIs, FS_CardinalityType

(* These are read off the boot map, which never changes. *)
LEMMA BootMapIsConstant ==
  ASSUME UNCHANGED bootmap
  PROVE  /\ UsableCount' = UsableCount /\ ArrayPages' = ArrayPages
         /\ Holders' = Holders /\ ArrayBase' = ArrayBase
         /\ Windows' = Windows /\ DirectMap' = DirectMap /\ Addresses' = Addresses
         /\ TablesNeeded' = TablesNeeded /\ PagesLeft' = PagesLeft
         /\ \A t : PagesOfType(t)' = PagesOfType(t)
  <1>1. UsablePages(bootmap)' = UsablePages(bootmap)
    BY DEF UsablePages, EntryPages
  <1>2. UsableCount' = UsableCount /\ ArrayPages' = ArrayPages
    BY <1>1 DEF UsableCount, ArrayPages
  <1>3. Holders' = Holders
    BY <1>2 DEF Holders
  <1>4. ArrayBase' = ArrayBase
    BY <1>2, <1>3 DEF ArrayBase
  <1>5. Windows' = Windows /\ \A t : PagesOfType(t)' = PagesOfType(t)
    BY DEF Windows, PagesOfType, EntryPages, FirstPage, Skew
  <1>6. DirectMap' = DirectMap
    BY <1>1, <1>2, <1>4, <1>5 DEF DirectMap
  <1>7. Addresses' = Addresses /\ TablesNeeded' = TablesNeeded
    BY <1>6 DEF Addresses, TablesNeeded
  <1> QED
    BY <1>2, <1>3, <1>4, <1>5, <1>6, <1>7 DEF PagesLeft

-----------------------------------------------------------------------------
(* What vmm_init has mapped so far, and what it leaves of the memory.      *)
Limits ==
  /\ pm_stack_base # NULL
  /\ DOMAIN mapping \subseteq Addresses
  /\ tables \subseteq TablesNeeded
  /\ \A v \in DOMAIN mapping : v \in Image \/ "rw" \in mapping[v].flags
  /\ logged => PagesLeft < 0

EntriesShown ==
  \A a \in DOMAIN memmap : IsMapped(memmap[a]) =>
    \A p \in Pages(FirstPage(memmap[a]), Window(memmap[a])) :
      Covered(a, p) => _hhdm_offset + p \in DOMAIN mapping

AllShown(s, flags) == \A v \in s.from .. s.to : Maps(v, ImagePhys(v), flags)

ImageShown ==
  /\ stage \in {"rodata", "data", "done"} => AllShown(text, Text)
  /\ stage \in {"data", "done"} => AllShown(rodata, Rodata)
  /\ stage = "done" => AllShown(data, Data)
  /\ stage \in Segments =>
       \A v \in Segment.pages.from .. next - 1 : Maps(v, ImagePhys(v), Segment.flags)

Extent ==
  /\ stage \in Mapping \cup {"done"} =>
       /\ Limits
       /\ ~logged => EntriesShown /\ ImageShown
       /\ logged /\ at = "vmm" => pm_stack_idx = 0
  /\ stage = "root" => ~logged
  /\ stage = "failed" => PagesLeft < 0

Left ==
  stage = "done" /\ at \in {"vmm", "kmalloc", "alloc"} =>
    pm_stack_idx = IF logged THEN 0 ELSE PagesLeft

LEMMA CountsAreNat ==
  ASSUME Arranged
  PROVE  UsableCount \in Nat /\ ArrayPages \in Nat /\ pm_stack_size = ArrayPages
  <1>1. UsableCount \in Nat
    BY FS_CardinalityType DEF Arranged, UsableCount
  <1>2. pm_stack_size = ArrayPages
    BY DEF Arranged, pm_stack_size, ArrayPages
  <1> QED
    BY <1>1, <1>2, StackSizeIsNat DEF Arranged

LEMMA ArrayIs ==
  ASSUME Arranged, pm_stack_base # NULL
  PROVE  /\ StackPages = Pages(ArrayBase, ArrayPages)
         /\ DirectMap = Windows \cup UsablePages(memmap)
  <1>1. StackPages = Pages(ArrayBase, ArrayPages)
    BY CountsAreNat DEF Arranged, StackPages
  <1> QED
    BY <1>1 DEF Arranged, DirectMap

LEMMA DisjointUnion ==
  ASSUME NEW S, NEW T, IsFiniteSet(S), IsFiniteSet(T), S \cap T = {}
  PROVE  Cardinality(S \cup T) = Cardinality(S) + Cardinality(T)
  <1>1. /\ Cardinality(S) \in Nat /\ Cardinality(T) \in Nat
        /\ Cardinality(S \cap T) = 0
    BY FS_CardinalityType, FS_EmptySet
  <1>2. Cardinality(S \cup T) = Cardinality(S) + Cardinality(T) - Cardinality(S \cap T)
    BY FS_Union, Zenon
  <1> QED
    BY <1>1, <1>2

(* A call of vmm_map that runs out of pages would have needed more tables  *)
(* than all that are needed.                                               *)
LEMMA MapWithin ==
  ASSUME bootmap \in MemMaps, Paid, Ready, Limits, logged \in BOOLEAN,
         logged => pm_stack_idx = 0,
         NEW v \in Addresses, NEW p, NEW flags, v \in Image \/ "rw" \in flags,
         vmm_map(v, p, flags)
  PROVE  /\ Limits'
         /\ logged' => pm_stack_idx' = 0
         /\ DOMAIN mapping \subseteq DOMAIN mapping'
  <1> DEFINE missing == Path(v) \ tables
             n == Cardinality(missing)
             k == IF n <= pm_stack_idx THEN n ELSE pm_stack_idx
             linked == Linked(missing, k)
  <1>1. /\ pm_stack_idx \in Nat /\ pm_used_pages = 1 + Cardinality(tables)
        /\ IsFiniteSet(tables) /\ Cardinality(tables) \in Nat
        /\ pm_stack_idx + pm_used_pages = UsableCount - ArrayPages
    BY FS_CardinalityType DEF Ready, Paid
  <1>2. IsFiniteSet(missing) /\ n \in Nat
    BY PathIsFinite, FS_Subset, FS_CardinalityType
  <1>3. k \in Nat /\ k <= n /\ k <= pm_stack_idx /\ (k < n => k = pm_stack_idx)
    BY <1>1, <1>2
  <1>4. /\ pmm_request_pages(k)
        /\ tables' = tables \cup linked
        /\ mapping' = IF k = n THEN WithEntry(v, p, flags) ELSE mapping
        /\ logged' = (logged \/ k < n)
    BY DEF vmm_map, Linked
  <1> HIDE DEF k
  <1>5. /\ UNCHANGED <<bootmap, pm_stack_base>>
        /\ pm_stack_idx' = pm_stack_idx - k
    BY <1>1, <1>3, <1>4 DEF pmm_request_pages, CanGrant, pmm_memory, pmm_counts
  <1>6. linked \subseteq missing
    BY DEF Linked
  <1> HIDE DEF linked
  <1>7. tables \cup missing \subseteq TablesNeeded
    BY PathIsNeeded DEF Limits
  <1>8. Cardinality(tables) + n <= Cardinality(TablesNeeded)
    <2>1. tables \cap missing = {}
      OBVIOUS
    <2>2. Cardinality(tables \cup missing) = Cardinality(tables) + n
      BY <1>1, <1>2, <2>1, DisjointUnion
    <2>3. Cardinality(tables \cup missing) <= Cardinality(TablesNeeded)
      BY <1>7, NeededIsFinite, FS_Subset
    <2> QED
      BY <2>2, <2>3
  <1>9. k < n => PagesLeft < 0
    <2>1. UsableCount \in Nat /\ ArrayPages \in Nat
      BY CountsAreNat DEF Ready
    <2>2. Cardinality(TablesNeeded) \in Nat
      BY NeededIsFinite
    <2> HIDE DEF n
    <2> QED
      BY <1>1, <1>2, <1>3, <1>8, <2>1, <2>2 DEF PagesLeft
  <1>10. logged' => PagesLeft < 0 /\ pm_stack_idx' = 0
    <2>1. CASE logged
      <3>1. pm_stack_idx = 0
        BY <2>1
      <3> HIDE DEF n
      <3> QED
        BY <1>1, <1>3, <1>5, <2>1, <3>1 DEF Limits
    <2>2. CASE k < n
      <3> HIDE DEF n
      <3> QED
        BY <1>1, <1>3, <1>5, <1>9, <2>2
    <2> QED
      BY <1>4, <2>1, <2>2
  <1>11. /\ DOMAIN mapping \subseteq DOMAIN mapping'
         /\ DOMAIN mapping' \subseteq DOMAIN mapping \cup {v}
         /\ \A w \in DOMAIN mapping' : w \in Image \/ "rw" \in mapping'[w].flags
    <2>1. CASE mapping' = mapping
      BY <2>1 DEF Limits
    <2>2. CASE mapping' = WithEntry(v, p, flags)
      <3>1. /\ DOMAIN mapping' = DOMAIN mapping \cup {v}
            /\ \A w \in DOMAIN mapping' :
                 mapping'[w] = IF w = v THEN [phys |-> p, flags |-> flags] ELSE mapping[w]
        BY <2>2 DEF WithEntry
      <3> QED
        BY <3>1 DEF Limits
    <2> QED
      BY <1>4, <2>1, <2>2
  <1>12. /\ Addresses' = Addresses /\ TablesNeeded' = TablesNeeded /\ PagesLeft' = PagesLeft
         /\ Image' = Image
    BY <1>5, BootMapIsConstant DEF Image
  <1>13. tables' \subseteq TablesNeeded /\ DOMAIN mapping' \subseteq Addresses
    BY <1>4, <1>6, <1>7, <1>11 DEF Limits
  <1>14. pm_stack_base' # NULL
    BY <1>5 DEF Limits
  <1> QED
    BY <1>10, <1>11, <1>12, <1>13, <1>14 DEF Limits

(* What the loops over the entries map is in the direct map. *)
LEMMA EntryAddresses ==
  ASSUME MapShape, Arranged, pm_stack_base # NULL,
         NEW a \in DOMAIN memmap, IsMapped(memmap[a]),
         NEW p \in Pages(FirstPage(memmap[a]), Window(memmap[a]))
  PROVE  _hhdm_offset + p \in Addresses
  <1>1. a \in DOMAIN bootmap /\ memmap[a].type = bootmap[a].type
    BY BootEntries, EntriesInOrder DEF MapShape
  <1>2. CASE IsUsable(memmap[a])
    <2>1. p \in UsablePages(memmap)
      <3>1. FirstPage(memmap[a]) = memmap[a].base
        BY <1>2, EntriesInOrder, FirstPageIs DEF IsUsable
      <3> QED
        BY <1>2, <3>1 DEF UsablePages, EntryPages, Window
    <2> QED
      BY <2>1, ArrayIs DEF Addresses
  <1>3. CASE ~IsUsable(memmap[a])
    <2>1. memmap[a] = bootmap[a] /\ bootmap[a].type \in {"framebuffer", "reclaimable"}
      BY <1>1, <1>3 DEF Arranged, IsUsable, IsMapped
    <2>2. p \in Windows
      BY <1>1, <1>3, <2>1 DEF Windows, Window
    <2> QED
      BY <2>2 DEF Addresses, DirectMap
  <1> QED
    BY <1>2, <1>3

LEMMA AllMapped ==
  ASSUME MapShape, Arranged, pm_stack_base # NULL, stage # "entries", EntriesShown,
         Image \subseteq DOMAIN mapping
  PROVE  Addresses \subseteq DOMAIN mapping
  <1>1. DOMAIN memmap = DOMAIN bootmap
    BY BootEntries, EntriesInOrder DEF MapShape
  <1>2. ASSUME NEW a \in DOMAIN memmap, IsMapped(memmap[a]),
               NEW p \in Pages(FirstPage(memmap[a]), Window(memmap[a]))
        PROVE  _hhdm_offset + p \in DOMAIN mapping
    BY <1>2 DEF EntriesShown, Covered
  <1>3. ASSUME NEW p \in Windows
        PROVE  _hhdm_offset + p \in DOMAIN mapping
    <2>1. PICK a \in DOMAIN bootmap :
            /\ bootmap[a].type \in {"framebuffer", "reclaimable"}
            /\ p \in Pages(FirstPage(bootmap[a]), bootmap[a].base + bootmap[a].length)
      BY <1>3 DEF Windows
    <2>2. memmap[a] = bootmap[a] /\ ~IsUsable(memmap[a]) /\ IsMapped(memmap[a])
      BY <2>1 DEF Arranged, IsUsable, IsMapped
    <2> QED
      BY <1>1, <1>2, <2>1, <2>2 DEF Window
  <1>4. ASSUME NEW p \in UsablePages(memmap)
        PROVE  _hhdm_offset + p \in DOMAIN mapping
    <2>1. PICK a \in DOMAIN memmap : IsUsable(memmap[a]) /\ p \in EntryPages(memmap, a)
      BY <1>4 DEF UsablePages
    <2>2. FirstPage(memmap[a]) = memmap[a].base
      BY <2>1, EntriesInOrder, FirstPageIs DEF IsUsable
    <2> QED
      BY <1>2, <2>1, <2>2 DEF Window, EntryPages, IsMapped, IsUsable
  <1> QED
    BY <1>3, <1>4, ArrayIs DEF Addresses

-----------------------------------------------------------------------------
(* The steps of vmm_init.                                                  *)
LEMMA RootWithin ==
  ASSUME MapShape, MapTypes, TableInv, Ready, Extent, CreateRoot, at = "vmm", UNCHANGED at
  PROVE  Extent' /\ Left'
  <1>1. /\ stage = "root" /\ i = 1 /\ next = 0
        /\ stage' = IF CanGrant(1) THEN "entries" ELSE "failed"
        /\ UNCHANGED <<bootmap, memmap, pm_stack_base, i, next, mapping, tables, logged>>
        /\ ~logged /\ tables = {} /\ mapping = <<>> /\ pm_used_pages = 0
        /\ pm_stack_idx \in Nat
    BY DEF CreateRoot, MapTypes, TableInv, Extent, pmm_request_pages, pmm_memory, Ready
  <1>2. PagesLeft' = PagesLeft
    BY <1>1, BootMapIsConstant
  <1>3. CASE CanGrant(1)
    <2>1. stage' = "entries" /\ pm_stack_idx # 0
      BY <1>1, <1>3 DEF CanGrant
    <2>2. pm_stack_base' # NULL
      BY <1>1, <2>1 DEF Ready
    <2>3. tables' = {} /\ DOMAIN mapping' = {} /\ ~logged'
      BY <1>1
    <2>4. Limits'
      BY <2>2, <2>3 DEF Limits
    <2>5. EntriesShown'
      <3>1. \A a \in DOMAIN memmap : a \in Nat \ {0} /\ memmap[a] \in Entry
        BY EntriesInOrder
      <3>2. \A a \in DOMAIN memmap : \A p \in Pages(FirstPage(memmap[a]), Window(memmap[a])) :
              p \in Nat /\ FirstPage(memmap[a]) \in Nat /\ p >= FirstPage(memmap[a])
        BY <3>1, FirstPageIs DEF Pages, Window, Entry
      <3>3. \A a \in DOMAIN memmap : \A p \in Pages(FirstPage(memmap[a]), Window(memmap[a])) :
              ~(a < 1 \/ (a = 1 /\ p < FirstPage(memmap[a]) + 0))
        BY <3>1, <3>2
      <3>4. stage' = "entries" /\ i' = 1 /\ next' = 0 /\ memmap' = memmap
        BY <1>1, <2>1
      <3> QED
        BY <3>3, <3>4 DEF EntriesShown, Covered, Window, IsUsable, FirstPage, Skew
    <2>6. ImageShown'
      BY <2>1 DEF ImageShown, Segments
    <2> QED
      BY <2>1, <2>3, <2>4, <2>5, <2>6 DEF Extent, Left
  <1>4. CASE ~CanGrant(1)
    <2>1. stage' = "failed" /\ pm_stack_idx = 0
      BY <1>1, <1>4 DEF CanGrant
    <2>2. UsableCount \in Nat /\ ArrayPages \in Nat /\ UsableCount - ArrayPages = 0
      BY <1>1, <2>1, CountsAreNat DEF Ready
    <2>3. PagesLeft < 0
      BY <2>2, NeededIsFinite DEF PagesLeft, MapShape
    <2> QED
      BY <1>2, <2>1, <2>3 DEF Extent, Mapping, Left
  <1> QED
    BY <1>3, <1>4

LEMMA MapPageWithin ==
  ASSUME MapShape, MapTypes, Paid, Ready, Extent, MapPage, at = "vmm", UNCHANGED at
  PROVE  Extent' /\ Left'
  <1> PICK e, q, flags : e = memmap[i] /\ q = FirstPage(e) + next /\ flags = FlagsOf(e)
    OBVIOUS
  <1>1. /\ stage = "entries" /\ i \in Nat /\ i \in DOMAIN memmap /\ IsMapped(e)
        /\ next < Window(e) /\ next \in Nat /\ next' = next + 1
        /\ vmm_map(_hhdm_offset + q, q, flags)
        /\ UNCHANGED <<stage, i>>
    BY EntriesInOrder DEF MapPage, MapTypes
  <1>2. UNCHANGED <<bootmap, memmap, pm_stack_base>>
    BY <1>1 DEF vmm_map, pmm_request_pages, pmm_memory
  <1>3. /\ bootmap \in MemMaps /\ logged \in BOOLEAN /\ Limits /\ Arranged
        /\ logged => pm_stack_idx = 0
        /\ pm_stack_idx \in Nat /\ pm_stack_base # NULL
        /\ ~logged => EntriesShown
    BY <1>1 DEF MapShape, MapTypes, TypeOK, Extent, Mapping, Ready, Limits
  <1>4. e \in Entry /\ e.base \in Nat /\ e.length \in Nat /\ _hhdm_offset \in Nat
        /\ FirstPage(e) \in Nat /\ Window(e) \in Nat
    BY <1>1, EntriesInOrder, FirstPageIs, DirectMapAssumption DEF Entry, Window
  <1>5. q \in Pages(FirstPage(e), Window(e)) /\ q \in Nat
    BY <1>1, <1>4 DEF Pages
  <1>6. _hhdm_offset + q \in Addresses
    BY <1>1, <1>3, <1>5, EntryAddresses
  <1>7. "rw" \in flags
    BY DEF FlagsOf, ReadWrite, Device
  <1>8. Limits' /\ (logged' => pm_stack_idx' = 0) /\ DOMAIN mapping \subseteq DOMAIN mapping'
    BY <1>1, <1>3, <1>6, <1>7, MapWithin
  <1>9. ASSUME ~logged', NEW a \in DOMAIN memmap, IsMapped(memmap[a]),
               NEW p \in Pages(FirstPage(memmap[a]), Window(memmap[a])),
               a < i \/ (a = i /\ p < FirstPage(memmap[a]) + next + 1)
        PROVE  _hhdm_offset + p \in DOMAIN mapping'
    <2>1. ~logged /\ _hhdm_offset + q \in DOMAIN mapping'
      <3>1. vmm_map(_hhdm_offset + q, q, flags)
        BY <1>1
      <3>2. ~logged /\ Maps(_hhdm_offset + q, q, flags)'
        BY <1>3, <1>9, <3>1, NothingLogged
      <3> QED
        BY <3>2 DEF Maps
    <2>2. CASE p = q
      BY <2>1, <2>2
    <2>3. CASE p # q
      <3>1. memmap[a] \in Entry /\ a \in Nat
        BY EntriesInOrder
      <3>2. p \in Nat /\ FirstPage(memmap[a]) \in Nat
        BY <1>9, <3>1, FirstPageIs DEF Pages, Window, Entry
      <3>3. a < i \/ (a = i /\ p < FirstPage(memmap[a]) + next)
        BY <1>1, <1>4, <1>9, <2>3, <3>1, <3>2
      <3>4. Covered(a, p)
        BY <3>3 DEF Covered
      <3> QED
        BY <1>3, <1>8, <1>9, <2>1, <3>4 DEF EntriesShown
    <2> QED
      BY <2>2, <2>3
  <1>10. ~logged' => EntriesShown'
    <2> SUFFICES ASSUME ~logged' PROVE EntriesShown'
      OBVIOUS
    <2>1. stage' = "entries" /\ i' = i /\ next' = next + 1 /\ memmap' = memmap
      BY <1>1, <1>2
    <2>2. \A a \in DOMAIN memmap : FirstPage(memmap[a]) \in Nat
      BY EntriesInOrder, FirstPageIs
    <2>3. \A a \in DOMAIN memmap : FirstPage(memmap[a]) + next + 1
                                     = FirstPage(memmap[a]) + (next + 1)
      BY <1>1, <2>2
    <2> QED
      BY <1>9, <2>1, <2>3 DEF EntriesShown, Covered, Window, IsUsable, IsMapped,
                                 FirstPage, Skew
  <1>11. ImageShown'
    BY <1>1 DEF ImageShown, Segments
  <1> QED
    BY <1>1, <1>8, <1>10, <1>11 DEF Extent, Mapping, Left

LEMMA EntryDoneWithin ==
  ASSUME MapShape, MapTypes, Extent, EntryDone \/ EntriesDone, at = "vmm", UNCHANGED at
  PROVE  Extent' /\ Left'
  <1>1. /\ stage = "entries" /\ i \in Nat
        /\ UNCHANGED <<bootmap, memmap, pm_stack_base, pm_stack_idx, mapping, tables, logged>>
        /\ stage' \in {"entries", "text"}
        /\ stage' = "text" => next' = text.from
    BY DEF EntryDone, EntriesDone, MapTypes, pmm_vars, pmm_memory, pmm_counts
  <1>2. /\ Len(memmap) \in Nat /\ DOMAIN memmap = 1 .. Len(memmap)
        /\ \A a \in DOMAIN memmap : memmap[a] \in Entry
    BY EntriesInOrder
  <1>3. ASSUME NEW a \in DOMAIN memmap, IsMapped(memmap[a]),
               NEW p \in Pages(FirstPage(memmap[a]), Window(memmap[a])), Covered(a, p)'
        PROVE  Covered(a, p)
    <2>1. /\ a \in 1 .. Len(memmap) /\ FirstPage(memmap[a]) \in Nat
          /\ Window(memmap[a]) \in Nat
          /\ p \in FirstPage(memmap[a]) .. FirstPage(memmap[a]) + Window(memmap[a]) - 1
      BY <1>2, FirstPageIs DEF Entry, Pages, Window
    <2>2. CASE EntryDone
      <3>0. memmap' = memmap /\ i' = i + 1 /\ next' = 0 /\ stage' = "entries"
        BY <1>1, <2>2 DEF EntryDone
      <3>1. a < i + 1 \/ (a = i + 1 /\ p < FirstPage(memmap[a]))
        <4>1. a < i + 1 \/ (a = i + 1 /\ p < FirstPage(memmap[a]) + 0)
          BY <1>3, <3>0 DEF Covered, FirstPage, Skew
        <4> QED
          BY <2>1, <4>1
      <3>2. CASE a = i
        <4>1. next >= Window(memmap[a]) /\ next \in Nat
          BY <1>3, <2>2, <3>2 DEF EntryDone, MapTypes
        <4>2. p < FirstPage(memmap[a]) + next
          BY <2>1, <4>1
        <4> QED
          BY <3>2, <4>2 DEF Covered
      <3> QED
        BY <1>1, <2>1, <3>1, <3>2 DEF Covered
    <2>3. CASE EntriesDone
      BY <1>1, <1>2, <2>1, <2>3 DEF EntriesDone, Covered
    <2> QED
      BY <2>2, <2>3
  <1>4. EntriesShown => EntriesShown'
    <2>1. memmap' = memmap /\ mapping' = mapping
      BY <1>1
    <2> QED
      BY <1>3, <2>1 DEF EntriesShown, Window, IsUsable, IsMapped, FirstPage, Skew
  <1>5. ImageShown'
    <2>1. stage' \in Segments => stage' = "text" /\ Segment'.pages = text
      BY <1>1 DEF Segments, Segment
    <2>2. \A v \in text.from .. text.from - 1 : FALSE
      BY ImageAssumption
    <2>3. stage' \notin {"rodata", "data", "done"}
      BY <1>1
    <2> QED
      BY <1>1, <2>1, <2>2, <2>3 DEF ImageShown
  <1>6. Limits => Limits'
    <2>1. /\ Addresses' = Addresses /\ TablesNeeded' = TablesNeeded /\ PagesLeft' = PagesLeft
          /\ Image' = Image
      BY <1>1, BootMapIsConstant DEF Image
    <2> QED
      BY <1>1, <2>1 DEF Limits
  <1> QED
    BY <1>1, <1>4, <1>5, <1>6 DEF Extent, Mapping, Left

LEMMA ImageAddresses ==
  ASSUME stage \in Segments, NEW v \in Segment.pages.from .. Segment.pages.to
  PROVE  v \in Image
  BY DEF Segments, Segment, Image

(* A page of the segment that is being mapped is in none of those before.  *)
LEMMA SegmentsInOrder ==
  ASSUME stage \in Segments, next \in Nat, next >= Segment.pages.from
  PROVE  /\ stage \in {"rodata", "data"} => \A v \in text.from .. text.to : v # next
         /\ stage = "data" => \A v \in rodata.from .. rodata.to : v # next
  <1>1. /\ text.from \in Nat /\ text.to \in Nat /\ rodata.from \in Nat /\ rodata.to \in Nat
        /\ data.from \in Nat /\ data.to \in Nat
        /\ text.to < rodata.from /\ rodata.to < data.from /\ text.to < data.from
    BY ImageAssumption
  <1>2. /\ stage = "rodata" => next >= rodata.from
        /\ stage = "data" => next >= data.from
    BY DEF Segment
  <1> QED
    BY <1>1, <1>2

LEMMA MapSegmentWithin ==
  ASSUME MapShape, MapTypes, Paid, Ready, Extent, MapSegmentPage, at = "vmm", UNCHANGED at
  PROVE  Extent' /\ Left'
  <1> PICK v, p, flags : v = next /\ p = ImagePhys(next) /\ flags = Segment.flags
    OBVIOUS
  <1>1. /\ stage \in Segments /\ v \in Nat /\ v >= Segment.pages.from
        /\ v <= Segment.pages.to /\ next' = v + 1
        /\ vmm_map(v, p, flags)
        /\ UNCHANGED <<stage, i>>
    BY DEF MapSegmentPage, MapTypes, Segments
  <1>2. Segment.pages.from \in Nat /\ Segment.pages.to \in Nat
    BY <1>1, SegmentsAre
  <1>3. UNCHANGED <<bootmap, memmap, pm_stack_base>>
    BY <1>1 DEF vmm_map, pmm_request_pages, pmm_memory
  <1>4. /\ bootmap \in MemMaps /\ logged \in BOOLEAN /\ Limits
        /\ logged => pm_stack_idx = 0
        /\ pm_stack_idx \in Nat
        /\ ~logged => EntriesShown /\ ImageShown
    BY <1>1 DEF MapShape, MapTypes, TypeOK, Extent, Mapping, Segments, Ready
  <1>5. v \in Image /\ v \in Addresses
    BY <1>1, <1>2, ImageAddresses DEF Addresses
  <1>6. Limits' /\ (logged' => pm_stack_idx' = 0) /\ DOMAIN mapping \subseteq DOMAIN mapping'
    BY <1>1, <1>4, <1>5, MapWithin
  <1>7. ASSUME ~logged'
        PROVE  EntriesShown' /\ ImageShown'
    <2>1. /\ ~logged /\ Maps(v, p, flags)'
          /\ \A w, q, f : w # v => (Maps(w, q, f) => Maps(w, q, f)')
      <3>1. vmm_map(v, p, flags)
        BY <1>1
      <3> QED
        BY <1>4, <1>7, <3>1, NothingLogged
    <2>2. EntriesShown /\ ImageShown
      BY <1>4, <2>1
    <2>3. EntriesShown'
      <3>1. stage # "entries" /\ stage' # "entries"
        BY <1>1 DEF Segments
      <3> QED
        BY <1>3, <1>6, <2>2, <3>1 DEF EntriesShown, Covered, Window, IsUsable, IsMapped,
                  FirstPage, Skew
    <2>4. ASSUME NEW s, NEW f, AllShown(s, f), \A w \in s.from .. s.to : w # v
          PROVE  AllShown(s, f)'
      <3>1. \A w \in s.from .. s.to : Maps(w, ImagePhys(w), f)'
        BY <2>1, <2>4 DEF AllShown
      <3> QED
        BY <3>1 DEF AllShown, ImagePhys
    <2>5. stage' \in {"rodata", "data", "done"} => AllShown(text, Text)'
      <3>1. stage' \in {"rodata", "data", "done"} => stage \in {"rodata", "data"}
        BY <1>1 DEF Segments
      <3> QED
        BY <1>1, <2>2, <2>4, <3>1, SegmentsInOrder DEF ImageShown
    <2>6. stage' \in {"data", "done"} => AllShown(rodata, Rodata)'
      <3>1. stage' \in {"data", "done"} => stage = "data"
        BY <1>1 DEF Segments
      <3> QED
        BY <1>1, <2>2, <2>4, <3>1, SegmentsInOrder DEF ImageShown
    <2>7. \A w \in Segment.pages.from .. v : Maps(w, ImagePhys(w), flags)'
      <3>1. \A w \in Segment.pages.from .. v - 1 : Maps(w, ImagePhys(w), flags) /\ w # v
        BY <1>1, <1>2, <2>2 DEF ImageShown
      <3>2. \A w \in Segment.pages.from .. v - 1 : Maps(w, ImagePhys(w), flags)'
        BY <2>1, <3>1
      <3>3. p = ImagePhys(v)
        OBVIOUS
      <3>4. Maps(v, ImagePhys(v), flags)'
        BY <2>1, <3>3
      <3>5. \A w \in Segment.pages.from .. v : w = v \/ w \in Segment.pages.from .. v - 1
        BY <1>1, <1>2
      <3> QED
        BY <3>2, <3>4, <3>5
    <2>8. ImageShown'
      <3>1. stage' = stage /\ stage # "done" /\ Segment' = Segment /\ next' - 1 = v
        BY <1>1 DEF Segments, Segment
      <3>2. \A w \in Segment'.pages.from .. next' - 1 : Maps(w, ImagePhys(w), Segment.flags)'
        BY <2>7, <3>1
      <3> QED
        BY <2>5, <2>6, <3>1, <3>2 DEF ImageShown, ImagePhys
    <2> QED
      BY <2>3, <2>8
  <1> QED
    BY <1>1, <1>6, <1>7 DEF Extent, Mapping, Segments, Left

LEMMA SegmentDoneWithin ==
  ASSUME MapShape, MapTypes, Paid, Ready, Extent, SegmentDone, at = "vmm", UNCHANGED at
  PROVE  Extent' /\ Left'
  <1>1. /\ stage \in Segments
        /\ UNCHANGED <<bootmap, memmap, pm_stack_base, pm_stack_idx, mapping, tables, logged>>
        /\ next \in Nat /\ next > Segment.pages.to
    BY DEF SegmentDone, pmm_vars, pmm_memory, pmm_counts, Segments, MapTypes
  <1>2. /\ stage = "text" => stage' = "rodata" /\ next' = rodata.from
        /\ stage = "rodata" => stage' = "data" /\ next' = data.from
        /\ stage = "data" => stage' = "done"
    BY DEF SegmentDone
  <1>3. /\ Limits /\ bootmap \in MemMaps /\ Arranged /\ pm_stack_base # NULL
        /\ ~logged => EntriesShown /\ ImageShown
        /\ logged => pm_stack_idx = 0
    BY <1>1 DEF Extent, Mapping, Segments, MapShape, Ready, Limits
  <1>4. Segment.pages.from \in Nat /\ Segment.pages.to \in Nat
    BY <1>1, SegmentsAre
  <1>5. Limits'
    <2>1. /\ Addresses' = Addresses /\ TablesNeeded' = TablesNeeded /\ PagesLeft' = PagesLeft
          /\ Image' = Image
      BY <1>1, BootMapIsConstant DEF Image
    <2> QED
      BY <1>1, <1>3, <2>1 DEF Limits
  <1>6. ASSUME ~logged
        PROVE  /\ stage = "text" => AllShown(text, Text)
               /\ stage = "rodata" => AllShown(text, Text) /\ AllShown(rodata, Rodata)
               /\ stage = "data" => /\ AllShown(text, Text) /\ AllShown(rodata, Rodata)
                                    /\ AllShown(data, Data)
    <2>1. \A v \in Segment.pages.from .. Segment.pages.to :
            v \in Segment.pages.from .. next - 1
      BY <1>1, <1>4
    <2>2. AllShown(Segment.pages, Segment.flags)
      BY <1>1, <1>3, <1>6, <2>1 DEF ImageShown, AllShown
    <2>3. /\ stage = "text" => Segment.pages = text /\ Segment.flags = Text
          /\ stage = "rodata" => Segment.pages = rodata /\ Segment.flags = Rodata
          /\ stage = "data" => Segment.pages = data /\ Segment.flags = Data
      BY DEF Segment
    <2> QED
      BY <1>3, <1>6, <2>2, <2>3 DEF ImageShown
  <1>7. ASSUME ~logged
        PROVE  EntriesShown' /\ ImageShown'
    <2>1. EntriesShown'
      <3>1. stage # "entries" /\ stage' # "entries"
        BY <1>1, <1>2 DEF Segments
      <3> QED
        BY <1>1, <1>3, <1>7, <3>1 DEF EntriesShown, Covered, Window, IsUsable, IsMapped,
                  FirstPage, Skew
    <2>2. \A s, f : AllShown(s, f) => AllShown(s, f)'
      BY <1>1 DEF AllShown, Maps, ImagePhys
    <2>3. stage' \in Segments => \A v \in Segment'.pages.from .. next' - 1 : FALSE
      <3>1. /\ stage' \in Segments => stage' \in {"rodata", "data"}
            /\ stage' = "rodata" => Segment'.pages = rodata /\ next' = rodata.from
            /\ stage' = "data" => Segment'.pages = data /\ next' = data.from
        BY <1>1, <1>2 DEF Segments, Segment
      <3>2. /\ \A v \in rodata.from .. rodata.from - 1 : FALSE
            /\ \A v \in data.from .. data.from - 1 : FALSE
        BY ImageAssumption
      <3> QED
        BY <3>1, <3>2
    <2>4. AllShown(text, Text)' /\ (stage' \in {"data", "done"} => AllShown(rodata, Rodata)')
          /\ (stage' = "done" => AllShown(data, Data)')
      BY <1>1, <1>2, <1>6, <1>7, <2>2 DEF Segments
    <2> QED
      BY <2>1, <2>3, <2>4 DEF ImageShown
  <1>8. stage = "data" => pm_stack_idx = IF logged THEN 0 ELSE PagesLeft
    <2> SUFFICES ASSUME stage = "data", ~logged PROVE pm_stack_idx = PagesLeft
      BY <1>3
    <2>1. Image \subseteq DOMAIN mapping
      BY <1>6 DEF Image, AllShown, Maps
    <2>2. Addresses \subseteq DOMAIN mapping
      BY <1>3, <2>1, AllMapped
    <2>3. tables = TablesNeeded
      BY <1>3, <2>2, NeededIs DEF Limits, Paid
    <2>4. /\ UsableCount \in Nat /\ ArrayPages \in Nat /\ Cardinality(TablesNeeded) \in Nat
          /\ pm_stack_idx \in Nat
          /\ pm_stack_idx + 1 + Cardinality(TablesNeeded) = UsableCount - ArrayPages
      BY <1>3, <2>3, CountsAreNat, NeededIsFinite DEF Ready, Paid
    <2> QED
      BY <2>4 DEF PagesLeft
  <1>9. PagesLeft' = PagesLeft
    BY <1>1, BootMapIsConstant
  <1>10. Left'
    BY <1>1, <1>2, <1>8, <1>9 DEF Left, Segments
  <1>11. stage' \notin {"root", "failed"} /\ (logged' => pm_stack_idx' = 0)
    BY <1>1, <1>2, <1>3 DEF Segments
  <1> QED
    BY <1>1, <1>5, <1>7, <1>10, <1>11 DEF Extent

LEMMA VmmInitKeepsExtent ==
  ASSUME TableInv, MapInv, Setup, Extent, CallVmmInit
  PROVE  Extent' /\ Left'
  <1>1. at = "vmm" /\ UNCHANGED at /\ vmm_init /\ phase = "ready" /\ Ready
        /\ MapShape /\ MapTypes
    BY DEF CallVmmInit, boot_vars, Setup, MapInv
  <1>2. stage \in Mapping => Paid
    BY DEF TableInv
  <1>3. CASE CreateRoot
    BY <1>1, <1>3, RootWithin
  <1>4. CASE MapPage
    BY <1>1, <1>2, <1>4, MapPageWithin DEF MapPage, Mapping
  <1>5. CASE EntryDone \/ EntriesDone
    BY <1>1, <1>5, EntryDoneWithin
  <1>6. CASE MapSegmentPage
    BY <1>1, <1>2, <1>6, MapSegmentWithin DEF MapSegmentPage, Mapping
  <1>7. CASE SegmentDone
    BY <1>1, <1>2, <1>7, SegmentDoneWithin DEF SegmentDone, Mapping
  <1> QED
    BY <1>1, <1>3, <1>4, <1>5, <1>6, <1>7 DEF vmm_init

-----------------------------------------------------------------------------
(* The steps of olive_entry.                                               *)
LEMMA BootKeeps ==
  ASSUME [Next]_vars
  PROVE  UNCHANGED <<bootmap, answered, mapped, stack, drawn>>
  <1>1. CASE CallPmmInit
    <2>1. bootmap' = bootmap
      BY <1>1 DEF CallPmmInit, pmm_init, CountEntry, CountDone, PlaceStack, SkipEntry, NoPlace,
                  PushPage, NextEntry, PushDone, pmm_memory
    <2> QED
      BY <1>1, <2>1 DEF CallPmmInit, boot_vars
  <1>2. CASE CallVmmInit
    <2>1. bootmap' = bootmap
      BY <1>2 DEF CallVmmInit, vmm_init, CreateRoot, MapPage, EntryDone, EntriesDone,
                  MapSegmentPage, SegmentDone, vmm_map, pmm_request_pages, pmm_vars, pmm_memory
    <2> QED
      BY <1>2, <2>1 DEF CallVmmInit, boot_vars
  <1>3. CASE LiballocAlloc \/ Kfree
    BY <1>3 DEF LiballocAlloc, Kfree, pmm_request_pages, pmm_free_pages, pmm_memory
  <1>4. CASE \/ CheckFramebuffer \/ CheckTerminal \/ CheckMemmap \/ CheckHhdm
             \/ CheckKernelAddress \/ PmmInitReturns \/ VmmInitReturns
             \/ GdtInit \/ IdtInit \/ Fault \/ Interrupt
             \/ Kmalloc \/ WriteHeaders \/ PrintInfo
             \/ UNCHANGED vars
    BY <1>4 DEF Check, CheckFramebuffer, CheckTerminal, CheckMemmap, CheckHhdm,
                CheckKernelAddress, PmmInitReturns, VmmInitReturns, GdtInit, IdtInit,
                Fault, Interrupt, Kmalloc, WriteHeaders, PrintInfo, Step, but_at, vars,
                  boot_vars,
                pmm_vars, pmm_memory
  <1> QED
    BY <1>1, <1>2, <1>3, <1>4 DEF Next, olive_entry

LEMMA ExtentStays ==
  ASSUME Extent, UNCHANGED <<bootmap, memmap, pm_stack_base, map_vars>>,
         stage \in Mapping \cup {"done"} /\ at' = "vmm" =>
           at = "vmm" /\ UNCHANGED pm_stack_idx
  PROVE  Extent'
  <1>1. UNCHANGED <<bootmap, memmap, pm_stack_base, stage, i, next, mapping, tables, logged>>
    BY DEF map_vars
  <1>2. /\ Addresses' = Addresses /\ TablesNeeded' = TablesNeeded /\ PagesLeft' = PagesLeft
        /\ Image' = Image
    BY <1>1, BootMapIsConstant DEF Image
  <1>3. Limits => Limits'
    BY <1>1, <1>2 DEF Limits
  <1>4. EntriesShown => EntriesShown'
    BY <1>1 DEF EntriesShown, Covered, Window, IsUsable, IsMapped,
                  FirstPage, Skew
  <1>5. ImageShown => ImageShown'
    BY <1>1 DEF ImageShown, AllShown, Maps, ImagePhys, Segment
  <1>6. UNCHANGED <<stage, logged>>
    BY <1>1
  <1> QED
    BY <1>2, <1>3, <1>4, <1>5, <1>6 DEF Extent

LEMMA ExtentStep ==
  ASSUME TableInv, MapInv, Setup, Extent, [Next]_vars
  PROVE  Extent'
  <1>1. CASE CallVmmInit
    BY <1>1, VmmInitKeepsExtent
  <1>2. CASE CallPmmInit
    <2>1. stage = "root" /\ UNCHANGED <<stage, logged>>
      BY <1>2 DEF CallPmmInit, boot_vars, map_vars, MapInv, MapTypes, Before
    <2> QED
      BY <2>1 DEF Extent, Mapping
  <1>3. CASE \/ CheckFramebuffer \/ CheckTerminal \/ CheckMemmap \/ CheckHhdm
             \/ CheckKernelAddress \/ PmmInitReturns \/ VmmInitReturns
             \/ GdtInit \/ IdtInit \/ Fault \/ Interrupt
             \/ Kmalloc \/ WriteHeaders \/ PrintInfo
             \/ UNCHANGED vars
    <2>1. /\ UNCHANGED <<bootmap, memmap, pm_stack_base, pm_stack_idx, map_vars>>
          /\ at' = "vmm" => at \in {"address", "vmm"}
      BY <1>3 DEF Check, CheckFramebuffer, CheckTerminal, CheckMemmap, CheckHhdm,
                  CheckKernelAddress, PmmInitReturns, VmmInitReturns, GdtInit, IdtInit,
                  Fault, Interrupt, Kmalloc, WriteHeaders, PrintInfo, Step, but_at, vars,
                  boot_vars,
                  pmm_vars, pmm_memory, pmm_counts
    <2>2. at = "address" => stage = "root"
      BY DEF MapInv, MapTypes, Before
    <2> QED
      BY <2>1, <2>2, ExtentStays DEF Mapping
  <1>4. CASE LiballocAlloc \/ Kfree
    <2>1. UNCHANGED <<bootmap, memmap, pm_stack_base, map_vars>> /\ at' # "vmm"
      BY <1>4 DEF LiballocAlloc, Kfree, Step, pmm_request_pages, pmm_free_pages, pmm_memory
    <2> QED
      BY <2>1, ExtentStays
  <1> QED
    BY <1>1, <1>2, <1>3, <1>4 DEF Next, olive_entry

LEMMA LeftStep ==
  ASSUME TableInv, MapInv, Setup, Extent, Left, [Next]_vars
  PROVE  Left'
  <1>1. CASE CallVmmInit
    BY <1>1, VmmInitKeepsExtent
  <1>2. CASE CallPmmInit \/ LiballocAlloc \/ Kfree
    <2>1. at' \in {"pmm", "headers", "hlt"}
      BY <1>2 DEF CallPmmInit, boot_vars, LiballocAlloc, Kfree, Step
    <2> QED
      BY <2>1 DEF Left
  <1>3. CASE \/ CheckFramebuffer \/ CheckTerminal \/ CheckMemmap \/ CheckHhdm
             \/ CheckKernelAddress \/ PmmInitReturns \/ VmmInitReturns
             \/ GdtInit \/ IdtInit \/ Fault \/ Interrupt
             \/ Kmalloc \/ WriteHeaders \/ PrintInfo
             \/ UNCHANGED vars
    <2>1. /\ UNCHANGED <<bootmap, pm_stack_idx, stage, logged>>
          /\ at' \in {"vmm", "kmalloc", "alloc"} => at \in {"address", "vmm", "kmalloc", "alloc"}
      BY <1>3 DEF Check, CheckFramebuffer, CheckTerminal, CheckMemmap, CheckHhdm,
                  CheckKernelAddress, PmmInitReturns, VmmInitReturns, GdtInit, IdtInit,
                  Fault, Interrupt, Kmalloc, WriteHeaders, PrintInfo, Step, but_at, vars,
                  boot_vars,
                  map_vars, pmm_vars, pmm_memory, pmm_counts
    <2>2. at = "address" => stage = "root"
      BY DEF MapInv, MapTypes, Before
    <2>3. PagesLeft' = PagesLeft
      BY <2>1, BootMapIsConstant
    <2> QED
      BY <2>1, <2>2, <2>3 DEF Left
  <1> QED
    BY <1>1, <1>2, <1>3 DEF Next, olive_entry

-----------------------------------------------------------------------------
(* Where olive_entry stands, and what has been seen to be there by then.   *)
AtPmm == {"pmm", "address", "vmm"} \cup Late
AtEnd == {"hlt", "halted", "lost"}

Checked ==
  /\ answered \subseteq Responses
  /\ stack \in PagesOfType("reclaimable")
  /\ drawn \subseteq PagesOfType("framebuffer")
  /\ at \in {"terminal", "gdt", "idt", "memmap", "hhdm"} \cup AtPmm =>
       "base_revision" \in answered /\ PagesOfType("framebuffer") # {}
  /\ at \in {"gdt", "idt", "memmap", "hhdm"} \cup AtPmm => "terminal" \in answered
  /\ at \in {"hhdm"} \cup AtPmm => "memmap" \in answered
  /\ at \in AtPmm => "hhdm" \in answered
  /\ at \in {"vmm"} \cup Late => "kernel_address" \in answered
  /\ at \in Late \ {"kmalloc"} => "heap" \in mapped
  /\ at \in {"headers", "print", "kfree"} => "pages" \in mapped
  /\ at = "kfree" => "console" \in mapped

(* What liballoc_alloc returned: NULL is not survived, see NotAtNull.      *)
Given ==
  at \in {"headers", "print", "kfree"} =>
    \/ /\ at = "headers" /\ major = NULL
       /\ PagesLeft < l_pageCount
    \/ /\ major \in UsablePages(memmap)
       /\ PagesLeft >= l_pageCount /\ ~logged
       /\ pm_stack_idx = PagesLeft - l_pageCount

LEMMA RunsAt ==
  /\ at = "kmalloc" => (Runs <=> Reaches({"heap"}, {}))
  /\ at = "alloc" => (Runs <=> IF CanGrant(l_pageCount)
                                 THEN Reaches({"pages"}, SlotPages(pm_stack_idx - l_pageCount, 1))
                                 ELSE Reaches({"pages", "console"}, drawn))
  /\ at = "headers" => (Runs <=> Reaches({}, {major}))
  /\ at = "print" => (Runs <=> Reaches({"console"}, drawn))
  /\ at = "kfree" => (Runs <=> Reaches({"heap", "pages"}, SlotPages(pm_stack_idx, l_pageCount)))
  /\ at \notin Late => (Runs <=> ~(at = "pmm" /\ phase = "fault"))
  BY DEF Runs, Late

(* Nothing is mapped at the direct-map address of NULL.                    *)
LEMMA NotAtNull ==
  ASSUME MapShape, Checked, Limits
  PROVE  ~DirectMapped(NULL)
  <1>1. bootmap \in MemMaps
    BY DEF MapShape
  <1>2. _hhdm_offset \in Nat
    BY DirectMapAssumption
  <1>3. \A p \in DirectMap : p \in Nat /\ p # NULL
    BY <1>1, MappedPages DEF DirectMap
  <1>4. \A p \in DirectMap : _hhdm_offset + p # _hhdm_offset
    BY <1>2, <1>3 DEF NULL
  <1>5. PICK a \in DOMAIN bootmap : bootmap[a].type = "reclaimable"
    BY DEF Checked, PagesOfType
  <1>6. bootmap[a].base \in Nat /\ bootmap[a].length \in Nat /\ bootmap[a].base > NULL
    BY <1>1, <1>5, BootEntries DEF IsMapped
  <1>7. ASSUME NEW s \in {text, rodata, data}, NEW w \in s.from .. s.to
        PROVE  w # _hhdm_offset
    <2>1. s.from \in Nat /\ s.to \in Nat
          /\ _hhdm_offset + bootmap[a].base + bootmap[a].length <= s.from
      BY <1>1, BootEntries, ImageAssumption
    <2> QED
      BY <1>2, <1>6, <2>1 DEF NULL
  <1>8. _hhdm_offset \notin Image
    BY <1>7 DEF Image
  <1>9. _hhdm_offset + NULL = _hhdm_offset
    BY <1>2 DEF NULL
  <1>10. _hhdm_offset \notin Addresses
    BY <1>4, <1>8 DEF Addresses
  <1> QED
    BY <1>9, <1>10 DEF DirectMapped, Limits

(* When there is memory for all tables, the map of vmm_init shows every    *)
(* page of an entry that is in the direct map.                             *)
LEMMA WhenEnough ==
  ASSUME MapShape, Arranged, Extent, stage = "done", PagesLeft >= l_pageCount
  PROVE  /\ ~logged /\ ImageIsMapped /\ Limits
         /\ \A a \in DOMAIN bootmap : \A p \in EntryPages(bootmap, a) :
              p \in DirectMap => DirectMapped(p)
  <1>1. /\ Limits /\ bootmap \in MemMaps /\ pm_stack_base # NULL
        /\ ~logged => EntriesShown /\ ImageShown
    BY DEF Extent, Limits, MapShape
  <1>2. ~logged
    <2>1. PagesLeft \in Int
      BY <1>1, CountsAreNat, NeededIsFinite DEF PagesLeft
    <2> QED
      BY <1>1, <2>1, PageCountAssumption DEF Limits
  <1>3. AllShown(text, Text) /\ AllShown(rodata, Rodata) /\ AllShown(data, Data)
    BY <1>1, <1>2 DEF ImageShown
  <1>4. ImageIsMapped
    BY <1>3 DEF AllShown, ImageIsMapped, ImagePhys
  <1>5. Image \subseteq DOMAIN mapping
    BY <1>3 DEF Image, AllShown, Maps
  <1>6. Addresses \subseteq DOMAIN mapping
    BY <1>1, <1>2, <1>5, AllMapped
  <1>7. ASSUME NEW a \in DOMAIN bootmap, NEW p \in EntryPages(bootmap, a), p \in DirectMap
        PROVE  DirectMapped(p)
    <2>1. _hhdm_offset + p \in DOMAIN mapping
      BY <1>6, <1>7 DEF Addresses
    <2>2. _hhdm_offset + p \notin Image
      BY <1>1, EntriesBelowImage
    <2> QED
      BY <1>1, <2>1, <2>2 DEF DirectMapped, Limits
  <1> QED
    BY <1>1, <1>2, <1>4, <1>7

LEMMA ReclaimablePages ==
  ASSUME bootmap \in MemMaps, NEW p \in PagesOfType("reclaimable")
  PROVE  /\ p \in DirectMap
         /\ \E a \in DOMAIN bootmap : p \in EntryPages(bootmap, a)
  <1>1. PICK a \in DOMAIN bootmap : bootmap[a].type = "reclaimable" /\ p \in EntryPages(bootmap, a)
    BY DEF PagesOfType
  <1>2. p \in Pages(FirstPage(bootmap[a]), bootmap[a].base + bootmap[a].length)
    <2>1. FirstPage(bootmap[a]) = bootmap[a].base
      BY <1>1, BootEntries, FirstPageIs
    <2> QED
      BY <1>1, <2>1, BootEntries DEF EntryPages, Pages
  <1>3. p \in Windows
    BY <1>1, <1>2 DEF Windows
  <1> QED
    BY <1>1, <1>3 DEF DirectMap

LEMMA UsableEntryPages ==
  ASSUME NEW p \in UsablePages(bootmap)
  PROVE  \E a \in DOMAIN bootmap : p \in EntryPages(bootmap, a)
  BY DEF UsablePages

(* The pages of pm_stack that hold the slots of the major.                 *)
LEMMA SlotsAreInArray ==
  ASSUME Arranged, pm_stack_base # NULL, bootmap \in MemMaps, PagesLeft >= l_pageCount,
         NEW s \in Pages(PagesLeft - l_pageCount, l_pageCount)
  PROVE  ArrayBase + s \div EntriesPerPage \in StackPages
  <1>1. /\ UsableCount \in Nat /\ ArrayPages \in Nat /\ Cardinality(TablesNeeded) \in Nat
        /\ l_pageCount \in Nat
    BY CountsAreNat, NeededIsFinite, PageCountAssumption
  <1>2. s \in Nat /\ s < UsableCount
    BY <1>1 DEF Pages, PagesLeft
  <1>3. s \div EntriesPerPage \in Nat /\ s \div EntriesPerPage < ArrayPages
    <2>1. \A x, u \in Nat : \A e \in Nat \ {0} :
            x < u => x \div e \in Nat /\ x \div e < (u + e - 1) \div e
      BY Z3T(60)
    <2> QED
      BY <1>1, <1>2, <2>1, EntriesPerPageAssumption DEF ArrayPages
  <1>4. ArrayBase \in Nat
    BY DEF Arranged
  <1> QED
    BY <1>1, <1>3, <1>4, ArrayIs DEF Pages

-----------------------------------------------------------------------------
(* What CanBoot says of the memory map is what the code finds in the page  *)
(* map.                                                                    *)
LEMMA ReachesAll ==
  ASSUME MapShape, Arranged, Extent, Checked, stage = "done", CanBoot,
         NEW objects \in SUBSET (Objects \ {"idt"}), NEW pages,
         \A p \in pages : p \in DirectMap /\ \E a \in DOMAIN bootmap : p \in EntryPages(bootmap, a)
  PROVE  Reaches(objects, pages)
  <1>1. PagesLeft >= l_pageCount /\ objects \subseteq mapped
    BY DEF CanBoot
  <1>2. /\ ImageIsMapped
        /\ \A a \in DOMAIN bootmap : \A p \in EntryPages(bootmap, a) :
             p \in DirectMap => DirectMapped(p)
    BY <1>1, WhenEnough
  <1>3. stack \in DirectMap /\ \E a \in DOMAIN bootmap : stack \in EntryPages(bootmap, a)
    BY ReclaimablePages DEF Checked, MapShape
  <1>4. \A p \in pages \cup {stack} : DirectMapped(p)
    BY <1>2, <1>3
  <1> QED
    BY <1>1, <1>2, <1>4 DEF Reaches

LEMMA SlotPagesFit ==
  ASSUME Arranged, pm_stack_base # NULL, bootmap \in MemMaps, CanBoot,
         NEW n \in Nat, n <= l_pageCount, NEW p \in SlotPages(PagesLeft - l_pageCount, n)
  PROVE  p \in DirectMap /\ \E a \in DOMAIN bootmap : p \in EntryPages(bootmap, a)
  <1>1. PICK s \in Pages(PagesLeft - l_pageCount, n) :
          p = pm_stack_base + s \div EntriesPerPage
    BY DEF SlotPages
  <1>2. PagesLeft \in Int /\ PagesLeft >= l_pageCount /\ l_pageCount \in Nat
    BY CountsAreNat, NeededIsFinite, PageCountAssumption DEF CanBoot, PagesLeft
  <1>3. s \in Pages(PagesLeft - l_pageCount, l_pageCount)
    BY <1>1, <1>2 DEF Pages
  <1>4. p = ArrayBase + s \div EntriesPerPage
    BY <1>1 DEF Arranged
  <1>5. p \in Windows
    BY <1>3, <1>4 DEF CanBoot
  <1>6. p \in UsablePages(bootmap)
    BY <1>2, <1>3, <1>4, SlotsAreInArray DEF Arranged
  <1> QED
    BY <1>5, <1>6, UsableEntryPages DEF DirectMap

LEMMA CanBootRuns ==
  ASSUME TableInv, MapInv, Setup, Extent, Left, Checked, Given, CanBoot
  PROVE  Runs
  <1>1. MapShape /\ bootmap \in MemMaps
    BY DEF MapInv, MapShape
  <1>2. PagesLeft >= l_pageCount /\ l_pageCount \in Nat \ {0} /\ Holders # {}
    BY PageCountAssumption DEF CanBoot
  <1>3. CASE at \notin Late
    <2>1. ~(at = "pmm" /\ phase = "fault")
      BY <1>2 DEF Setup
    <2> QED
      BY <1>3, <2>1, RunsAt
  <1>4. CASE at \in Late
    <2>1. stage = "done" /\ Ready /\ Arranged
      BY <1>4 DEF TableInv, Behind, Setup, Late, Ready
    <2>2. ~logged /\ pm_stack_base # NULL
      BY <1>1, <1>2, <2>1, WhenEnough DEF Limits
    <2> PagesLeft \in Int
      BY <1>1, <2>1, CountsAreNat, NeededIsFinite DEF PagesLeft
    <2>3. \A p \in drawn :
            p \in DirectMap /\ \E a \in DOMAIN bootmap : p \in EntryPages(bootmap, a)
      BY DEF CanBoot, DirectMap, Checked, PagesOfType
    <2>4. CASE at = "kmalloc"
      <3>1. Reaches({"heap"}, {})
        BY <1>1, <2>1, ReachesAll DEF Objects
      <3> QED
        BY <2>4, <3>1, RunsAt
    <2>5. CASE at = "alloc"
      <3>1. pm_stack_idx = PagesLeft
        BY <2>1, <2>2, <2>5 DEF Left
      <3>2. CanGrant(l_pageCount)
        BY <1>2, <3>1 DEF CanGrant
      <3>3. \A p \in SlotPages(PagesLeft - l_pageCount, 1) :
              p \in DirectMap /\ \E a \in DOMAIN bootmap : p \in EntryPages(bootmap, a)
        BY <1>1, <1>2, <2>1, <2>2, SlotPagesFit
      <3>4. Reaches({"pages"}, SlotPages(PagesLeft - l_pageCount, 1))
        BY <1>1, <2>1, <3>3, ReachesAll DEF Objects
      <3> QED
        BY <2>5, <3>1, <3>2, <3>4, RunsAt
    <2>6. CASE at \in {"headers", "print", "kfree"}
      <3>1. /\ major \in UsablePages(memmap)
            /\ pm_stack_idx = PagesLeft - l_pageCount
        BY <1>2, <2>6 DEF Given
      <3>2. CASE at = "headers"
        <4>1. major \in DirectMap /\ major \in UsablePages(bootmap)
          BY <2>1, <2>2, <3>1, ArrayIs DEF Arranged
        <4>2. Reaches({}, {major})
          BY <1>1, <2>1, <4>1, ReachesAll, UsableEntryPages
        <4> QED
          BY <3>2, <4>2, RunsAt
      <3>3. CASE at = "print"
        <4>1. Reaches({"console"}, drawn)
          BY <1>1, <2>1, <2>3, ReachesAll DEF Objects
        <4> QED
          BY <3>3, <4>1, RunsAt
      <3>4. CASE at = "kfree"
        <4>1. \A p \in SlotPages(PagesLeft - l_pageCount, l_pageCount) :
                p \in DirectMap /\ \E a \in DOMAIN bootmap : p \in EntryPages(bootmap, a)
          BY <1>1, <1>2, <2>1, <2>2, SlotPagesFit
        <4>2. Reaches({"heap", "pages"}, SlotPages(PagesLeft - l_pageCount, l_pageCount))
          BY <1>1, <2>1, <4>1, ReachesAll DEF Objects
        <4> QED
          BY <3>1, <3>4, <4>2, RunsAt
      <3> QED
        BY <2>6, <3>2, <3>3, <3>4
    <2> QED
      BY <1>4, <2>4, <2>5, <2>6 DEF Late
  <1> QED
    BY <1>3, <1>4

(* The lines have come to mapped pages of the framebuffer only.            *)
Seen == at = "kfree" => drawn \subseteq Windows

(* A page of a framebuffer that is mapped is in a window of vmm_init: no   *)
(* usable entry has it.                                                    *)
LEMMA FramebufferPages ==
  ASSUME bootmap \in MemMaps, Limits, NEW p \in PagesOfType("framebuffer"), DirectMapped(p)
  PROVE  p \in Windows
  <1>1. PICK a \in DOMAIN bootmap :
          bootmap[a].type = "framebuffer" /\ p \in EntryPages(bootmap, a)
    BY DEF PagesOfType
  <1>2. /\ bootmap[a].base \in Nat /\ bootmap[a].length \in Nat
        /\ p \in Nat /\ p >= bootmap[a].base /\ p < bootmap[a].base + bootmap[a].length
    BY <1>1, BootEntries DEF EntryPages, Pages
  <1>3. p \notin UsablePages(bootmap)
    <2> SUFFICES ASSUME p \in UsablePages(bootmap) PROVE FALSE
      OBVIOUS
    <2>1. PICK b \in DOMAIN bootmap : IsUsable(bootmap[b]) /\ p \in EntryPages(bootmap, b)
      BY DEF UsablePages
    <2>2. /\ bootmap[b].base \in Nat /\ bootmap[b].length \in Nat
          /\ p >= bootmap[b].base /\ p < bootmap[b].base + bootmap[b].length
      BY <2>1, BootEntries DEF EntryPages, Pages
    <2>3. a \in Nat /\ b \in Nat /\ a # b
      BY <1>1, <2>1, BootEntries DEF IsUsable
    <2>4. /\ a < b => bootmap[a].base + bootmap[a].length <= bootmap[b].base
          /\ b < a => bootmap[b].base + bootmap[b].length <= bootmap[a].base
      BY <1>1, <2>1, SortedAssumption DEF IsUsable
    <2> QED
      BY <1>2, <2>2, <2>3, <2>4
  <1>4. _hhdm_offset + p \in Addresses /\ _hhdm_offset + p \notin Image
    BY <1>1, EntriesBelowImage DEF DirectMapped, Limits
  <1>5. PICK q \in DirectMap : _hhdm_offset + q = _hhdm_offset + p
    BY <1>4 DEF Addresses
  <1>6. q = p
    <2>1. q \in Nat
      BY MappedPages DEF DirectMap
    <2> QED
      BY <1>2, <1>5, <2>1, DirectMapAssumption
  <1> QED
    BY <1>3, <1>5, <1>6 DEF DirectMap

(* A boot that comes to kfree, and finds pm_stack mapped there, has passed *)
(* everything that CanBoot asks for.                                       *)
LEMMA KfreeCanBoot ==
  ASSUME TableInv, MapInv, Setup, Extent, Checked, Given, Seen, at = "kfree", Runs
  PROVE  CanBoot
  <1>1. MapShape /\ bootmap \in MemMaps
    BY DEF MapInv, MapShape
  <1>2. stage = "done" /\ Arranged /\ Limits /\ pm_stack_base # NULL
    BY DEF TableInv, Behind, Setup, Late, Ready, Extent, Limits
  <1>3. PagesLeft >= l_pageCount /\ pm_stack_idx = PagesLeft - l_pageCount
    BY DEF Given
  <1>4. answered = Responses /\ PagesOfType("framebuffer") # {}
    BY DEF Checked, Responses, AtPmm, Late
  <1>5. Objects \ {"idt"} \subseteq mapped
    BY DEF Checked, Objects, Late
  <1>6. Holders # {} /\ pm_stack_base = ArrayBase
    BY <1>2 DEF Arranged
  <1>7. ASSUME NEW s \in Pages(PagesLeft - l_pageCount, l_pageCount)
        PROVE  ArrayBase + s \div EntriesPerPage \in Windows
    <2> DEFINE q == ArrayBase + s \div EntriesPerPage
    <2>1. q \in SlotPages(pm_stack_idx, l_pageCount)
      BY <1>3, <1>6 DEF SlotPages
    <2>2. q \in StackPages /\ q \in UsablePages(bootmap) /\ q \in Nat
      BY <1>1, <1>2, <1>3, SlotsAreInArray DEF Arranged
    <2> HIDE DEF q
    <2>3. DirectMapped(q)
      BY <1>2, <2>1, RunsAt DEF Reaches, OnOwnMap
    <2>4. _hhdm_offset + q \in Addresses /\ _hhdm_offset + q \notin Image
      BY <1>1, <1>2, <2>2, <2>3, UsableEntryPages, EntriesBelowImage DEF DirectMapped, Limits
    <2>5. PICK p \in DirectMap : _hhdm_offset + p = _hhdm_offset + q
      BY <2>4 DEF Addresses
    <2>6. p \in Nat /\ p = q
      <3>1. p \in Nat
        BY <1>1, MappedPages DEF DirectMap
      <3> QED
        BY <2>2, <2>5, <3>1, DirectMapAssumption
    <2>7. q \in Windows
      BY <1>2, <2>2, <2>6, ArrayIs DEF Arranged
    <2> QED
      BY <2>7 DEF q
  <1> QED
    BY <1>3, <1>4, <1>5, <1>6, <1>7 DEF CanBoot, Seen

-----------------------------------------------------------------------------
LEMMA CheckedStep ==
  ASSUME TableInv, Checked, [Next]_vars
  PROVE  Checked'
  <1>1. /\ UNCHANGED <<bootmap, answered, mapped, stack, drawn>>
        /\ \A t : PagesOfType(t)' = PagesOfType(t)
    BY BootKeeps, BootMapIsConstant
  <1> USE DEF AtPmm, Late
  <1>2. CASE \/ CheckFramebuffer \/ CheckTerminal \/ CheckMemmap \/ CheckHhdm
             \/ CheckKernelAddress
    BY <1>1, <1>2 DEF Check, CheckFramebuffer, CheckTerminal, CheckMemmap, CheckHhdm,
                      CheckKernelAddress, Checked
  <1>3. CASE PmmInitReturns \/ VmmInitReturns \/ GdtInit \/ IdtInit
    BY <1>1, <1>3 DEF Check, PmmInitReturns, VmmInitReturns, GdtInit, IdtInit, Checked
  <1>4. CASE CallPmmInit \/ CallVmmInit \/ UNCHANGED vars
    BY <1>1, <1>4 DEF CallPmmInit, CallVmmInit, boot_vars, vars, Checked
  <1>5. CASE Fault \/ Interrupt
    BY <1>1, <1>5 DEF Fault, Interrupt, Checked
  <1>6. CASE Kmalloc \/ LiballocAlloc \/ WriteHeaders \/ PrintInfo \/ Kfree
    <2>1. Runs /\ OnOwnMap
      BY <1>6 DEF Kmalloc, LiballocAlloc, WriteHeaders, PrintInfo, Kfree, Step, TableInv,
                  Behind, OnOwnMap
    <2>2. \A objects, pages : Reaches(objects, pages) => objects \subseteq mapped
      BY <2>1 DEF Reaches
    <2>3. /\ at = "kmalloc" => "heap" \in mapped
          /\ at = "alloc" => "pages" \in mapped
          /\ at = "print" => "console" \in mapped
      <3>1. CASE at = "kmalloc"
        BY <2>1, <2>2, <3>1, RunsAt
      <3>2. CASE at = "alloc"
        BY <2>1, <2>2, <3>2, RunsAt
      <3>3. CASE at = "print"
        BY <2>1, <2>2, <3>3, RunsAt
      <3> QED
        BY <3>1, <3>2, <3>3
    <2>4. \/ at = "kmalloc" /\ at' = "alloc"
          \/ at = "alloc" /\ at' = "headers"
          \/ at = "headers" /\ at' = "print"
          \/ at = "print" /\ at' = "kfree"
          \/ at = "kfree" /\ at' = "hlt"
      BY <1>6 DEF Kmalloc, LiballocAlloc, WriteHeaders, PrintInfo, Kfree, Step
    <2> QED
      BY <1>1, <2>3, <2>4 DEF Checked
  <1> QED
    BY <1>2, <1>3, <1>4, <1>5, <1>6 DEF Next, olive_entry

LEMMA AllocGives ==
  ASSUME TableInv, MapInv, Setup, Extent, Left, LiballocAlloc
  PROVE  Given'
  <1>1. /\ at = "alloc" /\ at' = "headers" /\ stage = "done" /\ Ready
        /\ pmm_request_pages(l_pageCount)
        /\ major' = IF CanGrant(l_pageCount) THEN Granted(l_pageCount) ELSE NULL
        /\ l_pageCount \in Nat \ {0}
    BY PageCountAssumption
       DEF LiballocAlloc, Step, Setup, Late, TableInv, Behind
  <1>2. /\ UNCHANGED <<bootmap, memmap, logged>>
        /\ logged \in BOOLEAN /\ bootmap \in MemMaps /\ Limits /\ Arranged
    BY <1>1 DEF LiballocAlloc, map_vars, pmm_request_pages, pmm_memory, MapInv, MapTypes,
                TypeOK, MapShape, Extent, Ready
  <1>3. PagesLeft \in Int /\ pm_stack_idx \in Nat
    BY <1>1, <1>2, CountsAreNat, NeededIsFinite DEF PagesLeft, Ready
  <1>4. pm_stack_idx = IF logged THEN 0 ELSE PagesLeft
    BY <1>1 DEF Left
  <1>5. PagesLeft' = PagesLeft /\ UsablePages(memmap)' = UsablePages(memmap)
    BY <1>2, BootMapIsConstant DEF UsablePages, EntryPages
  <1>6. CASE CanGrant(l_pageCount)
    <2>1. ~logged /\ PagesLeft = pm_stack_idx /\ PagesLeft >= l_pageCount
      BY <1>1, <1>4, <1>6 DEF CanGrant
    <2>2. pm_stack_idx' = PagesLeft - l_pageCount
      BY <1>1, <1>6, <2>1 DEF pmm_request_pages
    <2>3. major' \in UsablePages(memmap)
      <3>1. pm_stack_idx - l_pageCount \in FreeSlots
        BY <1>1, <1>3, <2>1 DEF FreeSlots
      <3> QED
        BY <1>1, <1>6, <3>1 DEF Granted, FreePages, Ready
    <2> QED
      BY <1>2, <1>5, <2>1, <2>2, <2>3 DEF Given
  <1>7. CASE ~CanGrant(l_pageCount)
    <2>1. PagesLeft < l_pageCount
      BY <1>1, <1>2, <1>3, <1>4, <1>7 DEF CanGrant, Limits
    <2> QED
      BY <1>1, <1>5, <1>7, <2>1 DEF Given
  <1> QED
    BY <1>6, <1>7

LEMMA GivenStep ==
  ASSUME TableInv, MapInv, Setup, Extent, Left, Checked, Given, [Next]_vars
  PROVE  Given'
  <1>1. CASE LiballocAlloc
    BY <1>1, AllocGives
  <1>2. CASE WriteHeaders \/ PrintInfo \/ UNCHANGED vars
    <2>1. /\ UNCHANGED <<bootmap, memmap, pm_stack_idx, logged, major>>
          /\ at' \in {"headers", "print", "kfree"} => at \in {"headers", "print", "kfree"}
          /\ at' = "headers" => at = "headers"
      BY <1>2 DEF WriteHeaders, PrintInfo, Step, but_at, vars, boot_vars, map_vars, pmm_vars,
                  pmm_memory, pmm_counts
    <2>2. PagesLeft' = PagesLeft /\ UsablePages(memmap)' = UsablePages(memmap)
      BY <2>1, BootMapIsConstant DEF UsablePages, EntryPages
    <2>3. at = "headers" /\ at' = "print" => major # NULL
      <3> SUFFICES ASSUME at = "headers", at' = "print" PROVE major # NULL
        OBVIOUS
      <3>1. WriteHeaders
        BY <1>2 DEF PrintInfo, Step, vars, boot_vars
      <3>2. Runs /\ OnOwnMap /\ Limits
        BY <3>1 DEF WriteHeaders, Step, TableInv, Behind, OnOwnMap, Extent
      <3>3. DirectMapped(major)
        BY <3>2, RunsAt DEF Reaches
      <3> QED
        BY <3>2, <3>3, NotAtNull DEF MapInv
    <2>4. at' \in {"headers", "print", "kfree"} =>
            \/ at' = "headers" /\ at = "headers"
            \/ at = "headers" /\ at' = "print"
            \/ at \in {"print", "kfree"}
      BY <2>1, <1>2 DEF WriteHeaders, PrintInfo, Step, vars, boot_vars
    <2> QED
      BY <2>1, <2>2, <2>3, <2>4 DEF Given
  <1>3. CASE \/ CheckFramebuffer \/ CheckTerminal \/ CheckMemmap \/ CheckHhdm
             \/ CheckKernelAddress \/ PmmInitReturns \/ VmmInitReturns
             \/ GdtInit \/ IdtInit \/ Fault \/ Interrupt
             \/ Kmalloc \/ Kfree \/ CallPmmInit \/ CallVmmInit
    <2>1. at' \notin {"headers", "print", "kfree"}
      BY <1>3 DEF Check, CheckFramebuffer, CheckTerminal, CheckMemmap, CheckHhdm,
                  CheckKernelAddress, PmmInitReturns, VmmInitReturns, GdtInit, IdtInit,
                  Fault, Interrupt, Kmalloc, Kfree, Step, CallPmmInit, CallVmmInit, boot_vars
    <2> QED
      BY <2>1 DEF Given
  <1> QED
    BY <1>1, <1>2, <1>3 DEF Next, olive_entry

LEMMA SeenStep ==
  ASSUME TableInv, MapInv, Extent, Checked, Seen, [Next]_vars
  PROVE  Seen'
  <1>1. UNCHANGED <<bootmap, drawn>> /\ Windows' = Windows
    BY BootKeeps, BootMapIsConstant
  <1>2. CASE PrintInfo
    <2>1. at = "print" /\ Runs /\ OnOwnMap /\ Limits
      BY <1>2 DEF PrintInfo, Step, TableInv, Behind, OnOwnMap, Extent
    <2>2. Reaches({"console"}, drawn)
      BY <2>1, RunsAt
    <2>3. \A p \in drawn : DirectMapped(p)
      BY <2>1, <2>2 DEF Reaches
    <2>4. \A p \in drawn : p \in Windows
      BY <2>1, <2>3, FramebufferPages DEF Checked, MapInv, MapShape
    <2> QED
      BY <1>1, <2>4 DEF Seen
  <1>3. CASE ~PrintInfo
    <2>1. at' = "kfree" => at = "kfree"
      BY <1>3 DEF Next, olive_entry, Check, CheckFramebuffer, CheckTerminal, CheckMemmap,
                  CheckHhdm, CheckKernelAddress, PmmInitReturns, VmmInitReturns, GdtInit,
                  IdtInit, CallPmmInit, CallVmmInit, Fault, Interrupt, Kmalloc,
                  LiballocAlloc, WriteHeaders, Kfree, Step, vars, boot_vars
    <2> QED
      BY <1>1, <2>1 DEF Seen
  <1> QED
    BY <1>2, <1>3

LEMMA BootsStep ==
  ASSUME TableInv, MapInv, Setup, Extent, Left, Checked, Given, Seen, BootsExactlyWhenItCan,
         [Next]_vars
  PROVE  BootsExactlyWhenItCan'
  <1>1. CanBoot' = CanBoot
    <2>1. UNCHANGED <<bootmap, answered, mapped, drawn>>
      BY BootKeeps
    <2> QED
      BY <2>1, BootMapIsConstant DEF CanBoot
  <1>2. at \in AtEnd => Runs
    BY RunsAt DEF AtEnd, Late
  <1>3. CASE \/ CheckFramebuffer \/ CheckTerminal \/ CheckMemmap \/ CheckHhdm
             \/ CheckKernelAddress
    <2>1. at' \in AtEnd => at' = "halted" /\ ~CanBoot
      BY <1>3 DEF Check, CheckFramebuffer, CheckTerminal, CheckMemmap, CheckHhdm,
                  CheckKernelAddress, AtEnd, CanBoot, Responses
    <2> QED
      BY <1>1, <2>1 DEF BootsExactlyWhenItCan, AtEnd
  <1>4. CASE PmmInitReturns \/ VmmInitReturns
    <2>1. CASE PmmInitReturns
      BY <2>1 DEF PmmInitReturns, Check, Setup, BootsExactlyWhenItCan
    <2>2. CASE VmmInitReturns
      <3>1. at = "vmm" /\ at' \in AtEnd => stage = "failed" /\ at' = "halted"
        BY <2>2 DEF VmmInitReturns, Check, AtEnd
      <3>2. stage = "failed" /\ Ready /\ bootmap \in MemMaps => ~CanBoot
        <4> SUFFICES ASSUME stage = "failed", Ready, bootmap \in MemMaps PROVE ~CanBoot
          OBVIOUS
        <4>1. PagesLeft \in Int /\ PagesLeft < 0
          BY CountsAreNat, NeededIsFinite DEF PagesLeft, Ready, Extent
        <4> QED
          BY <4>1, PageCountAssumption DEF CanBoot
      <3>3. at = "vmm" /\ Ready /\ bootmap \in MemMaps
        BY <2>2 DEF VmmInitReturns, Check, Setup, MapInv, MapShape
      <3> QED
        BY <1>1, <3>1, <3>2, <3>3 DEF BootsExactlyWhenItCan, AtEnd
    <2> QED
      BY <1>4, <2>1, <2>2
  <1>5. CASE \/ GdtInit \/ IdtInit \/ CallPmmInit \/ CallVmmInit
             \/ Kmalloc \/ LiballocAlloc \/ WriteHeaders \/ PrintInfo
    <2>1. at' \notin AtEnd
      BY <1>5 DEF GdtInit, IdtInit, CallPmmInit, CallVmmInit, boot_vars, Kmalloc,
                  LiballocAlloc, WriteHeaders, PrintInfo, Step, AtEnd
    <2> QED
      BY <2>1 DEF BootsExactlyWhenItCan, AtEnd
  <1>6. CASE Kfree
    <2>1. at = "kfree" /\ at' = "hlt" /\ Runs
      BY <1>6 DEF Kfree, Step
    <2> QED
      BY <1>1, <2>1, KfreeCanBoot DEF BootsExactlyWhenItCan
  <1>7. CASE Fault
    <2>1. at' \in {"halted", "lost"} /\ ~Runs
      BY <1>7 DEF Fault
    <2>2. ~CanBoot
      BY <2>1, CanBootRuns
    <2> QED
      BY <1>1, <2>1, <2>2 DEF BootsExactlyWhenItCan
  <1>8. CASE Interrupt
    BY <1>8 DEF Interrupt, BootsExactlyWhenItCan
  <1>9. CASE UNCHANGED vars
    <2>1. at' = at
      BY <1>9 DEF vars, boot_vars
    <2> QED
      BY <1>1, <2>1 DEF BootsExactlyWhenItCan
  <1> QED
    BY <1>3, <1>4, <1>5, <1>6, <1>7, <1>8, <1>9 DEF Next, olive_entry

(* The boot comes to hlt exactly when the memory map that the bootloader   *)
(* handed over, its responses, and the place of the objects of .bss allow  *)
(* it, and no line comes to a page of the framebuffer that is not mapped.  *)
(* Every end in hcf or in a triple fault has its reason there: no page     *)
(* that olive_entry touches on its own page map is out of reach for any    *)
(* other reason, and no boot comes through that should not.  A boot that   *)
(* an interrupt stops has no such end.                                     *)
THEOREM BootBootsExactlyWhenItCan == Spec => []BootsExactlyWhenItCan
  <1> DEFINE BootInv == /\ TableInv /\ MapInv /\ Setup /\ Extent /\ Left /\ Checked /\ Given
                        /\ Seen
                        /\ BootsExactlyWhenItCan
  <1>1. Init => BootInv
    <2> SUFFICES ASSUME Init PROVE BootInv
      OBVIOUS
    <2>1. /\ at = "framebuffer" /\ stage = "root" /\ ~logged
          /\ answered \subseteq Responses /\ stack \in PagesOfType("reclaimable")
          /\ drawn \subseteq PagesOfType("framebuffer")
      BY DEF Init, MapInit
    <2>2. TableInv
      BY DEF Init, MapInit, PMMInit, TableInv, Before, Behind, Mapping
    <2>3. MapInv /\ Setup
      BY InitMapInv, InitSetup
    <2>4. Extent /\ Left
      BY <2>1 DEF Extent, Left, Mapping
    <2>5. Checked /\ Given /\ Seen /\ BootsExactlyWhenItCan
      BY <2>1 DEF Checked, AtPmm, Late, Given, Seen, BootsExactlyWhenItCan
    <2> QED
      BY <2>2, <2>3, <2>4, <2>5
  <1>2. BootInv /\ [Next]_vars => BootInv'
    BY TableInvStep, MapInvStep, SetupStep, ExtentStep, LeftStep, CheckedStep, GivenStep,
       SeenStep, BootsStep
  <1>3. BootInv => BootsExactlyWhenItCan
    OBVIOUS
  <1> QED
    BY <1>1, <1>2, <1>3, PTL DEF Spec

=============================================================================
