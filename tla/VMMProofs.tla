------------------------------ MODULE VMMProofs ------------------------------
(***************************************************************************)
(* Proofs about the page tables of vmm.c, for any number of threads,       *)
(* any virtual pages, and memory that may run out at any time.             *)
(***************************************************************************)
EXTENDS VMM, FiniteSetTheorems, FunctionTheorems, SequenceTheorems, TLAPS

-----------------------------------------------------------------------------
(* pmm.c, as far as vmm.c relies on it: what is on the stack is usable and *)
(* on it once.  PMMProofs says more of pmm.c.                              *)
Distinct == \A s, t \in FreeSlots : s # t => pm_stack[s] # pm_stack[t]

(* The pages that loop 3 has seen when it stands at entry ent, page off.   *)
Reached(p) ==
  \/ \E a \in 1 .. ent - 1 : IsUsable(memmap[a]) /\ p \in EntryPages(memmap, a)
  \/ /\ ent <= Len(memmap) /\ IsUsable(memmap[ent])
     /\ p \in Pages(memmap[ent].base, off)

Shrunk ==
  \A a \in DOMAIN bootmap :
    /\ memmap[a].type = bootmap[a].type
    /\ memmap[a].base = bootmap[a].base
    /\ memmap[a].length <= bootmap[a].length

StackType ==
  /\ pm_total_pages \in Nat
  /\ pm_stack_idx \in Nat
  /\ pm_stack_base = NULL => pm_stack_idx = 0
  /\ pm_stack_base # NULL => /\ pm_stack_idx <= pm_total_pages
                             /\ pm_stack \in [0 .. pm_total_pages - 1 -> Nat]

BootInv ==
  /\ phase \in {"count", "locate", "push", "ready", "failed", "fault"}
  /\ bootmap \in MemMaps
  /\ memmap \in [DOMAIN bootmap -> Entry]
  /\ Shrunk
  /\ ent \in Nat
  /\ off \in Nat
  /\ StackType
  /\ phase = "count" => ent >= 1
  /\ phase = "locate" => ent <= Len(bootmap)
  /\ phase \in {"count", "locate"} => pm_stack_base = NULL /\ off = 0
  /\ phase = "push" => /\ ent \in 1 .. Len(bootmap) + 1
                       /\ Distinct
                       /\ \A p \in FreePages : Reached(p)
  /\ phase = "push" /\ ent <= Len(memmap) /\ IsUsable(memmap[ent]) => off <= memmap[ent].length
  /\ phase = "ready" => Distinct /\ FreePages \subseteq UsablePages(bootmap)

-----------------------------------------------------------------------------
(* The table on level d of the walk to virtual page v, or NULL.            *)
Node(v, d) ==
  IF d = 1 THEN root
  ELSE IF d = 2 THEN Down(root, v[1])
  ELSE IF d = 3 THEN Down(Down(root, v[1]), v[2])
  ELSE PageTable(v)

SamePath(v, w, d) == \A k \in 1 .. d - 1 : v[k] = w[k]

(* The tables are a tree: they are reached on one path only.               *)
TreeInv ==
  /\ \A v \in Virts, d \in 1 .. 4 : Node(v, d) # NULL => Node(v, d) \in UsablePages(bootmap)
  /\ \A v, w \in Virts, d, e \in 1 .. 4 :
       Node(v, d) = Node(w, e) /\ Node(v, d) # NULL => d = e /\ SamePath(v, w, d)
  /\ \A v \in Virts, d \in 1 .. 3, i \in Index :
       Node(v, d) # NULL /\ memory[Node(v, d)][i].present =>
         /\ memory[Node(v, d)][i].page # NULL
         /\ \E w \in Virts : SamePath(v, w, d) /\ w[d] = i

MemoryType == memory \in [UsablePages(bootmap) -> [Index -> [page : Nat, present : BOOLEAN]]]

-----------------------------------------------------------------------------
(* The tables and the mappings of all virtual pages. *)
Tree == [v \in Virts |-> [d \in 1 .. 4 |-> Node(v, d)]]

Flat == [v \in Virts |-> Mapping(v)]

(* The threads.                                                            *)
Entries == [page : Nat, present : BOOLEAN]

Calls == [op : {"map", "unmap", "virt2phys"}, virt : Virts, free : BOOLEAN, entry : Entries]

Answers == [done : BOOLEAN, found : BOOLEAN, entry : Entries]

Places == {"idle", "acquire", "walk", "zero", "link", "clear", "release", "return"}

ThreadType ==
  /\ map_lock \in Threads \cup {Nobody}
  /\ pc \in [Threads -> Places]
  /\ call \in [Threads -> Calls \cup {NoCall}]
  /\ table \in [Threads -> Nat]
  /\ depth \in [Threads -> 1 .. 4]
  /\ fresh \in [Threads -> Nat]
  /\ frame \in [Threads -> Nat]
  /\ mapped \in [Threads -> SUBSET Virts]
  /\ \A t \in Threads : mapped[t] \subseteq Own[t]
  /\ answer \in [Threads -> Answers]

(* The lock is held from the walk on, by vmm_map and vmm_unmap.            *)
Locked(t) ==
  \/ pc[t] \in {"zero", "link", "clear", "release"}
  \/ pc[t] = "walk" /\ call[t].op # "virt2phys"

LockInv == \A t \in Threads : Locked(t) <=> map_lock = t

(* A call knows where it is and whose page it works on.                    *)
CallInv(t) ==
  /\ pc[t] # "idle" => call[t] \in Calls /\ root # NULL
  /\ pc[t] = "acquire" =>
       call[t].op \in {"map", "unmap"} /\ table[t] = root /\ depth[t] = 1
  /\ pc[t] \in {"walk", "zero", "link", "clear"} =>
       table[t] # NULL /\ table[t] = Tree[Virt(t)][depth[t]]
  /\ pc[t] \in {"zero", "link"} =>
       call[t].op = "map" /\ depth[t] < 4 /\ ~Slot(t).present /\ fresh[t] # NULL
  /\ pc[t] \notin {"zero", "link"} => fresh[t] = NULL
  /\ pc[t] = "link" => memory[fresh[t]] = ZeroPage
  /\ pc[t] = "clear" => call[t].op = "unmap" /\ depth[t] = 4
  /\ pc[t] = "return" => call[t].op = "virt2phys"
  /\ pc[t] \in {"acquire", "walk", "zero", "link"} /\ call[t].op = "map" =>
       frame[t] # NULL /\ call[t].entry = Link(frame[t]) /\ Virt(t) \in Own[t] \ mapped[t]
  /\ pc[t] \in {"acquire", "walk"} /\ call[t].op = "unmap" =>
       /\ call[t].free => Virt(t) \in mapped[t]
       /\ ~call[t].free => Virt(t) \in Own[t] /\ (Virt(t) \in mapped[t] => frame[t] = NULL)
  /\ pc[t] = "clear" => Virt(t) \in Own[t] \ mapped[t]

-----------------------------------------------------------------------------
(* Who owns what.  A page is a table, or a table to be, or the frame of a  *)
(* caller, or that of a mapping, and of one of them only; or it is free.   *)
IsTable(p) == p # NULL /\ \E v \in Virts : \E d \in 1 .. 4 : p = Tree[v][d]

Frame(v) == Flat[v].page

UsedInv ==
  /\ \A p \in FreePages : ~IsTable(p)
  /\ \A t \in Threads :
       /\ fresh[t] # NULL => fresh[t] \in UsablePages(bootmap) \ FreePages
       /\ frame[t] # NULL => frame[t] \in UsablePages(bootmap) \ FreePages
       /\ \A v \in mapped[t] : Frame(v) \in UsablePages(bootmap) \ FreePages

FreshInv ==
  \A t \in Threads : fresh[t] # NULL =>
    /\ ~IsTable(fresh[t])
    /\ \A u \in Threads : frame[u] # fresh[t] /\ \A v \in mapped[u] : Frame(v) # fresh[t]

FrameInv ==
  \A t \in Threads :
    /\ frame[t] # NULL =>
         /\ ~IsTable(frame[t])
         /\ \A u \in Threads : /\ u # t => frame[u] # frame[t]
                              /\ \A v \in mapped[u] : Frame(v) # frame[t]
    /\ \A v \in mapped[t] :
         /\ ~IsTable(Frame(v))
         /\ \A u \in Threads : \A w \in mapped[u] : w # v => Frame(w) # Frame(v)

OwnerInv == UsedInv /\ FreshInv /\ FrameInv

(* An entry is present if and only if a caller owns the mapping, or has    *)
(* just freed its frame.                                                   *)
EntryInv ==
  /\ \A t \in Threads : \A v \in mapped[t] : Flat[v].present
  /\ \A v \in Virts : Flat[v].present =>
       \E t \in Threads : v \in mapped[t] \/ (pc[t] = "clear" /\ Virt(t) = v)

(* Before vmm_init nobody has anything.                                    *)
RootInv ==
  /\ root \in Nat
  /\ root # NULL => phase = "ready" /\ pm_stack_base # NULL
  /\ root = NULL => \A t \in Threads :
       pc[t] = "idle" /\ fresh[t] = NULL /\ frame[t] = NULL /\ mapped[t] = {}

TableInv ==
  /\ BootInv /\ MemoryType /\ ThreadType /\ RootInv
  /\ TreeInv /\ LockInv /\ OwnerInv /\ EntryInv
  /\ \A t \in Threads : CallInv(t)

-----------------------------------------------------------------------------
(* The boot: loop 3 pushes usable pages, each of them once.                *)
LEMMA Maps ==
  ASSUME BootInv
  PROVE  /\ Len(bootmap) \in Nat
         /\ Len(memmap) = Len(bootmap)
         /\ DOMAIN bootmap = 1 .. Len(bootmap)
         /\ memmap \in [1 .. Len(bootmap) -> Entry]
         /\ \A a \in 1 .. Len(bootmap) :
              /\ memmap[a] \in Entry /\ bootmap[a] \in Entry
              /\ IsUsable(memmap[a]) <=> IsUsable(bootmap[a])
              /\ EntryPages(memmap, a) \subseteq EntryPages(bootmap, a)
              /\ IsUsable(bootmap[a]) => bootmap[a].base > 0
         /\ \A a, b \in 1 .. Len(bootmap) :
              IsUsable(bootmap[a]) /\ a # b =>
                EntryPages(bootmap, a) \cap EntryPages(bootmap, b) = {}
  <1>1. bootmap \in Seq(Entry)
    BY MemMapsAssumption DEF BootInv
  <1>2. /\ Len(bootmap) \in Nat /\ DOMAIN bootmap = 1 .. Len(bootmap)
        /\ \A a \in 1 .. Len(bootmap) : bootmap[a] \in Entry
    BY <1>1, LenProperties
  <1>3. memmap \in [1 .. Len(bootmap) -> Entry]
    BY <1>2 DEF BootInv
  <1>4. Len(memmap) = Len(bootmap)
    <2>1. memmap \in Seq(Entry)
      BY <1>2, <1>3, SeqDef
    <2>2. QED
      BY <1>2, <1>3, <2>1, LenProperties
  <1>5. \A a, b \in 1 .. Len(bootmap) :
          IsUsable(bootmap[a]) =>
            /\ bootmap[a].base > 0
            /\ a # b => EntryPages(bootmap, a) \cap EntryPages(bootmap, b) = {}
    BY <1>2, MemMapsAssumption DEF BootInv, EntryPages, NULL
  <1>6. \A a \in 1 .. Len(bootmap) :
          /\ IsUsable(memmap[a]) <=> IsUsable(bootmap[a])
          /\ EntryPages(memmap, a) \subseteq EntryPages(bootmap, a)
    BY <1>2, <1>3 DEF BootInv, Shrunk, IsUsable, EntryPages, Pages, Entry
  <1>7. QED
    BY <1>2, <1>3, <1>4, <1>5, <1>6

LEMMA UsableIsNotNull ==
  ASSUME BootInv
  PROVE  \A p \in UsablePages(bootmap) : p \in Nat /\ p # NULL
  BY Maps DEF UsablePages, EntryPages, Pages, Entry, NULL

LEMMA ReachedIsUsable ==
  ASSUME BootInv, phase = "push"
  PROVE  \A p : Reached(p) => p \in UsablePages(bootmap)
  <1>1. \A a \in 1 .. Len(bootmap) :
          IsUsable(memmap[a]) => EntryPages(memmap, a) \subseteq UsablePages(bootmap)
    BY Maps DEF UsablePages
  <1>2. ASSUME NEW p, Reached(p) PROVE p \in UsablePages(bootmap)
    <2>1. CASE \E a \in 1 .. ent - 1 : IsUsable(memmap[a]) /\ p \in EntryPages(memmap, a)
      <3>1. PICK a \in 1 .. ent - 1 : IsUsable(memmap[a]) /\ p \in EntryPages(memmap, a)
        BY <2>1
      <3>2. a \in 1 .. Len(bootmap)
        BY Maps DEF BootInv
      <3>3. QED
        BY <1>1, <3>1, <3>2
    <2>2. CASE ent <= Len(memmap) /\ IsUsable(memmap[ent]) /\ p \in Pages(memmap[ent].base, off)
      <3>1. ent \in 1 .. Len(bootmap) /\ off <= memmap[ent].length
        BY <2>2, Maps DEF BootInv
      <3>2. p \in EntryPages(memmap, ent)
        BY <2>2, <3>1, Maps DEF EntryPages, Pages, Entry, BootInv
      <3>3. QED
        BY <1>1, <2>2, <3>1, <3>2
    <2>3. QED
      BY <1>2, <2>1, <2>2 DEF Reached
  <1>3. QED
    BY <1>2

LEMMA PushOne ==
  ASSUME NEW p, pm_stack_idx \in Nat, Distinct, p \notin FreePages,
         pm_stack_idx' = pm_stack_idx + 1,
         pm_stack'[pm_stack_idx] = p,
         \A s \in FreeSlots : pm_stack'[s] = pm_stack[s]
  PROVE  Distinct' /\ FreePages' = FreePages \cup {p}
  <1>1. FreeSlots' = FreeSlots \cup {pm_stack_idx} /\ pm_stack_idx \notin FreeSlots
    BY DEF FreeSlots
  <1>2. \A s \in FreeSlots : pm_stack[s] # p
    BY DEF FreePages
  <1>3. QED
    BY <1>1, <1>2 DEF Distinct, FreePages

LEMMA PushPageKeepsBootInv ==
  ASSUME BootInv, PushPage
  PROVE  BootInv'
  <1>1. /\ phase = "push" /\ ent \in 1 .. Len(bootmap) /\ off \in Nat
        /\ IsUsable(memmap[ent]) /\ off < memmap[ent].length
        /\ UNCHANGED <<bootmap, memmap, pm_stack_base, pm_total_pages, ent>>
    BY Maps DEF PushPage, BootInv, pmm_memory
  <1>2. CASE pm_stack_idx < pm_total_pages /\ pm_stack_base # NULL
    <2>0. memmap[ent].base + off \in Nat
      BY <1>1, Maps DEF Entry
    <2>p. PICK p \in Nat : p = memmap[ent].base + off
      BY <2>0
    <2>1. /\ pm_stack' = [pm_stack EXCEPT ![pm_stack_idx] = p]
          /\ pm_stack_idx' = pm_stack_idx + 1
          /\ off' = off + 1
          /\ phase' = phase
      BY <1>1, <1>2, <2>p DEF PushPage
    <2>2. /\ memmap[ent] \in Entry /\ memmap[ent].base \in Nat /\ memmap[ent].length \in Nat
          /\ Len(memmap) = Len(bootmap)
      BY <1>1, Maps DEF Entry
    <2>3. /\ pm_stack_idx \in Nat /\ pm_total_pages \in Nat
          /\ pm_stack \in [0 .. pm_total_pages - 1 -> Nat]
          /\ p \in Nat
      BY <1>1, <1>2, <2>2 DEF BootInv, StackType
    <2>4. p \in EntryPages(memmap, ent)
      BY <1>1, <2>p, <2>2 DEF EntryPages, Pages
    <2>5. ~Reached(p)
      <3>1. \A a \in 1 .. ent - 1 : IsUsable(memmap[a]) => p \notin EntryPages(memmap, a)
        <4>1. ASSUME NEW a \in 1 .. ent - 1, IsUsable(memmap[a]), p \in EntryPages(memmap, a)
              PROVE  FALSE
          <5>1. a \in 1 .. Len(bootmap) /\ a # ent
            BY <1>1, Maps
          <5>2. p \in EntryPages(bootmap, a) /\ p \in EntryPages(bootmap, ent)
            BY <1>1, <2>4, <4>1, <5>1, Maps
          <5>3. QED
            BY <1>1, <5>1, <5>2, Maps
        <4>2. QED
          BY <4>1
      <3>2. p \notin Pages(memmap[ent].base, off) /\ Len(memmap) \in Nat
        BY <1>1, <2>p, <2>2 DEF Pages
      <3>3. QED
        BY <3>1, <3>2 DEF Reached
    <2>6. Reached(p)' /\ \A q : Reached(q) => Reached(q)'
      <3>1. Pages(memmap[ent].base, off + 1) = Pages(memmap[ent].base, off) \cup {p}
        BY <1>1, <2>p, <2>2 DEF Pages
      <3>2. ent <= Len(memmap)
        BY <1>1, <2>2
      <3>3. \A a : EntryPages(memmap, a)' = EntryPages(memmap, a)
        BY <1>1 DEF EntryPages
      <3>4. Reached(p)'
        BY <1>1, <2>1, <3>1, <3>2 DEF Reached
      <3>5. QED
        BY <1>1, <2>1, <3>1, <3>2, <3>3, <3>4 DEF Reached
    <2>7. Distinct' /\ FreePages' = FreePages \cup {p}
      <3>1. /\ pm_stack'[pm_stack_idx] = p
            /\ \A s \in FreeSlots : pm_stack'[s] = pm_stack[s]
        BY <1>2, <2>1, <2>3 DEF FreeSlots
      <3>2. p \notin FreePages /\ Distinct
        BY <1>1, <2>5 DEF BootInv
      <3>3. QED
        BY <2>1, <2>3, <3>1, <3>2, PushOne
    <2>8. \A q \in FreePages' : Reached(q)'
      BY <1>1, <2>6, <2>7 DEF BootInv
    <2>9. StackType'
      <3>1. pm_stack' \in [0 .. pm_total_pages - 1 -> Nat]
        BY <1>2, <2>1, <2>3
      <3>2. QED
        BY <1>1, <1>2, <2>1, <2>3, <3>1 DEF StackType
    <2>10. off' \in Nat /\ off' <= memmap[ent].length
      BY <1>1, <2>1, <2>2
    <2>11. Shrunk'
      BY <1>1 DEF BootInv, Shrunk
    <2>12. QED
      BY <1>1, <2>1, <2>7, <2>8, <2>9, <2>10, <2>11 DEF BootInv
  <1>3. CASE ~(pm_stack_idx < pm_total_pages /\ pm_stack_base # NULL)
    <2>1. /\ phase' \in {"failed", "fault"}
          /\ UNCHANGED <<pm_stack, pm_stack_idx, off>>
      BY <1>3 DEF PushPage
    <2>2. QED
      BY <1>1, <2>1 DEF BootInv, StackType, Shrunk
  <1>4. QED
    BY <1>2, <1>3

LEMMA NextEntryKeepsBootInv ==
  ASSUME BootInv, NextEntry
  PROVE  BootInv'
  <1>1. /\ phase = "push" /\ ent \in 1 .. Len(memmap) /\ Len(memmap) \in Nat
        /\ ent' = ent + 1 /\ off' = 0
        /\ IsUsable(memmap[ent]) => off = memmap[ent].length
        /\ UNCHANGED <<phase, bootmap, memmap, pm_stack_base, pm_total_pages, pm_stack, pm_stack_idx>>
    BY Maps DEF NextEntry, BootInv, pmm_memory, pmm_counts, Entry
  <1>2. \A p : Reached(p) => Reached(p)'
    <2>1. 1 .. ent' - 1 = (1 .. ent - 1) \cup {ent}
      BY <1>1
    <2>2. IsUsable(memmap[ent]) => Pages(memmap[ent].base, off) = EntryPages(memmap, ent)
      BY <1>1 DEF EntryPages
    <2>3. ASSUME NEW a \in 1 .. ent, IsUsable(memmap[a])
          PROVE  \A p \in EntryPages(memmap, a) : Reached(p)'
      <3>1. EntryPages(memmap, a)' = EntryPages(memmap, a) /\ IsUsable(memmap'[a])
        BY <1>1, <2>3 DEF EntryPages
      <3>2. a \in 1 .. ent' - 1
        BY <1>1, <2>1
      <3>3. QED
        BY <3>1, <3>2 DEF Reached
    <2>4. ASSUME NEW p, Reached(p) PROVE Reached(p)'
      <3>1. \E a \in 1 .. ent : IsUsable(memmap[a]) /\ p \in EntryPages(memmap, a)
        <4>1. CASE \E a \in 1 .. ent - 1 : IsUsable(memmap[a]) /\ p \in EntryPages(memmap, a)
          BY <1>1, <2>1, <4>1
        <4>2. CASE IsUsable(memmap[ent]) /\ p \in Pages(memmap[ent].base, off)
          BY <1>1, <2>2, <4>2
        <4>3. QED
          BY <2>4, <4>1, <4>2 DEF Reached
      <3>2. QED
        BY <2>3, <3>1
    <2>5. QED
      BY <2>4
  <1>3. Distinct' /\ FreePages' = FreePages
    BY <1>1 DEF BootInv, Distinct, FreePages, FreeSlots
  <1>4. ent' <= Len(memmap') => off' <= memmap'[ent'].length
    BY <1>1, Maps DEF Entry
  <1>5. QED
    BY <1>1, <1>2, <1>3, <1>4 DEF BootInv, StackType, Shrunk

LEMMA PlaceStackKeepsBootInv ==
  ASSUME BootInv, PlaceStack
  PROVE  BootInv'
  <1>1. /\ phase = "locate" /\ phase' = "push" /\ ent \in 1 .. Len(bootmap)
        /\ ent' = 1 /\ off' = 0 /\ pm_stack_idx' = 0
        /\ UNCHANGED <<bootmap, pm_total_pages>>
    BY Maps DEF PlaceStack, BootInv, StackType, pmm_counts
  <1>2. pm_stack_size \in Nat
    <2>1. \A a \in Nat, b \in Nat \ {0} : (a + b - 1) \div b \in Nat
      OBVIOUS
    <2>2. QED
      BY <2>1, EntriesPerPageAssumption DEF pm_stack_size, BootInv, StackType
  <1>3. /\ memmap[ent] \in Entry /\ memmap[ent].length >= pm_stack_size
        /\ memmap' = [memmap EXCEPT ![ent].length = @ - pm_stack_size]
        /\ memmap[ent].base > 0
    BY <1>1, Maps DEF PlaceStack, CanHold, Shortened, BootInv, Shrunk
  <1>4. memmap[ent].length \in Nat /\ memmap[ent].length - pm_stack_size \in Nat
    BY <1>2, <1>3 DEF Entry
  <1>5. memmap' \in [DOMAIN bootmap -> Entry]
    BY <1>1, <1>3, <1>4, Maps DEF Entry
  <1>6. Shrunk'
    <2>1. ASSUME NEW a \in DOMAIN bootmap
          PROVE  /\ memmap'[a].type = bootmap[a].type
                 /\ memmap'[a].base = bootmap[a].base
                 /\ memmap'[a].length <= bootmap[a].length
      <3>1. CASE a = ent
        <4>1. /\ memmap'[a].type = memmap[a].type /\ memmap'[a].base = memmap[a].base
              /\ memmap'[a].length = memmap[a].length - pm_stack_size
          BY <1>1, <1>3, <3>1, Maps DEF Entry
        <4>2. bootmap[a].length \in Nat /\ memmap[a].length <= bootmap[a].length
          BY Maps DEF BootInv, Shrunk, Entry
        <4>3. QED
          BY <1>2, <1>4, <3>1, <4>1, <4>2 DEF BootInv, Shrunk
      <3>2. CASE a # ent
        BY <1>3, <3>2, Maps DEF BootInv, Shrunk
      <3>3. QED
        BY <3>1, <3>2
    <2>2. QED
      BY <1>1, <2>1 DEF Shrunk
  <1>7. StackType'
    <2>1. pm_stack' \in [0 .. pm_total_pages - 1 -> Nat]
      BY DEF PlaceStack, NULL
    <2>2. pm_total_pages \in Nat
      BY DEF BootInv, StackType
    <2>3. QED
      BY <1>1, <2>1, <2>2 DEF StackType
  <1>8. Distinct' /\ FreePages' = {}
    BY <1>1 DEF Distinct, FreePages, FreeSlots
  <1>9. Len(memmap') \in Nat /\ \A a \in 1 .. Len(memmap') : memmap'[a].length \in Nat
    <2>1. /\ Len(bootmap) \in Nat /\ memmap' \in [1 .. Len(bootmap) -> Entry]
      BY <1>5, Maps
    <2>2. memmap' \in Seq(Entry)
      BY <2>1, SeqDef
    <2>3. Len(memmap') \in Nat /\ \A a \in 1 .. Len(memmap') : memmap'[a] \in Entry
      BY <2>2, LenProperties
    <2>4. QED
      BY <2>3 DEF Entry
  <1>10. QED
    BY <1>1, <1>5, <1>6, <1>7, <1>8, <1>9 DEF BootInv

LEMMA BootKeepsBootInv ==
  ASSUME BootInv, pmm_init
  PROVE  BootInv' /\ bootmap' = bootmap /\ phase \in {"count", "locate", "push"}
  <1>1. bootmap' = bootmap /\ phase \in {"count", "locate", "push"}
    BY DEF pmm_init, CountEntry, CountDone, PlaceStack, SkipEntry, NoPlace,
           PushPage, NextEntry, PushDone, pmm_memory
  <1>2. CASE CountEntry \/ CountDone \/ SkipEntry
    <2>1. /\ UNCHANGED <<memmap, off, pm_stack, pm_stack_base, pm_stack_idx>>
          /\ phase \in {"count", "locate"} /\ phase' \in {"count", "locate"}
          /\ phase' = "count" => ent' >= 1
          /\ phase' = "locate" => ent' <= Len(bootmap)
          /\ ent' \in Nat
      BY <1>2, Maps DEF CountEntry, CountDone, SkipEntry, BootInv, pmm_memory, pmm_counts
    <2>2. pm_total_pages' \in Nat
      BY <1>2, Maps DEF CountEntry, CountDone, SkipEntry, BootInv, pmm_memory, StackType, Entry
    <2>3. QED
      BY <1>1, <2>1, <2>2 DEF BootInv, StackType, Shrunk
  <1>3. CASE PlaceStack
    BY <1>1, <1>3, PlaceStackKeepsBootInv
  <1>4. CASE NoPlace
    <2>1. /\ phase' = "push" /\ ent' = 1 /\ off' = 0 /\ pm_stack_idx' = 0
          /\ UNCHANGED <<memmap, pm_stack, pm_stack_base, pm_stack_idx, pm_total_pages>>
      BY <1>4 DEF NoPlace, BootInv, StackType, pmm_memory, pmm_counts
    <2>2. Distinct' /\ FreePages' = {}
      BY <2>1 DEF Distinct, FreePages, FreeSlots
    <2>3. Len(memmap) \in Nat /\ \A a \in 1 .. Len(memmap) : memmap[a].length \in Nat
      BY Maps DEF Entry
    <2>4. QED
      BY <1>1, <2>1, <2>2, <2>3 DEF BootInv, StackType, Shrunk
  <1>5. CASE PushPage
    BY <1>1, <1>5, PushPageKeepsBootInv
  <1>6. CASE NextEntry
    BY <1>1, <1>6, NextEntryKeepsBootInv
  <1>7. CASE PushDone
    <2>1. /\ phase = "push" /\ phase' = "ready"
          /\ UNCHANGED <<memmap, ent, off, pm_stack, pm_stack_base, pm_stack_idx, pm_total_pages>>
      BY <1>7 DEF PushDone, pmm_memory, pmm_loops
    <2>2. Distinct' /\ FreePages' = FreePages
      BY <2>1 DEF BootInv, Distinct, FreePages, FreeSlots
    <2>3. FreePages \subseteq UsablePages(bootmap)
      BY <2>1, ReachedIsUsable DEF BootInv
    <2>4. UsablePages(bootmap)' = UsablePages(bootmap)
      BY <1>1 DEF UsablePages, EntryPages
    <2>5. QED
      BY <1>1, <2>1, <2>2, <2>3, <2>4 DEF BootInv, StackType, Shrunk
  <1>8. QED
    BY <1>2, <1>3, <1>4, <1>5, <1>6, <1>7 DEF pmm_init

-----------------------------------------------------------------------------
(* pmm_request_pages(1) and pmm_free_pages(p, 1) on a ready allocator.     *)
SamePool == UNCHANGED <<phase, bootmap, pm_stack_base, pm_total_pages>>

LEMMA GrantOne ==
  ASSUME BootInv, pmm_request_pages(1), CanGrant(1)
  PROVE  /\ BootInv' /\ SamePool /\ phase = "ready" /\ pm_stack_base # NULL
         /\ Granted(1) \in FreePages
         /\ FreePages' = FreePages \ {Granted(1)}
  <1>1. /\ phase = "ready" /\ SamePool
        /\ UNCHANGED <<memmap, pm_total_pages, ent, off, pm_stack>>
        /\ pm_stack_idx \in Nat \ {0} /\ pm_stack_idx' = pm_stack_idx - 1
    BY DEF pmm_request_pages, CanGrant, BootInv, StackType, SamePool, pmm_memory, pmm_loops
  <1>2. pm_stack_base # NULL
    BY <1>1 DEF BootInv, StackType
  <1>3. /\ FreeSlots = FreeSlots' \cup {pm_stack_idx - 1}
        /\ pm_stack_idx - 1 \notin FreeSlots'
    BY <1>1 DEF FreeSlots
  <1>4. Distinct' /\ Granted(1) \in FreePages /\ FreePages' = FreePages \ {Granted(1)}
    BY <1>1, <1>3 DEF BootInv, Distinct, FreePages, Granted
  <1>5. StackType'
    <2>1. pm_stack_idx <= pm_total_pages /\ pm_total_pages \in Nat
      BY <1>1, <1>2 DEF BootInv, StackType
    <2>2. pm_stack_idx' \in Nat /\ pm_stack_idx' <= pm_total_pages
      BY <1>1, <2>1
    <2>3. QED
      BY <1>1, <1>2, <2>2 DEF BootInv, StackType, SamePool
  <1>6. UsablePages(bootmap)' = UsablePages(bootmap)
    BY <1>1 DEF UsablePages, EntryPages, SamePool
  <1>7. QED
    BY <1>1, <1>2, <1>4, <1>5, <1>6 DEF BootInv, Shrunk, SamePool

LEMMA FreeOne ==
  ASSUME BootInv, NEW p \in UsablePages(bootmap) \ FreePages,
         pm_stack_base # NULL, pmm_free_pages(p, 1)
  PROVE  /\ BootInv' /\ SamePool /\ phase = "ready"
         /\ FreePages' \subseteq FreePages \cup {p}
         /\ pm_stack_idx < pm_total_pages => FreePages' = FreePages \cup {p}
  <1>1. p \in Nat /\ p # NULL
    BY UsableIsNotNull
  <1>2. /\ pm_stack_idx \in Nat /\ pm_total_pages \in Nat /\ pm_stack_idx <= pm_total_pages
        /\ pm_stack \in [0 .. pm_total_pages - 1 -> Nat]
    BY DEF BootInv, StackType
  <1>3. /\ phase = "ready" /\ SamePool
        /\ UNCHANGED <<memmap, pm_total_pages, ent, off>>
    BY <1>1 DEF pmm_free_pages, SamePool, pmm_memory, pmm_loops
  <1>4. UsablePages(bootmap)' = UsablePages(bootmap)
    BY <1>3 DEF UsablePages, EntryPages, SamePool
  <1>5. CASE pm_stack_idx < pm_total_pages
    <2>1. (IF 1 <= pm_total_pages - pm_stack_idx THEN 1 ELSE pm_total_pages - pm_stack_idx) = 1
      BY <1>2, <1>5
    <2>2. pm_stack' = PushRun(p, 1) /\ pm_stack_idx' = pm_stack_idx + 1
      BY <1>1, <2>1 DEF pmm_free_pages
    <2>3. Pages(pm_stack_idx, 1) = {pm_stack_idx}
      BY <1>2 DEF Pages
    <2>4. pm_stack' = [s \in 0 .. pm_total_pages - 1 |-> IF s = pm_stack_idx THEN p ELSE pm_stack[s]]
      <3>1. pm_stack' = [s \in 0 .. pm_total_pages - 1 |->
                           IF s = pm_stack_idx THEN p + (s - pm_stack_idx) ELSE pm_stack[s]]
        BY <1>2, <2>2, <2>3 DEF PushRun
      <3>2. p + (pm_stack_idx - pm_stack_idx) = p
        BY <1>1, <1>2
      <3>3. QED
        BY <3>1, <3>2
    <2>5. /\ pm_stack' \in [0 .. pm_total_pages - 1 -> Nat]
          /\ pm_stack'[pm_stack_idx] = p
          /\ \A s \in FreeSlots : pm_stack'[s] = pm_stack[s]
      BY <1>1, <1>2, <1>5, <2>4 DEF FreeSlots
    <2>6. Distinct' /\ FreePages' = FreePages \cup {p}
      BY <1>2, <1>3, <2>2, <2>5, PushOne DEF BootInv
    <2>7. StackType'
      BY <1>2, <1>3, <1>5, <2>2, <2>5 DEF StackType, SamePool
    <2>8. QED
      BY <1>3, <1>4, <2>6, <2>7 DEF BootInv, Shrunk, SamePool
  <1>6. CASE pm_stack_idx = pm_total_pages
    <2>1. (IF 1 <= pm_total_pages - pm_stack_idx THEN 1 ELSE pm_total_pages - pm_stack_idx) = 0
      BY <1>2, <1>6
    <2>2. pm_stack' = PushRun(p, 0) /\ pm_stack_idx' = pm_stack_idx + 0
      BY <1>1, <2>1 DEF pmm_free_pages
    <2>3. Pages(pm_stack_idx, 0) = {} /\ pm_stack_idx' = pm_stack_idx
      BY <1>2, <2>2 DEF Pages
    <2>4. pm_stack' = pm_stack
      BY <1>2, <2>2, <2>3 DEF PushRun
    <2>5. Distinct' /\ FreePages' = FreePages
      BY <1>3, <2>3, <2>4 DEF BootInv, Distinct, FreePages, FreeSlots
    <2>6. QED
      BY <1>2, <1>3, <1>4, <1>6, <2>3, <2>4, <2>5 DEF BootInv, Shrunk, SamePool, StackType
  <1>7. QED
    BY <1>2, <1>5, <1>6
-----------------------------------------------------------------------------
(* How the tables move when one entry, or one page, of memory does.        *)
LEMMA VirtType ==
  /\ \A v \in Virts : v = [k \in 1 .. 4 |-> v[k]] /\ \A k \in 1 .. 4 : v[k] \in Index
  /\ \E v : v \in Virts
  BY VirtsAssumption

LEMMA NodeStep ==
  ASSUME NEW v
  PROVE  /\ Node(v, 1) = root
         /\ \A k \in 1 .. 3 : Node(v, k + 1) = Down(Node(v, k), v[k])
         /\ PageTable(v) = Node(v, 4)
  <1>1. \A k \in 1 .. 3 : k = 1 \/ k = 2 \/ k = 3
    OBVIOUS
  <1>2. QED
    BY <1>1 DEF Node, PageTable

LEMMA NodeStepPrimed ==
  ASSUME NEW v
  PROVE  /\ Node(v, 1)' = root'
         /\ \A k \in 1 .. 3 :
              Node(v, k + 1)' =
                IF Node(v, k)' # NULL /\ memory'[Node(v, k)'][v[k]].present
                THEN memory'[Node(v, k)'][v[k]].page ELSE NULL
         /\ PageTable(v)' = Node(v, 4)'
  <1>1. \A k \in 1 .. 3 : k = 1 \/ k = 2 \/ k = 3
    OBVIOUS
  <1>2. QED
    BY <1>1 DEF Node, PageTable, Down

LEMMA SamePathStep ==
  ASSUME NEW v, NEW w
  PROVE  /\ SamePath(v, w, 1)
         /\ \A k \in 1 .. 3 : SamePath(v, w, k + 1) <=> SamePath(v, w, k) /\ v[k] = w[k]
  <1>1. \A k \in 1 .. 3 : k + 1 - 1 = k /\ 1 .. k = (1 .. k - 1) \cup {k}
    OBVIOUS
  <1>2. QED
    BY <1>1 DEF SamePath

LEMMA PathDecides ==
  ASSUME NEW v, NEW w
  PROVE  \A k \in 1 .. 4 : SamePath(v, w, k) => Node(v, k) = Node(w, k)
  <1> DEFINE Same(k) == SamePath(v, w, k) => Node(v, k) = Node(w, k)
  <1>1. Same(1)
    BY NodeStep
  <1>2. ASSUME NEW k \in 1 .. 3, Same(k) PROVE Same(k + 1)
    BY <1>2, NodeStep, SamePathStep
  <1> HIDE DEF Same
  <1>3. Same(1) /\ Same(1 + 1) /\ Same(1 + 1 + 1) /\ Same(1 + 1 + 1 + 1)
    BY <1>1, <1>2
  <1>4. \A k \in 1 .. 4 : Same(k)
    BY <1>3
  <1>5. QED
    BY <1>4 DEF Same

LEMMA WholePath ==
  ASSUME NEW v \in Virts, NEW w \in Virts, SamePath(v, w, 4), v[4] = w[4]
  PROVE  v = w
  <1>1. v[1] = w[1] /\ v[2] = w[2] /\ v[3] = w[3] /\ v[4] = w[4]
    BY DEF SamePath
  <1>2. \A k \in 1 .. 4 : v[k] = w[k]
    BY <1>1
  <1>3. QED
    BY <1>2, VirtType

NodesKept == \A v \in Virts : \A d \in 1 .. 4 : Node(v, d)' = Node(v, d)

NodesGrow ==
  \A v \in Virts : \A d \in 1 .. 4 : Node(v, d) # NULL => Node(v, d)' = Node(v, d)

MappingsKept == \A v \in Virts : Mapping(v)' = Mapping(v)

(* Nothing moves but entries that no walk passes on its way down.          *)
LEMMA OffThePath ==
  ASSUME root' = root, NEW v,
         \A k \in 1 .. 3 : Node(v, k) # NULL =>
           memory'[Node(v, k)][v[k]] = memory[Node(v, k)][v[k]]
  PROVE  \A d \in 1 .. 4 : Node(v, d)' = Node(v, d)
  <1> DEFINE Kept(k) == Node(v, k)' = Node(v, k)
  <1>1. Kept(1)
    BY NodeStep, NodeStepPrimed
  <1>2. ASSUME NEW k \in 1 .. 3, Kept(k) PROVE Kept(k + 1)
    BY <1>2, NodeStep, NodeStepPrimed DEF Down
  <1> HIDE DEF Kept
  <1>3. Kept(1) /\ Kept(1 + 1) /\ Kept(1 + 1 + 1) /\ Kept(1 + 1 + 1 + 1)
    BY <1>1, <1>2
  <1>4. \A k \in 1 .. 4 : Kept(k)
    BY <1>3
  <1>5. QED
    BY <1>4 DEF Kept

LEMMA MappingPrimed ==
  ASSUME NEW v
  PROVE  /\ Mapping(v) = IF Node(v, 4) = NULL THEN Zero ELSE memory[Node(v, 4)][v[4]]
         /\ Mapping(v)' = IF Node(v, 4)' = NULL THEN Zero ELSE memory'[Node(v, 4)'][v[4]]
  BY NodeStep, NodeStepPrimed DEF Mapping

(* A page that is no table is written. *)
LEMMA PageWrite ==
  ASSUME MemoryType, TreeInv, UNCHANGED <<root, bootmap>>, NEW p \in UsablePages(bootmap),
         \A v \in Virts : \A d \in 1 .. 4 : Node(v, d) # p,
         memory' = [memory EXCEPT ![p] = ZeroPage]
  PROVE  MemoryType' /\ TreeInv' /\ NodesKept /\ MappingsKept
  <1>0. ZeroPage \in [Index -> Entries]
    BY DEF ZeroPage, Zero, NULL, Entries
  <1>u. UsablePages(bootmap)' = UsablePages(bootmap)
    BY DEF UsablePages, EntryPages
  <1>n. \A v \in Virts : \A d \in 1 .. 4 : Node(v, d) # NULL => Node(v, d) \in UsablePages(bootmap)
    BY DEF TreeInv
  <1>1. \A q \in UsablePages(bootmap) \ {p} : memory'[q] = memory[q]
    BY DEF MemoryType
  <1>2. \A v \in Virts : \A d \in 1 .. 4 : Node(v, d)' = Node(v, d)
    BY <1>n, <1>1, OffThePath
  <1>3. \A v \in Virts : Mapping(v)' = Mapping(v)
    BY <1>n, <1>1, <1>2, MappingPrimed
  <1>4. MemoryType'
    BY <1>0, <1>u DEF MemoryType, Entries
  <1>5. TreeInv'
    BY <1>n, <1>1, <1>2, <1>u DEF TreeInv
  <1>6. QED
    BY <1>2, <1>3, <1>4, <1>5 DEF NodesKept, MappingsKept

(* An entry of a page table is written. *)
LEMMA LeafWrite ==
  ASSUME MemoryType, TreeInv, UNCHANGED <<root, bootmap>>, NEW v0 \in Virts, NEW e \in Entries,
         Node(v0, 4) # NULL,
         memory' = [memory EXCEPT ![Node(v0, 4)][v0[4]] = e]
  PROVE  /\ MemoryType' /\ TreeInv' /\ NodesKept
         /\ Mapping(v0)' = e
         /\ \A w \in Virts \ {v0} : Mapping(w)' = Mapping(w)
  <1>p. PICK p : p = Node(v0, 4)
    OBVIOUS
  <1>u. UsablePages(bootmap)' = UsablePages(bootmap)
    BY DEF UsablePages, EntryPages
  <1>0. /\ p \in UsablePages(bootmap) /\ v0[4] \in Index
        /\ memory' = [memory EXCEPT ![p][v0[4]] = e]
    BY <1>p, VirtType DEF TreeInv
  <1> DEFINE row == [memory[p] EXCEPT ![v0[4]] = e]
  <1>a. /\ row \in [Index -> Entries] /\ row[v0[4]] = e
        /\ \A i \in Index : i # v0[4] => row[i] = memory[p][i]
    BY <1>0 DEF MemoryType, Entries
  <1>b. memory' = [memory EXCEPT ![p] = row]
    BY <1>0
  <1> HIDE DEF row
  <1>n. \A v \in Virts : \A d \in 1 .. 4 : Node(v, d) # NULL => Node(v, d) \in UsablePages(bootmap)
    BY DEF TreeInv
  <1>1. /\ \A q \in UsablePages(bootmap) \ {p} : memory'[q] = memory[q]
        /\ \A i \in Index : i # v0[4] => memory'[p][i] = memory[p][i]
        /\ memory'[p][v0[4]] = e
    BY <1>0, <1>a, <1>b DEF MemoryType
  <1>2. \A v \in Virts : \A d \in 1 .. 3 : Node(v, d) # NULL => Node(v, d) # p
    BY <1>p DEF TreeInv
  <1>3. \A v \in Virts : \A d \in 1 .. 4 : Node(v, d)' = Node(v, d)
    BY <1>n, <1>1, <1>2, OffThePath
  <1>4. MemoryType'
    BY <1>a, <1>b, <1>u DEF MemoryType, Entries
  <1>5. TreeInv'
    BY <1>n, <1>1, <1>2, <1>3, <1>u DEF TreeInv
  <1>6. Mapping(v0)' = e
    BY <1>p, <1>1, <1>3, MappingPrimed
  <1>7. ASSUME NEW w \in Virts \ {v0} PROVE Mapping(w)' = Mapping(w)
    <2>1. CASE Node(w, 4) = p
      <3>1. SamePath(w, v0, 4)
        BY <1>p, <2>1 DEF TreeInv
      <3>2. w[4] # v0[4]
        BY <3>1, WholePath
      <3>3. QED
        BY <1>p, <1>0, <1>1, <1>3, <2>1, <3>2, MappingPrimed, VirtType
    <2>2. CASE Node(w, 4) # p
      BY <1>n, <1>1, <1>3, <2>2, MappingPrimed
    <2>3. QED
      BY <2>1, <2>2
  <1>8. QED
    BY <1>3, <1>4, <1>5, <1>6, <1>7 DEF NodesKept

(* A new table p is linked below a table that had nothing there. *)
LEMMA LinkWrite ==
  ASSUME MemoryType, TreeInv, UNCHANGED <<root, bootmap>>, NEW v0 \in Virts, NEW d0 \in 1 .. 3,
         NEW p \in UsablePages(bootmap), p # NULL, p \in Nat,
         \A v \in Virts : \A d \in 1 .. 4 : Node(v, d) # p,
         memory[p] = ZeroPage,
         Node(v0, d0) # NULL, ~memory[Node(v0, d0)][v0[d0]].present,
         memory' = [memory EXCEPT ![Node(v0, d0)][v0[d0]] = Link(p)]
  PROVE  /\ MemoryType' /\ TreeInv' /\ NodesGrow /\ MappingsKept
         /\ \A v \in Virts : \A d \in 1 .. 4 :
              Node(v, d)' = IF d = d0 + 1 /\ SamePath(v, v0, d) THEN p ELSE Node(v, d)
  <1>t. PICK t : t = Node(v0, d0)
    OBVIOUS
  <1>u. UsablePages(bootmap)' = UsablePages(bootmap)
    BY DEF UsablePages, EntryPages
  <1>0. /\ t \in UsablePages(bootmap) /\ v0[d0] \in Index /\ t # p /\ t # NULL
        /\ memory' = [memory EXCEPT ![t][v0[d0]] = Link(p)]
        /\ Link(p) \in Entries /\ Link(p).present /\ Link(p).page = p
    BY <1>t, VirtType DEF TreeInv, Link, Entries
  <1> DEFINE row == [memory[t] EXCEPT ![v0[d0]] = Link(p)]
  <1>a. /\ row \in [Index -> Entries] /\ row[v0[d0]] = Link(p)
        /\ \A i \in Index : i # v0[d0] => row[i] = memory[t][i]
    BY <1>0 DEF MemoryType, Entries
  <1>b. memory' = [memory EXCEPT ![t] = row]
    BY <1>0
  <1> HIDE DEF row
  <1>n. \A v \in Virts : \A d \in 1 .. 4 : Node(v, d) # NULL => Node(v, d) \in UsablePages(bootmap)
    BY DEF TreeInv
  <1>c. /\ \A q \in UsablePages(bootmap) \ {t} : memory'[q] = memory[q]
        /\ \A i \in Index : i # v0[d0] => memory'[t][i] = memory[t][i]
        /\ memory'[t][v0[d0]] = Link(p)
    BY <1>0, <1>a, <1>b DEF MemoryType
  <1>d. memory'[p] = ZeroPage
    BY <1>0, <1>c
  <1>1. /\ \A q \in UsablePages(bootmap) \ {t} : memory'[q] = memory[q]
        /\ \A i \in Index : i # v0[d0] => memory'[t][i] = memory[t][i]
        /\ memory'[t][v0[d0]] = Link(p)
        /\ \A i \in Index : memory'[p][i] = Zero /\ ~Zero.present
    BY <1>c, <1>d DEF ZeroPage, Zero
  <1>2. \A v \in Virts : \A d \in 1 .. 4 : Node(v, d) = t => d = d0 /\ SamePath(v, v0, d0)
    BY <1>t, <1>0 DEF TreeInv
  <1> DEFINE New(v, d) == Node(v, d)' = IF d = d0 + 1 /\ SamePath(v, v0, d) THEN p ELSE Node(v, d)
  <1>3. ASSUME NEW v \in Virts PROVE \A d \in 1 .. 4 : New(v, d)
    <2>1. New(v, 1)
      BY NodeStep, NodeStepPrimed
    <2>2. ASSUME NEW k \in 1 .. 3, New(v, k) PROVE New(v, k + 1)
      <3>1. CASE k = d0 /\ SamePath(v, v0, k + 1)
        <4>1. SamePath(v, v0, k) /\ v[k] = v0[k]
          BY <3>1, SamePathStep
        <4>2. Node(v, k) = t
          BY <1>t, <3>1, <4>1, PathDecides
        <4>3. Node(v, k)' = t
          BY <2>2, <3>1, <4>2
        <4>4. Node(v, k + 1)' = p
          BY <1>0, <1>1, <3>1, <4>1, <4>3, NodeStepPrimed
        <4>5. QED
          BY <3>1, <4>4
      <3>2. CASE k = d0 + 1 /\ SamePath(v, v0, k)
        <4>1. Node(v, k)' = p
          BY <2>2, <3>2
        <4>2. Node(v, k + 1)' = NULL
          BY <1>1, <4>1, NodeStepPrimed, VirtType
        <4>3. SamePath(v, v0, d0) /\ v[d0] = v0[d0]
          BY <3>2, SamePathStep
        <4>4. Node(v, d0) = t
          BY <1>t, <4>3, PathDecides
        <4>5. Node(v, k) = NULL
          BY <1>t, <3>2, <4>3, <4>4, NodeStep DEF Down
        <4>6. Node(v, k + 1) = NULL
          BY <4>5, NodeStep DEF Down
        <4>7. QED
          BY <3>2, <4>2, <4>6
      <3>3. CASE ~(k = d0 /\ SamePath(v, v0, k + 1)) /\ ~(k = d0 + 1 /\ SamePath(v, v0, k))
        <4>1. Node(v, k)' = Node(v, k)
          BY <2>2, <3>3
        <4>2. Node(v, k) = t => v[k] # v0[d0]
          BY <1>2, <3>3, SamePathStep
        <4>3. Node(v, k) # NULL => memory'[Node(v, k)][v[k]] = memory[Node(v, k)][v[k]]
          BY <1>n, <1>1, <4>2, VirtType
        <4>4. Node(v, k + 1)' = Node(v, k + 1)
          BY <4>1, <4>3, NodeStep, NodeStepPrimed DEF Down
        <4>5. QED
          BY <3>3, <4>4
      <3>4. QED
        BY <3>1, <3>2, <3>3
    <2> HIDE DEF New
    <2>3. New(v, 1) /\ New(v, 1 + 1) /\ New(v, 1 + 1 + 1) /\ New(v, 1 + 1 + 1 + 1)
      BY <2>1, <2>2
    <2>4. QED
      BY <2>3
  <1>4. \A v \in Virts : \A d \in 1 .. 4 :
          d = d0 + 1 /\ SamePath(v, v0, d) => Node(v, d) = NULL
    <2>1. ASSUME NEW v \in Virts, SamePath(v, v0, d0 + 1) PROVE Node(v, d0 + 1) = NULL
      <3>1. SamePath(v, v0, d0) /\ v[d0] = v0[d0]
        BY <2>1, SamePathStep
      <3>2. Node(v, d0) = t
        BY <1>t, <3>1, PathDecides
      <3>3. QED
        BY <1>t, <3>1, <3>2, NodeStep DEF Down
    <2>2. QED
      BY <2>1
  <1>5. NodesGrow
    BY <1>3, <1>4 DEF NodesGrow
  <1>6. MappingsKept
    <2>1. ASSUME NEW v \in Virts PROVE Mapping(v)' = Mapping(v)
      <3>1. CASE 4 = d0 + 1 /\ SamePath(v, v0, 4)
        <4>1. Node(v, 4)' = p /\ Node(v, 4) = NULL
          BY <1>3, <1>4, <3>1
        <4>2. QED
          BY <1>1, <4>1, MappingPrimed, VirtType
      <3>2. CASE ~(4 = d0 + 1 /\ SamePath(v, v0, 4))
        <4>1. Node(v, 4)' = Node(v, 4)
          BY <1>3, <3>2
        <4>2. Node(v, 4) # t
          BY <1>2
        <4>3. QED
          BY <1>n, <1>1, <4>1, <4>2, MappingPrimed
      <3>3. QED
        BY <3>1, <3>2
    <2>2. QED
      BY <2>1 DEF MappingsKept
  <1>7. MemoryType'
    BY <1>a, <1>b, <1>u DEF MemoryType, Entries
  <1>8. TreeInv'
    <2>1. \A v \in Virts, d \in 1 .. 4 : Node(v, d)' # NULL => Node(v, d)' \in UsablePages(bootmap)
      BY <1>3 DEF TreeInv
    <2>2. ASSUME NEW v \in Virts, NEW w \in Virts, NEW d \in 1 .. 4, NEW e \in 1 .. 4,
                 Node(v, d)' = Node(w, e)', Node(v, d)' # NULL
          PROVE  d = e /\ SamePath(v, w, d)
      <3>1. CASE d = d0 + 1 /\ SamePath(v, v0, d)
        <4>1. Node(w, e)' = p
          BY <1>3, <2>2, <3>1
        <4>2. e = d0 + 1 /\ SamePath(w, v0, e)
          BY <1>3, <4>1
        <4>3. QED
          BY <3>1, <4>2 DEF SamePath
      <3>2. CASE ~(d = d0 + 1 /\ SamePath(v, v0, d))
        <4>1. Node(v, d)' = Node(v, d)
          BY <1>3, <3>2
        <4>2. Node(w, e)' = Node(w, e)
          BY <1>3, <2>2, <4>1
        <4>3. QED
          BY <2>2, <4>1, <4>2 DEF TreeInv
      <3>3. QED
        BY <3>1, <3>2
    <2>3. ASSUME NEW v \in Virts, NEW d \in 1 .. 3, NEW i \in Index,
                 Node(v, d)' # NULL, memory'[Node(v, d)'][i].present
          PROVE  /\ memory'[Node(v, d)'][i].page # NULL
                 /\ \E w \in Virts : SamePath(v, w, d) /\ w[d] = i
      <3>1. CASE d = d0 + 1 /\ SamePath(v, v0, d)
        BY <1>1, <1>3, <2>3, <3>1
      <3>2. CASE ~(d = d0 + 1 /\ SamePath(v, v0, d))
        <4>1. Node(v, d)' = Node(v, d)
          BY <1>3, <3>2
        <4>2. CASE Node(v, d) = t /\ i = v0[d0]
          <5>1. d = d0 /\ SamePath(v, v0, d)
            BY <1>2, <4>2
          <5>2. memory'[Node(v, d)'][i].page = p
            BY <1>0, <1>1, <4>1, <4>2
          <5>3. QED
            BY <4>2, <5>1, <5>2
        <4>3. CASE ~(Node(v, d) = t /\ i = v0[d0])
          <5>1. memory'[Node(v, d)'][i] = memory[Node(v, d)][i]
            BY <1>n, <1>1, <2>3, <4>1, <4>3
          <5>2. QED
            BY <2>3, <4>1, <5>1 DEF TreeInv
        <4>4. QED
          BY <4>2, <4>3
      <3>3. QED
        BY <3>1, <3>2
    <2>4. QED
      BY <1>u, <2>1, <2>2, <2>3 DEF TreeInv
  <1>9. QED
    BY <1>3, <1>5, <1>6, <1>7, <1>8
-----------------------------------------------------------------------------
(* What the threads see of the tables. *)
TreeGrows ==
  \A v \in Virts : \A d \in 1 .. 4 : Tree[v][d] # NULL => Tree'[v][d] = Tree[v][d]

LEMMA Views ==
  /\ \A v \in Virts : \A d \in 1 .. 4 : Tree[v][d] = Node(v, d) /\ Tree'[v][d] = Node(v, d)'
  /\ \A v \in Virts : Flat[v] = Mapping(v) /\ Flat'[v] = Mapping(v)'
  BY DEF Tree, Flat

LEMMA ViewsKept ==
  /\ NodesKept => Tree' = Tree
  /\ NodesGrow => TreeGrows
  /\ MappingsKept => Flat' = Flat
  BY DEF Tree, Flat, NodesKept, NodesGrow, MappingsKept, TreeGrows

LEMMA PoolSame ==
  ASSUME BootInv, UNCHANGED pmm_vars
  PROVE  /\ BootInv' /\ FreePages' = FreePages /\ phase' = phase /\ pm_stack_base' = pm_stack_base
         /\ UsablePages(bootmap)' = UsablePages(bootmap)
  <1>1. /\ UNCHANGED <<phase, bootmap, memmap, ent, off, pm_stack_base, pm_stack_idx, pm_total_pages>>
        /\ pm_stack' = pm_stack
    BY DEF pmm_vars, pmm_memory, pmm_counts, pmm_loops
  <1>2. FreeSlots' = FreeSlots
    BY <1>1 DEF FreeSlots
  <1>3. FreePages' = FreePages /\ (Distinct' <=> Distinct)
    BY <1>1, <1>2 DEF FreePages, Distinct
  <1>4. UsablePages(bootmap)' = UsablePages(bootmap)
    BY <1>1 DEF UsablePages, EntryPages
  <1>5. \A p : Reached(p)' <=> Reached(p)
    BY <1>1 DEF Reached, EntryPages
  <1>6. (Shrunk' <=> Shrunk) /\ (StackType' <=> StackType)
    BY <1>1 DEF Shrunk, StackType
  <1>7. QED
    BY <1>1, <1>3, <1>4, <1>5, <1>6 DEF BootInv

LEMMA MemorySame ==
  ASSUME MemoryType, TreeInv, UNCHANGED <<root, memory, bootmap>>
  PROVE  /\ MemoryType' /\ TreeInv' /\ Tree' = Tree /\ Flat' = Flat
  <1>u. UsablePages(bootmap)' = UsablePages(bootmap)
    BY DEF UsablePages, EntryPages
  <1>1. \A v \in Virts : \A d \in 1 .. 4 : Node(v, d)' = Node(v, d)
    BY OffThePath
  <1>2. \A v \in Virts : Mapping(v)' = Mapping(v)
    BY <1>1, MappingPrimed
  <1>3. TreeInv'
    BY <1>u, <1>1 DEF TreeInv
  <1>4. QED
    BY <1>u, <1>1, <1>2, <1>3, ViewsKept DEF MemoryType, NodesKept, MappingsKept

(* vmm_init: the first table. *)
LEMMA RootWrite ==
  ASSUME MemoryType, bootmap' = bootmap, root = NULL, NEW p \in UsablePages(bootmap), p # NULL,
         root' = p, memory' = [memory EXCEPT ![p] = ZeroPage]
  PROVE  /\ MemoryType' /\ TreeInv'
         /\ \A v \in Virts : \A d \in 1 .. 4 :
              Tree[v][d] = NULL /\ Tree'[v][d] = IF d = 1 THEN p ELSE NULL
         /\ \A v \in Virts : Flat[v] = Zero /\ Flat'[v] = Zero
  <1>0. ZeroPage \in [Index -> Entries] /\ \A i \in Index : ZeroPage[i] = Zero /\ ~Zero.present
    BY DEF ZeroPage, Zero, NULL, Entries
  <1>u. UsablePages(bootmap)' = UsablePages(bootmap)
    BY DEF UsablePages, EntryPages
  <1>1. memory'[p] = ZeroPage
    BY DEF MemoryType
  <1>2. ASSUME NEW v \in Virts
        PROVE  /\ Node(v, 1) = NULL /\ Node(v, 2) = NULL /\ Node(v, 3) = NULL /\ Node(v, 4) = NULL
               /\ Node(v, 1)' = p /\ Node(v, 2)' = NULL /\ Node(v, 3)' = NULL /\ Node(v, 4)' = NULL
    <2>1. Node(v, 1) = NULL /\ Node(v, 1 + 1) = NULL /\ Node(v, 2 + 1) = NULL
          /\ Node(v, 3 + 1) = NULL
      BY NodeStep DEF Down
    <2>2. v[1] \in Index
      BY VirtType
    <2>3. Node(v, 1)' = p /\ Node(v, 1 + 1)' = NULL
      BY <1>0, <1>1, <2>2, NodeStepPrimed
    <2>4. Node(v, 2 + 1)' = NULL
      BY <2>3, NodeStepPrimed
    <2>5. Node(v, 3 + 1)' = NULL
      BY <2>4, NodeStepPrimed
    <2>6. QED
      BY <2>1, <2>3, <2>4, <2>5
  <1>3. \A v \in Virts : \A d \in 1 .. 4 : Node(v, d) = NULL /\ Node(v, d)' = IF d = 1 THEN p ELSE NULL
    BY <1>2
  <1>4. \A v \in Virts : Mapping(v) = Zero /\ Mapping(v)' = Zero
    BY <1>2, MappingPrimed
  <1>5. MemoryType'
    BY <1>0, <1>u DEF MemoryType, Entries
  <1>6. TreeInv'
    BY <1>0, <1>1, <1>3, <1>u, SamePathStep DEF TreeInv
  <1>7. QED
    BY <1>3, <1>4, <1>5, <1>6, Views

(* A thread in the tables. *)
LEMMA WalkFacts ==
  ASSUME TableInv, NEW t \in Threads, pc[t] \in {"walk", "zero", "link", "clear"}
  PROVE  /\ call[t] \in Calls /\ Virt(t) \in Virts /\ depth[t] \in 1 .. 4
         /\ table[t] = Node(Virt(t), depth[t]) /\ table[t] # NULL
         /\ table[t] \in UsablePages(bootmap) /\ Virt(t)[depth[t]] \in Index
         /\ Slot(t) \in Entries
         /\ depth[t] = 4 => Slot(t) = Flat[Virt(t)]
         /\ depth[t] < 4 /\ Slot(t).present =>
              Slot(t).page # NULL /\ Slot(t).page = Tree[Virt(t)][depth[t] + 1]
  <1>1. call[t] \in Calls /\ table[t] # NULL /\ table[t] = Tree[Virt(t)][depth[t]]
    BY DEF TableInv, CallInv
  <1>2. Virt(t) \in Virts /\ depth[t] \in 1 .. 4
    BY <1>1 DEF TableInv, ThreadType, Virt, Calls
  <1>3. table[t] = Node(Virt(t), depth[t])
    BY <1>1, <1>2, Views
  <1>4. table[t] \in UsablePages(bootmap) /\ Virt(t)[depth[t]] \in Index
    BY <1>1, <1>2, <1>3, VirtType DEF TableInv, TreeInv
  <1>5. Slot(t) \in Entries
    BY <1>4 DEF TableInv, MemoryType, Slot, Entries
  <1>6. depth[t] = 4 => Slot(t) = Flat[Virt(t)]
    BY <1>1, <1>2, <1>3, Views, MappingPrimed DEF Slot
  <1>7. ASSUME depth[t] < 4, Slot(t).present
        PROVE Slot(t).page # NULL /\ Slot(t).page = Tree[Virt(t)][depth[t] + 1]
    <2>1. depth[t] \in 1 .. 3 /\ depth[t] + 1 \in 1 .. 4
      BY <1>2, <1>7
    <2>2. Slot(t).page # NULL
      BY <1>1, <1>2, <1>3, <1>4, <1>7, <2>1 DEF TableInv, TreeInv, Slot
    <2>3. Slot(t).page = Node(Virt(t), depth[t] + 1)
      BY <1>1, <1>2, <1>3, <1>7, <2>1, NodeStep DEF Down, Slot
    <2>4. QED
      BY <1>2, <2>1, <2>2, <2>3, Views
  <1>8. QED
    BY <1>1, <1>2, <1>3, <1>4, <1>5, <1>6, <1>7

-----------------------------------------------------------------------------
(* A step of one thread, seen by the others. *)
Still(u) ==
  /\ pc'[u] = pc[u] /\ call'[u] = call[u] /\ table'[u] = table[u] /\ depth'[u] = depth[u]
  /\ fresh'[u] = fresh[u] /\ frame'[u] = frame[u] /\ mapped'[u] = mapped[u]

LEMMA StillKeepsCall ==
  ASSUME NEW u \in Threads, ThreadType, CallInv(u), Still(u),
         root # NULL => root' = root /\ TreeGrows,
         pc[u] \in {"zero", "link"} => memory' = memory
  PROVE  CallInv(u)'
  <1>1. CASE pc[u] = "idle"
    BY <1>1 DEF Still, CallInv
  <1>2. CASE pc[u] # "idle"
    <2>1. call[u] \in Calls /\ root # NULL /\ root' = root /\ TreeGrows
      BY <1>2 DEF CallInv
    <2>2. Virt(u) \in Virts /\ depth[u] \in 1 .. 4
      BY <2>1 DEF ThreadType, Virt, Calls
    <2>3. Virt(u)' = Virt(u)
      BY DEF Still, Virt
    <2>4. pc[u] \in {"walk", "zero", "link", "clear"} =>
            Tree'[Virt(u)'][depth'[u]] = Tree[Virt(u)][depth[u]]
      BY <2>1, <2>2, <2>3 DEF Still, CallInv, TreeGrows
    <2>5. pc[u] \in {"zero", "link"} =>
            Slot(u)' = Slot(u) /\ memory'[fresh'[u]] = memory[fresh[u]]
      BY <2>3 DEF Still, Slot
    <2>6. QED
      BY <2>1, <2>3, <2>4, <2>5 DEF Still, CallInv
  <1>3. QED
    BY <1>1, <1>2

LEMMA LockKept ==
  ASSUME LockInv, NEW t \in Threads, map_lock' = map_lock,
         \A u \in Threads \ {t} : pc'[u] = pc[u] /\ call'[u] = call[u],
         Locked(t)' <=> Locked(t)
  PROVE  LockInv'
  <1>1. ASSUME NEW u \in Threads PROVE Locked(u)' <=> Locked(u)
    <2>1. CASE u = t
      BY <2>1
    <2>2. CASE u # t
      BY <2>2 DEF Locked
    <2>3. QED
      BY <2>1, <2>2
  <1>2. QED
    BY <1>1 DEF LockInv

(* Who holds the lock is the only one that writes tables. *)
LEMMA OneWriter ==
  ASSUME TableInv, NEW t \in Threads, Locked(t)
  PROVE  \A u \in Threads \ {t} : pc[u] \notin {"zero", "link", "clear"}
  BY DEF TableInv, LockInv, Locked

(* Nobody gets or gives up a page and no table changes. *)
Quiet(t) ==
  /\ UNCHANGED <<pmm_vars, root, memory, fresh, frame, mapped>>
  /\ pc[t] # "clear" /\ pc'[t] # "clear"
  /\ \A u \in Threads \ {t} : Still(u)

LEMMA QuietKeeps ==
  ASSUME TableInv, NEW t \in Threads, Quiet(t), root # NULL
  PROVE  /\ BootInv' /\ MemoryType' /\ RootInv' /\ TreeInv' /\ OwnerInv' /\ EntryInv'
         /\ Tree' = Tree /\ Flat' = Flat
         /\ \A u \in Threads \ {t} : CallInv(u)'
  <1>1. /\ BootInv' /\ FreePages' = FreePages /\ phase' = phase /\ pm_stack_base' = pm_stack_base
        /\ UsablePages(bootmap)' = UsablePages(bootmap)
    BY PoolSame DEF TableInv, Quiet
  <1>2. MemoryType' /\ TreeInv' /\ Tree' = Tree /\ Flat' = Flat
    BY MemorySame DEF TableInv, Quiet, pmm_vars, pmm_memory
  <1>3. RootInv'
    BY <1>1 DEF TableInv, RootInv, Quiet
  <1>4. /\ \A p : IsTable(p)' <=> IsTable(p)
        /\ \A v : Frame(v)' = Frame(v)
    BY <1>2 DEF IsTable, Frame
  <1>5. OwnerInv'
    <2>1. UsedInv'
      BY <1>1, <1>2 DEF TableInv, OwnerInv, UsedInv, Quiet, IsTable, Frame
    <2>2. FreshInv'
      BY <1>2 DEF TableInv, OwnerInv, FreshInv, Quiet, IsTable, Frame
    <2>3. FrameInv'
      BY <1>2 DEF TableInv, OwnerInv, FrameInv, Quiet, IsTable, Frame
    <2>4. QED
      BY <2>1, <2>2, <2>3 DEF OwnerInv
  <1>6. EntryInv'
    <2>1. \A u \in Threads : pc[u] = "clear" => pc'[u] = "clear" /\ Virt(u)' = Virt(u)
      BY DEF Quiet, Still, Virt
    <2>2. QED
      BY <1>2, <2>1 DEF TableInv, EntryInv, Quiet
  <1>7. ASSUME NEW u \in Threads \ {t} PROVE CallInv(u)'
    <2>1. TreeGrows /\ Still(u) /\ memory' = memory /\ root' = root
      BY <1>2 DEF TreeGrows, Quiet
    <2>2. QED
      BY <2>1, StillKeepsCall DEF TableInv
  <1>8. QED
    BY <1>1, <1>2, <1>3, <1>5, <1>6, <1>7

-----------------------------------------------------------------------------
(* The steps, one by one.  First those that leave pages and tables alone.  *)
LEMMA BeginKeeps ==
  ASSUME TableInv, NEW t \in Threads, NEW v \in Virts, NEW op \in {"map", "unmap", "virt2phys"},
         NEW free \in BOOLEAN, NEW e \in Entries, NEW start \in {"acquire", "walk"},
         start = "acquire" <=> op # "virt2phys",
         op = "map" => frame[t] # NULL /\ e = Link(frame[t]) /\ v \in Own[t] \ mapped[t],
         op = "unmap" => /\ free => v \in mapped[t]
                         /\ ~free => v \in Own[t] /\ (v \in mapped[t] => frame[t] = NULL),
         Begin(t, op, v, free, e, start)
  PROVE  TableInv'
  <1>1. /\ pc[t] = "idle" /\ root # NULL /\ pc' = [pc EXCEPT ![t] = start]
        /\ call' = [call EXCEPT ![t] = [op |-> op, virt |-> v, free |-> free, entry |-> e]]
        /\ table' = [table EXCEPT ![t] = root] /\ depth' = [depth EXCEPT ![t] = 1]
        /\ UNCHANGED <<pmm_vars, root, memory, map_lock, fresh, frame, mapped, answer>>
    BY DEF Begin, Idle, client_vars
  <1>2. ThreadType'
    <2>1. [op |-> op, virt |-> v, free |-> free, entry |-> e] \in Calls
      BY DEF Calls
    <2>2. QED
      BY <1>1, <2>1 DEF TableInv, ThreadType, RootInv, Places
  <1>3. /\ pc'[t] = start /\ table'[t] = root /\ depth'[t] = 1
        /\ call'[t] = [op |-> op, virt |-> v, free |-> free, entry |-> e]
        /\ \A u \in Threads \ {t} : Still(u)
    BY <1>1 DEF TableInv, ThreadType, Still
  <1>4. Quiet(t)
    BY <1>1, <1>3 DEF Quiet
  <1>5. LockInv'
    <2>1. ~Locked(t) /\ ~Locked(t)'
      BY <1>1, <1>3 DEF Locked
    <2>2. QED
      BY <1>1, <1>3, <2>1, LockKept DEF TableInv, Still
  <1>6. CallInv(t)'
    <2>1. Virt(t)' = v /\ call'[t] \in Calls
      BY <1>3 DEF Virt, Calls
    <2>2. Tree'[v][1] = root
      BY <1>1, Views, NodeStepPrimed
    <2>3. fresh'[t] = NULL
      BY <1>1 DEF TableInv, CallInv
    <2>4. QED
      BY <1>1, <1>3, <2>1, <2>2, <2>3 DEF CallInv
  <1>7. QED
    BY <1>1, <1>2, <1>4, <1>5, <1>6, QuietKeeps DEF TableInv

LEMMA CallKeeps ==
  ASSUME TableInv, NEW t \in Threads, NEW v \in Virts, NEW free \in BOOLEAN,
         CallMap(t, v) \/ CallVirt2Phys(t, v) \/ CallUnmap(t, v, free)
  PROVE  TableInv'
  <1>0. /\ Zero \in Entries
        /\ frame[t] \in Nat => Link(frame[t]) \in Entries
        /\ frame[t] \in Nat
    BY DEF Zero, Link, Entries, NULL, TableInv, ThreadType
  <1>1. CASE CallMap(t, v)
    BY <1>0, <1>1, BeginKeeps DEF CallMap
  <1>2. CASE CallVirt2Phys(t, v)
    BY <1>0, <1>2, BeginKeeps DEF CallVirt2Phys
  <1>3. CASE CallUnmap(t, v, free)
    BY <1>0, <1>3, BeginKeeps DEF CallUnmap
  <1>4. QED
    BY <1>1, <1>2, <1>3

LEMMA AcquireKeeps ==
  ASSUME TableInv, NEW t \in Threads, Acquire(t)
  PROVE  TableInv'
  <1>1. /\ pc[t] = "acquire" /\ pc' = [pc EXCEPT ![t] = "walk"]
        /\ map_lock = Nobody /\ map_lock' = t
        /\ UNCHANGED <<pmm_vars, root, memory, call, table, depth, fresh, frame, mapped, answer>>
    BY DEF Acquire, Goto, walk_vars, client_vars
  <1>2. ThreadType'
    BY <1>1 DEF TableInv, ThreadType, Places
  <1>3. pc'[t] = "walk" /\ \A u \in Threads \ {t} : Still(u)
    BY <1>1 DEF TableInv, ThreadType, Still
  <1>4. Quiet(t) /\ root # NULL /\ call[t] \in Calls /\ call[t].op # "virt2phys"
        /\ table[t] = root /\ depth[t] = 1
    BY <1>1, <1>3 DEF Quiet, TableInv, CallInv
  <1>5. LockInv'
    <2>1. \A u \in Threads : ~Locked(u)
      BY <1>1, ThreadsAssumption DEF TableInv, LockInv
    <2>2. Locked(t)' /\ \A u \in Threads \ {t} : ~Locked(u)'
      BY <1>1, <1>3, <1>4, <2>1 DEF Locked, Still
    <2>3. QED
      BY <1>1, <2>2 DEF LockInv
  <1>6. CallInv(t)'
    <2>1. Virt(t)' = Virt(t) /\ Virt(t) \in Virts
      BY <1>1, <1>4 DEF Virt, Calls
    <2>2. Tree'[Virt(t)][1] = root
      BY <1>1, <2>1, Views, NodeStepPrimed
    <2>3. QED
      BY <1>1, <1>3, <1>4, <2>1, <2>2 DEF TableInv, CallInv
  <1>7. QED
    BY <1>1, <1>2, <1>4, <1>5, <1>6, QuietKeeps DEF TableInv

LEMMA DescendKeeps ==
  ASSUME TableInv, NEW t \in Threads, Descend(t)
  PROVE  TableInv'
  <1>1. /\ pc[t] = "walk" /\ depth[t] < 4 /\ Slot(t).present
        /\ table' = [table EXCEPT ![t] = Slot(t).page]
        /\ depth' = [depth EXCEPT ![t] = depth[t] + 1]
        /\ UNCHANGED <<pmm_vars, root, memory, map_lock, pc, call, fresh, frame, mapped, answer>>
    BY DEF Descend, client_vars
  <1>2. /\ call[t] \in Calls /\ depth[t] \in 1 .. 4 /\ Slot(t) \in Entries
        /\ Slot(t).page # NULL /\ Slot(t).page = Tree[Virt(t)][depth[t] + 1]
    BY <1>1, WalkFacts
  <1>3. ThreadType'
    <2>1. Slot(t).page \in Nat /\ depth[t] + 1 \in 1 .. 4
      BY <1>1, <1>2 DEF Entries
    <2>2. QED
      BY <1>1, <2>1 DEF TableInv, ThreadType
  <1>4. /\ table'[t] = Slot(t).page /\ depth'[t] = depth[t] + 1
        /\ \A u \in Threads \ {t} : Still(u)
    BY <1>1 DEF TableInv, ThreadType, Still
  <1>5. Quiet(t) /\ root # NULL
    BY <1>1, <1>4 DEF Quiet, TableInv, CallInv
  <1>6. LockInv'
    <2>1. Locked(t)' <=> Locked(t)
      BY <1>1 DEF Locked
    <2>2. QED
      BY <1>1, <2>1, LockKept DEF TableInv
  <1>7. CallInv(t)'
    <2>1. Virt(t)' = Virt(t) /\ Tree' = Tree
      BY <1>1, <1>5, QuietKeeps DEF Virt
    <2>2. QED
      BY <1>1, <1>2, <1>4, <2>1 DEF TableInv, CallInv
  <1>8. QED
    BY <1>1, <1>3, <1>5, <1>6, <1>7, QuietKeeps DEF TableInv

(* A walk is over, with an answer. *)
LEMMA AnswerKeeps ==
  ASSUME TableInv, NEW t \in Threads, NEW l \in {"release", "return"}, NEW found \in BOOLEAN,
         NEW e \in Entries, pc[t] = "walk",
         l = "release" <=> call[t].op # "virt2phys",
         Goto(t, l), Answer(t, found, e),
         UNCHANGED <<pmm_vars, root, memory, map_lock, walk_vars, client_vars>>
  PROVE  TableInv'
  <1>1. /\ pc' = [pc EXCEPT ![t] = l]
        /\ answer' = [answer EXCEPT ![t] = [done |-> TRUE, found |-> found, entry |-> e]]
        /\ UNCHANGED <<pmm_vars, root, memory, map_lock, call, table, depth, fresh, frame, mapped>>
    BY DEF Goto, Answer, walk_vars, client_vars
  <1>2. call[t] \in Calls /\ root # NULL
    BY DEF TableInv, CallInv
  <1>3. ThreadType'
    <2>1. [done |-> TRUE, found |-> found, entry |-> e] \in Answers
      BY DEF Answers
    <2>2. QED
      BY <1>1, <2>1 DEF TableInv, ThreadType, Places
  <1>4. pc'[t] = l /\ \A u \in Threads \ {t} : Still(u)
    BY <1>1 DEF TableInv, ThreadType, Still
  <1>5. Quiet(t)
    BY <1>1, <1>4 DEF Quiet
  <1>6. LockInv'
    <2>1. Locked(t)' <=> Locked(t)
      BY <1>1, <1>4 DEF Locked
    <2>2. QED
      BY <1>1, <1>4, <2>1, LockKept DEF TableInv, Still
  <1>7. CallInv(t)'
    BY <1>1, <1>2, <1>4 DEF TableInv, CallInv, Calls
  <1>8. QED
    BY <1>1, <1>2, <1>3, <1>5, <1>6, <1>7, QuietKeeps DEF TableInv

LEMMA LookKeeps ==
  ASSUME TableInv, NEW t \in Threads, Missing(t) \/ ReadEntry(t)
  PROVE  TableInv'
  <1>1. pc[t] = "walk" /\ call[t] \in Calls /\ Slot(t) \in Entries /\ Zero \in Entries
    BY WalkFacts DEF Missing, ReadEntry, Zero, Entries, NULL
  <1>2. CASE Missing(t)
    <2>1. CASE call[t].op = "unmap"
      BY <1>1, <1>2, <2>1, AnswerKeeps DEF Missing
    <2>2. CASE call[t].op # "unmap"
      BY <1>1, <1>2, <2>2, AnswerKeeps DEF Missing, force, Calls
    <2>3. QED
      BY <2>1, <2>2
  <1>3. CASE ReadEntry(t)
    BY <1>1, <1>3, AnswerKeeps DEF ReadEntry
  <1>4. QED
    BY <1>2, <1>3

LEMMA LeaveKeeps ==
  ASSUME TableInv, NEW t \in Threads, Release(t) \/ Return(t)
  PROVE  TableInv'
  <1>1. /\ pc[t] \in {"release", "return"} /\ pc' = [pc EXCEPT ![t] = "idle"]
        /\ answer' = [answer EXCEPT ![t] = NoAnswer] /\ call' = [call EXCEPT ![t] = NoCall]
        /\ table' = [table EXCEPT ![t] = NULL] /\ depth' = [depth EXCEPT ![t] = 1]
        /\ UNCHANGED <<pmm_vars, root, memory, fresh, frame, mapped>>
        /\ map_lock' = IF pc[t] = "release" THEN Nobody ELSE map_lock
    BY DEF Release, Return, Leave, Goto, client_vars
  <1>2. ThreadType'
    <2>1. NoAnswer \in Answers /\ NULL \in Nat /\ 1 \in 1 .. 4
      BY DEF NoAnswer, Answers, Zero, Entries, NULL
    <2>2. QED
      BY <1>1, <2>1 DEF TableInv, ThreadType, Places
  <1>3. pc'[t] = "idle" /\ \A u \in Threads \ {t} : Still(u)
    BY <1>1 DEF TableInv, ThreadType, Still
  <1>4. Quiet(t) /\ root # NULL
    BY <1>1, <1>3 DEF Quiet, TableInv, CallInv
  <1>5. LockInv'
    <2>1. \A u \in Threads \ {t} : Locked(u)' <=> Locked(u)
      BY <1>3 DEF Locked, Still
    <2>2. ~Locked(t)'
      BY <1>3 DEF Locked
    <2>3. Locked(t) <=> pc[t] = "release"
      BY <1>1 DEF Locked
    <2>4. Nobody # t /\ \A u \in Threads : Nobody # u
      BY ThreadsAssumption
    <2>5. \A u \in Threads : Locked(u) <=> map_lock = u
      BY DEF TableInv, LockInv
    <2>6. ASSUME NEW u \in Threads PROVE Locked(u)' <=> map_lock' = u
      <3>1. CASE pc[t] = "release"
        BY <1>1, <2>1, <2>2, <2>3, <2>4, <2>5, <3>1
      <3>2. CASE pc[t] # "release"
        BY <1>1, <2>1, <2>2, <2>3, <2>5, <3>2
      <3>3. QED
        BY <3>1, <3>2
    <2>7. QED
      BY <2>6 DEF LockInv
  <1>6. CallInv(t)'
    BY <1>1, <1>3 DEF TableInv, CallInv
  <1>7. QED
    BY <1>2, <1>4, <1>5, <1>6, QuietKeeps DEF TableInv

-----------------------------------------------------------------------------
(* Now those that take pages or give them back. *)
LEMMA PoolMoves ==
  ASSUME TableInv, BootInv', SamePool, root # NULL, UNCHANGED <<root, memory>>
  PROVE  /\ MemoryType' /\ TreeInv' /\ Tree' = Tree /\ Flat' = Flat /\ TreeGrows
         /\ RootInv' /\ UsablePages(bootmap)' = UsablePages(bootmap)
  <1>1. MemoryType' /\ TreeInv' /\ Tree' = Tree /\ Flat' = Flat
    BY MemorySame DEF TableInv, SamePool
  <1>2. RootInv'
    BY DEF TableInv, RootInv, SamePool
  <1>3. UsablePages(bootmap)' = UsablePages(bootmap)
    BY DEF SamePool, UsablePages, EntryPages
  <1>4. QED
    BY <1>1, <1>2, <1>3 DEF TreeGrows

LEMMA OneOwner ==
  ASSUME TableInv, NEW t \in Threads, NEW u \in Threads, NEW v \in Own[t], v \in mapped[u]
  PROVE  u = t
  BY OwnAssumption DEF TableInv, ThreadType

LEMMA TakeFrameKeeps ==
  ASSUME TableInv, NEW t \in Threads, TakeFrame(t)
  PROVE  TableInv'
  <1>p. PICK p : p = Granted(1)
    OBVIOUS
  <1>1. /\ root # NULL /\ pc[t] = "idle" /\ frame' = [frame EXCEPT ![t] = p]
        /\ UNCHANGED <<root, memory, map_lock, pc, call, table, depth, fresh, mapped, answer>>
    BY <1>p DEF TakeFrame, Idle, walk_vars
  <1>2. BootInv' /\ SamePool /\ p \in FreePages /\ FreePages' = FreePages \ {p}
    BY <1>p, GrantOne DEF TakeFrame, TableInv
  <1>3. /\ MemoryType' /\ TreeInv' /\ Tree' = Tree /\ Flat' = Flat /\ TreeGrows
        /\ RootInv' /\ UsablePages(bootmap)' = UsablePages(bootmap)
    BY <1>1, <1>2, PoolMoves
  <1>4. p \in UsablePages(bootmap) /\ p \in Nat /\ p # NULL
    BY <1>1, <1>2, UsableIsNotNull DEF TableInv, BootInv, RootInv
  <1>5. ThreadType'
    BY <1>1, <1>4 DEF TableInv, ThreadType
  <1>6. frame'[t] = p /\ \A u \in Threads \ {t} : Still(u)
    BY <1>1 DEF TableInv, ThreadType, Still
  <1>7. LockInv'
    BY <1>1 DEF TableInv, LockInv, Locked
  <1>8. OwnerInv'
    <2>0. \A u \in Threads : frame'[u] = IF u = t THEN p ELSE frame[u]
      BY <1>6 DEF Still
    <2>1. UsedInv'
      BY <1>1, <1>2, <1>3, <1>4, <2>0 DEF TableInv, OwnerInv, UsedInv, IsTable, Frame
    <2>2. FreshInv'
      BY <1>1, <1>2, <1>3, <1>4, <2>0 DEF TableInv, OwnerInv, UsedInv, FreshInv, IsTable, Frame
    <2>3. FrameInv'
      <3>1. ~IsTable(p)' /\ \A u \in Threads : frame[u] # p /\ \A v \in mapped[u] : Frame(v) # p
        BY <1>2, <1>3, <1>4 DEF TableInv, OwnerInv, UsedInv, IsTable
      <3>2. QED
        BY <1>1, <1>3, <2>0, <3>1 DEF TableInv, OwnerInv, FrameInv, IsTable, Frame
    <2>4. QED
      BY <2>1, <2>2, <2>3 DEF OwnerInv
  <1>9. EntryInv'
    BY <1>1, <1>3 DEF TableInv, EntryInv, Virt
  <1>10. ASSUME NEW u \in Threads PROVE CallInv(u)'
    <2>1. CASE u = t
      BY <1>1, <2>1 DEF TableInv, CallInv
    <2>2. CASE u # t
      BY <1>1, <1>3, <1>6, <2>2, StillKeepsCall DEF TableInv
    <2>3. QED
      BY <2>1, <2>2
  <1>11. QED
    BY <1>2, <1>3, <1>5, <1>7, <1>8, <1>9, <1>10 DEF TableInv

LEMMA DropFrameKeeps ==
  ASSUME TableInv, NEW t \in Threads, DropFrame(t)
  PROVE  TableInv'
  <1>p. PICK p : p = frame[t]
    OBVIOUS
  <1>1. /\ root # NULL /\ pc[t] = "idle" /\ p # NULL /\ frame' = [frame EXCEPT ![t] = NULL]
        /\ UNCHANGED <<root, memory, map_lock, pc, call, table, depth, fresh, mapped, answer>>
    BY <1>p DEF DropFrame, Idle, walk_vars
  <1>2. p \in UsablePages(bootmap) \ FreePages
    BY <1>p, <1>1 DEF TableInv, OwnerInv, UsedInv
  <1>3. BootInv' /\ SamePool /\ FreePages' \subseteq FreePages \cup {p}
    BY <1>p, <1>1, <1>2, FreeOne DEF DropFrame, TableInv, RootInv
  <1>4. /\ MemoryType' /\ TreeInv' /\ Tree' = Tree /\ Flat' = Flat /\ TreeGrows
        /\ RootInv' /\ UsablePages(bootmap)' = UsablePages(bootmap)
    BY <1>1, <1>3, PoolMoves
  <1>5. ThreadType'
    BY <1>1 DEF TableInv, ThreadType, NULL
  <1>6. frame'[t] = NULL /\ \A u \in Threads \ {t} : Still(u)
    BY <1>1 DEF TableInv, ThreadType, Still
  <1>7. LockInv'
    BY <1>1 DEF TableInv, LockInv, Locked
  <1>8. OwnerInv'
    <2>0. \A u \in Threads : frame'[u] = IF u = t THEN NULL ELSE frame[u]
      BY <1>6 DEF Still
    <2>a. /\ ~IsTable(p)
          /\ \A u \in Threads : /\ u # t => frame[u] # p
                                /\ \A v \in mapped[u] : Frame(v) # p
      BY <1>p, <1>1 DEF TableInv, OwnerInv, FrameInv
    <2>b. \A u \in Threads : fresh[u] # NULL => fresh[u] # p
      BY <1>p DEF TableInv, OwnerInv, FreshInv
    <2>1. UsedInv'
      BY <1>1, <1>3, <1>4, <2>0, <2>a, <2>b DEF TableInv, OwnerInv, UsedInv, IsTable, Frame
    <2>2. FreshInv'
      BY <1>1, <1>4, <2>0 DEF TableInv, OwnerInv, FreshInv, IsTable, Frame
    <2>3. FrameInv'
      BY <1>1, <1>4, <2>0 DEF TableInv, OwnerInv, FrameInv, IsTable, Frame
    <2>4. QED
      BY <2>1, <2>2, <2>3 DEF OwnerInv
  <1>9. EntryInv'
    BY <1>1, <1>4 DEF TableInv, EntryInv, Virt
  <1>10. ASSUME NEW u \in Threads PROVE CallInv(u)'
    <2>1. CASE u = t
      BY <1>1, <2>1 DEF TableInv, CallInv
    <2>2. CASE u # t
      BY <1>1, <1>4, <1>6, <2>2, StillKeepsCall DEF TableInv
    <2>3. QED
      BY <2>1, <2>2
  <1>11. QED
    BY <1>3, <1>4, <1>5, <1>7, <1>8, <1>9, <1>10 DEF TableInv

LEMMA RequestTableKeeps ==
  ASSUME TableInv, NEW t \in Threads, RequestTable(t)
  PROVE  TableInv'
  <1>1. /\ pc[t] = "walk" /\ depth[t] < 4 /\ ~Slot(t).present /\ call[t].op = "map"
        /\ UNCHANGED <<root, memory, map_lock, call, table, depth, frame, mapped, answer>>
        /\ root # NULL
    BY DEF RequestTable, force, client_vars, TableInv, CallInv
  <1>2. CASE CanGrant(1)
    <2>p. PICK p : p = Granted(1)
      OBVIOUS
    <2>1. fresh' = [fresh EXCEPT ![t] = p] /\ pc' = [pc EXCEPT ![t] = "zero"]
      BY <1>2, <2>p DEF RequestTable, Goto
    <2>2. BootInv' /\ SamePool /\ p \in FreePages /\ FreePages' = FreePages \ {p}
      BY <1>2, <2>p, GrantOne DEF RequestTable, TableInv
    <2>3. /\ MemoryType' /\ TreeInv' /\ Tree' = Tree /\ Flat' = Flat /\ TreeGrows
          /\ RootInv' /\ UsablePages(bootmap)' = UsablePages(bootmap)
      BY <1>1, <2>2, PoolMoves
    <2>4. p \in UsablePages(bootmap) /\ p \in Nat /\ p # NULL
      BY <1>1, <2>2, UsableIsNotNull DEF TableInv, BootInv, RootInv
    <2>5. ThreadType'
      BY <1>1, <2>1, <2>4 DEF TableInv, ThreadType, Places
    <2>6. fresh'[t] = p /\ pc'[t] = "zero" /\ \A u \in Threads \ {t} : Still(u)
      BY <1>1, <2>1 DEF TableInv, ThreadType, Still
    <2>7. LockInv'
      <3>1. Locked(t)' <=> Locked(t)
        BY <1>1, <2>6 DEF Locked
      <3>2. QED
        BY <1>1, <2>6, <3>1, LockKept DEF TableInv, Still
    <2>8. OwnerInv'
      <3>0. \A u \in Threads : fresh'[u] = IF u = t THEN p ELSE fresh[u]
        BY <2>6 DEF Still
      <3>a. ~IsTable(p)' /\ \A u \in Threads : frame[u] # p /\ \A v \in mapped[u] : Frame(v) # p
        BY <2>2, <2>3, <2>4 DEF TableInv, OwnerInv, UsedInv, IsTable
      <3>1. UsedInv'
        BY <1>1, <2>2, <2>3, <2>4, <3>0 DEF TableInv, OwnerInv, UsedInv, IsTable, Frame
      <3>2. FreshInv'
        BY <1>1, <2>3, <3>0, <3>a DEF TableInv, OwnerInv, FreshInv, IsTable, Frame
      <3>3. FrameInv'
        BY <1>1, <2>3 DEF TableInv, OwnerInv, FrameInv, IsTable, Frame
      <3>4. QED
        BY <3>1, <3>2, <3>3 DEF OwnerInv
    <2>9. EntryInv'
      <3>1. \A u \in Threads : pc[u] = "clear" => pc'[u] = "clear" /\ Virt(u)' = Virt(u)
        BY <1>1, <2>6 DEF Still, Virt
      <3>2. QED
        BY <1>1, <2>3, <3>1 DEF TableInv, EntryInv
    <2>10. ASSUME NEW u \in Threads PROVE CallInv(u)'
      <3>1. CASE u = t
        <4>1. Virt(t)' = Virt(t) /\ Slot(t)' = Slot(t)
          BY <1>1 DEF Virt, Slot
        <4>2. QED
          BY <1>1, <2>3, <2>4, <2>6, <3>1, <4>1 DEF TableInv, CallInv
      <3>2. CASE u # t
        BY <1>1, <2>3, <2>6, <3>2, StillKeepsCall DEF TableInv
      <3>3. QED
        BY <3>1, <3>2
    <2>11. QED
      BY <2>2, <2>3, <2>5, <2>7, <2>8, <2>9, <2>10 DEF TableInv
  <1>3. CASE ~CanGrant(1)
    <2>1. pc' = [pc EXCEPT ![t] = "release"] /\ fresh' = fresh /\ UNCHANGED pmm_vars
      BY <1>3 DEF RequestTable, Goto, pmm_request_pages, pmm_vars
    <2>2. ThreadType'
      BY <1>1, <2>1 DEF TableInv, ThreadType, Places
    <2>3. pc'[t] = "release" /\ \A u \in Threads \ {t} : Still(u)
      BY <1>1, <2>1 DEF TableInv, ThreadType, Still
    <2>4. Quiet(t)
      BY <1>1, <2>1, <2>3 DEF Quiet
    <2>5. LockInv'
      <3>1. Locked(t)' <=> Locked(t)
        BY <1>1, <2>3 DEF Locked
      <3>2. QED
        BY <1>1, <2>3, <3>1, LockKept DEF TableInv, Still
    <2>6. CallInv(t)'
      BY <1>1, <2>1, <2>3 DEF TableInv, CallInv
    <2>7. QED
      BY <1>1, <2>2, <2>4, <2>5, <2>6, QuietKeeps DEF TableInv
  <1>4. QED
    BY <1>2, <1>3

(* vmm_unmap(free_phys) frees the frame while the entry still maps it. *)
LEMMA FreeFrameKeeps ==
  ASSUME TableInv, NEW t \in Threads, FreeFrame(t)
  PROVE  TableInv'
  <1>v. PICK v0 : v0 = Virt(t)
    OBVIOUS
  <1>p. PICK p : p = Slot(t).page
    OBVIOUS
  <1>1. /\ pc[t] = "walk" /\ depth[t] = 4 /\ call[t].op = "unmap" /\ call[t].free
        /\ mapped' = [mapped EXCEPT ![t] = mapped[t] \ {v0}]
        /\ pc' = [pc EXCEPT ![t] = "clear"]
        /\ UNCHANGED <<root, memory, map_lock, call, table, depth, fresh, frame, answer>>
        /\ root # NULL
    BY <1>v DEF FreeFrame, Goto, walk_vars, TableInv, CallInv
  <1>2. v0 \in mapped[t] /\ v0 \in Own[t] /\ v0 \in Virts /\ p = Frame(v0)
        /\ p \in UsablePages(bootmap) \ FreePages
    <2>1. v0 \in mapped[t]
      BY <1>v, <1>1 DEF TableInv, CallInv
    <2>2. v0 \in Virts /\ p = Frame(v0)
      BY <1>v, <1>p, <1>1, WalkFacts DEF Frame
    <2>3. QED
      BY <2>1, <2>2 DEF TableInv, ThreadType, OwnerInv, UsedInv
  <1>3. BootInv' /\ SamePool /\ FreePages' \subseteq FreePages \cup {p}
    BY <1>p, <1>1, <1>2, FreeOne DEF FreeFrame, TableInv, RootInv
  <1>4. /\ MemoryType' /\ TreeInv' /\ Tree' = Tree /\ Flat' = Flat /\ TreeGrows
        /\ UsablePages(bootmap)' = UsablePages(bootmap) /\ RootInv'
    BY <1>1, <1>3, PoolMoves
  <1>5. ThreadType'
    BY <1>1 DEF TableInv, ThreadType, Places
  <1>6. /\ pc'[t] = "clear" /\ mapped'[t] = mapped[t] \ {v0}
        /\ \A u \in Threads \ {t} : Still(u)
    BY <1>1 DEF TableInv, ThreadType, Still
  <1>7. LockInv'
    <2>1. Locked(t)' <=> Locked(t)
      BY <1>1, <1>6 DEF Locked
    <2>2. QED
      BY <1>1, <1>6, <2>1, LockKept DEF TableInv, Still
  <1>m. \A u \in Threads : mapped'[u] \subseteq mapped[u] \ {v0}
    BY <1>2, <1>6, OneOwner DEF Still
  <1>8. OwnerInv'
    <2>a. /\ ~IsTable(p)
          /\ \A u \in Threads : frame[u] # NULL => frame[u] # p
          /\ \A u \in Threads : \A w \in mapped[u] : w # v0 => Frame(w) # p
      BY <1>2 DEF TableInv, OwnerInv, FrameInv
    <2>b. \A u \in Threads : fresh[u] # NULL => fresh[u] # p
      BY <1>2 DEF TableInv, OwnerInv, FreshInv
    <2>1. UsedInv'
      BY <1>1, <1>3, <1>4, <1>m, <2>a, <2>b DEF TableInv, OwnerInv, UsedInv, IsTable, Frame
    <2>2. FreshInv'
      BY <1>1, <1>4, <1>m DEF TableInv, OwnerInv, FreshInv, IsTable, Frame
    <2>3. FrameInv'
      BY <1>1, <1>4, <1>m DEF TableInv, OwnerInv, FrameInv, IsTable, Frame
    <2>4. QED
      BY <2>1, <2>2, <2>3 DEF OwnerInv
  <1>9. EntryInv'
    <2>1. Virt(t)' = v0 /\ \A u \in Threads : Virt(u)' = Virt(u)
      BY <1>v, <1>1 DEF Virt
    <2>2. \A u \in Threads \ {t} : mapped'[u] = mapped[u] /\ pc'[u] = pc[u]
      BY <1>6 DEF Still
    <2>3. ASSUME NEW v \in Virts, Flat'[v].present
          PROVE  \E u \in Threads : v \in mapped'[u] \/ (pc'[u] = "clear" /\ Virt(u)' = v)
      <3>1. CASE v = v0
        BY <1>6, <2>1, <3>1
      <3>2. CASE v # v0
        <4>1. PICK u \in Threads : v \in mapped[u] \/ (pc[u] = "clear" /\ Virt(u) = v)
          BY <1>4, <2>3 DEF TableInv, EntryInv
        <4>2. CASE u = t
          BY <1>1, <1>6, <3>2, <4>1, <4>2
        <4>3. CASE u # t
          BY <2>1, <2>2, <4>1, <4>3
        <4>4. QED
          BY <4>2, <4>3
      <3>3. QED
        BY <3>1, <3>2
    <2>4. QED
      BY <1>4, <1>m, <2>3 DEF TableInv, EntryInv
  <1>10. ASSUME NEW u \in Threads PROVE CallInv(u)'
    <2>1. CASE u = t
      <3>1. Virt(t)' = v0 /\ Virt(t) = v0
        BY <1>v, <1>1 DEF Virt
      <3>2. QED
        BY <1>1, <1>2, <1>4, <1>6, <2>1, <3>1 DEF TableInv, CallInv
    <2>2. CASE u # t
      BY <1>1, <1>4, <1>6, <2>2, StillKeepsCall DEF TableInv
    <2>3. QED
      BY <2>1, <2>2
  <1>11. QED
    BY <1>3, <1>4, <1>5, <1>7, <1>8, <1>9, <1>10 DEF TableInv

-----------------------------------------------------------------------------
(* Those that write the tables, under map_lock. *)
LEMMA PoolKept ==
  ASSUME TableInv, UNCHANGED <<pmm_vars, root>>, root # NULL
  PROVE  /\ BootInv' /\ RootInv' /\ FreePages' = FreePages /\ bootmap' = bootmap
         /\ UsablePages(bootmap)' = UsablePages(bootmap)
  <1>1. /\ BootInv' /\ FreePages' = FreePages /\ phase' = phase /\ pm_stack_base' = pm_stack_base
        /\ UsablePages(bootmap)' = UsablePages(bootmap)
    BY PoolSame DEF TableInv
  <1>2. QED
    BY <1>1 DEF TableInv, RootInv, pmm_vars, pmm_memory

LEMMA ZeroTableKeeps ==
  ASSUME TableInv, NEW t \in Threads, ZeroTable(t)
  PROVE  TableInv'
  <1>p. PICK p : p = fresh[t]
    OBVIOUS
  <1>1. /\ pc[t] = "zero" /\ pc' = [pc EXCEPT ![t] = "link"]
        /\ memory' = [memory EXCEPT ![p] = ZeroPage]
        /\ UNCHANGED <<pmm_vars, root, map_lock, call, table, depth, fresh, frame, mapped, answer>>
        /\ root # NULL /\ p # NULL
    BY <1>p DEF ZeroTable, Goto, walk_vars, client_vars, TableInv, CallInv
  <1>2. p \in UsablePages(bootmap) /\ \A v \in Virts : \A d \in 1 .. 4 : Node(v, d) # p
    <2>1. p \in UsablePages(bootmap) /\ ~IsTable(p)
      BY <1>p, <1>1 DEF TableInv, OwnerInv, UsedInv, FreshInv
    <2>2. QED
      BY <1>1, <2>1, Views DEF IsTable
  <1>3. /\ BootInv' /\ RootInv' /\ FreePages' = FreePages /\ bootmap' = bootmap
        /\ UsablePages(bootmap)' = UsablePages(bootmap)
    BY <1>1, PoolKept
  <1>4. MemoryType' /\ TreeInv' /\ Tree' = Tree /\ Flat' = Flat /\ TreeGrows
    <2>1. MemoryType' /\ TreeInv' /\ NodesKept /\ MappingsKept
      BY <1>1, <1>2, <1>3, PageWrite DEF TableInv
    <2>2. QED
      BY <2>1, ViewsKept DEF TreeGrows
  <1>5. ThreadType'
    BY <1>1 DEF TableInv, ThreadType, Places
  <1>6. pc'[t] = "link" /\ \A u \in Threads \ {t} : Still(u)
    BY <1>1 DEF TableInv, ThreadType, Still
  <1>7. LockInv'
    <2>1. Locked(t)' <=> Locked(t)
      BY <1>1, <1>6 DEF Locked
    <2>2. QED
      BY <1>1, <1>6, <2>1, LockKept DEF TableInv, Still
  <1>8. OwnerInv'
    <2>1. UsedInv'
      BY <1>1, <1>3, <1>4 DEF TableInv, OwnerInv, UsedInv, IsTable, Frame
    <2>2. FreshInv'
      BY <1>1, <1>4 DEF TableInv, OwnerInv, FreshInv, IsTable, Frame
    <2>3. FrameInv'
      BY <1>1, <1>4 DEF TableInv, OwnerInv, FrameInv, IsTable, Frame
    <2>4. QED
      BY <2>1, <2>2, <2>3 DEF OwnerInv
  <1>9. EntryInv'
    <2>1. \A u \in Threads : pc[u] = "clear" => pc'[u] = "clear" /\ Virt(u)' = Virt(u)
      BY <1>1, <1>6 DEF Still, Virt
    <2>2. QED
      BY <1>1, <1>4, <2>1 DEF TableInv, EntryInv
  <1>10. ASSUME NEW u \in Threads PROVE CallInv(u)'
    <2>1. CASE u = t
      <3>1. table[t] \in UsablePages(bootmap) /\ table[t] # p
        BY <1>1, <1>2, WalkFacts
      <3>2. memory'[table[t]] = memory[table[t]] /\ memory'[p] = ZeroPage
        BY <1>1, <1>2, <3>1 DEF TableInv, MemoryType
      <3>3. Virt(t)' = Virt(t) /\ Slot(t)' = Slot(t)
        BY <1>1, <3>2 DEF Virt, Slot
      <3>4. QED
        BY <1>p, <1>1, <1>4, <1>6, <2>1, <3>2, <3>3 DEF TableInv, CallInv
    <2>2. CASE u # t
      <3>1. pc[u] \notin {"zero", "link"}
        BY <1>1, <2>2, OneWriter DEF Locked
      <3>2. QED
        BY <1>1, <1>4, <1>6, <2>2, <3>1, StillKeepsCall DEF TableInv
    <2>3. QED
      BY <2>1, <2>2
  <1>11. QED
    BY <1>3, <1>4, <1>5, <1>7, <1>8, <1>9, <1>10 DEF TableInv

LEMMA LinkTableKeeps ==
  ASSUME TableInv, NEW t \in Threads, LinkTable(t)
  PROVE  TableInv'
  <1>p. PICK p : p = fresh[t]
    OBVIOUS
  <1>v. PICK v0 : v0 = Virt(t)
    OBVIOUS
  <1>d. PICK d0 : d0 = depth[t]
    OBVIOUS
  <1>1. /\ pc[t] = "link" /\ pc' = [pc EXCEPT ![t] = "walk"]
        /\ table' = [table EXCEPT ![t] = p] /\ depth' = [depth EXCEPT ![t] = d0 + 1]
        /\ fresh' = [fresh EXCEPT ![t] = NULL]
        /\ UNCHANGED <<pmm_vars, root, map_lock, call, frame, mapped, answer>>
        /\ root # NULL /\ p # NULL /\ call[t].op = "map" /\ d0 < 4 /\ ~Slot(t).present
        /\ memory[p] = ZeroPage
    BY <1>p, <1>d DEF LinkTable, Goto, client_vars, TableInv, CallInv
  <1>2. /\ v0 \in Virts /\ d0 \in 1 .. 3 /\ d0 + 1 \in 1 .. 4 /\ p \in Nat
        /\ table[t] = Node(v0, d0) /\ table[t] # NULL
    BY <1>p, <1>v, <1>d, <1>1, WalkFacts DEF TableInv, ThreadType
  <1>3. p \in UsablePages(bootmap) /\ ~IsTable(p)
        /\ \A v \in Virts : \A d \in 1 .. 4 : Node(v, d) # p
    <2>1. p \in UsablePages(bootmap) /\ ~IsTable(p)
      BY <1>p, <1>1 DEF TableInv, OwnerInv, UsedInv, FreshInv
    <2>2. QED
      BY <1>1, <2>1, Views DEF IsTable
  <1>4. /\ BootInv' /\ RootInv' /\ FreePages' = FreePages /\ bootmap' = bootmap
        /\ UsablePages(bootmap)' = UsablePages(bootmap)
    BY <1>1, PoolKept
  <1>5. /\ MemoryType' /\ TreeInv' /\ NodesGrow /\ MappingsKept
        /\ \A v \in Virts : \A d \in 1 .. 4 :
             Node(v, d)' = IF d = d0 + 1 /\ SamePath(v, v0, d) THEN p ELSE Node(v, d)
    <2>1. ~memory[Node(v0, d0)][v0[d0]].present
      BY <1>v, <1>d, <1>1, <1>2 DEF Slot
    <2>2. memory' = [memory EXCEPT ![Node(v0, d0)][v0[d0]] = Link(p)]
      BY <1>p, <1>v, <1>d, <1>2 DEF LinkTable, Store
    <2>3. QED
      BY <1>1, <1>2, <1>3, <1>4, <2>1, <2>2, LinkWrite DEF TableInv
  <1>6. Flat' = Flat /\ TreeGrows
    BY <1>5, ViewsKept
  <1>7. ThreadType'
    BY <1>1, <1>2 DEF TableInv, ThreadType, Places, NULL
  <1>8. /\ pc'[t] = "walk" /\ table'[t] = p /\ depth'[t] = d0 + 1 /\ fresh'[t] = NULL
        /\ \A u \in Threads \ {t} : Still(u)
    BY <1>1 DEF TableInv, ThreadType, Still
  <1>9. LockInv'
    <2>1. Locked(t)' <=> Locked(t)
      BY <1>1, <1>8 DEF Locked
    <2>2. QED
      BY <1>1, <1>8, <2>1, LockKept DEF TableInv, Still
  <1>o. \A u \in Threads \ {t} : pc[u] \notin {"zero", "link"}
    BY <1>1, OneWriter DEF Locked
  <1>10. OwnerInv'
    <2>0. \A q : IsTable(q)' => IsTable(q) \/ q = p
      BY <1>5, Views DEF IsTable
    <2>f. \A u \in Threads : fresh'[u] = NULL
      BY <1>8, <1>o DEF TableInv, CallInv, Still
    <2>a. \A u \in Threads : frame[u] # p /\ \A v \in mapped[u] : Frame(v) # p
      BY <1>p, <1>1 DEF TableInv, OwnerInv, FreshInv
    <2>b. p \notin FreePages
      BY <1>p, <1>1 DEF TableInv, OwnerInv, UsedInv
    <2>1. UsedInv'
      <3>1. \A q \in FreePages : ~IsTable(q)'
        BY <2>0, <2>b DEF TableInv, OwnerInv, UsedInv
      <3>2. QED
        BY <1>1, <1>4, <1>6, <2>f, <3>1 DEF TableInv, OwnerInv, UsedInv, IsTable, Frame
    <2>2. FreshInv'
      BY <2>f DEF FreshInv
    <2>3. FrameInv'
      <3>1. \A q : ~IsTable(q) /\ q # p => ~IsTable(q)'
        BY <2>0
      <3>2. \A v \in Virts : Frame(v)' = Frame(v)
        BY <1>6 DEF Frame
      <3>3. \A u \in Threads : mapped[u] \subseteq Virts
        BY DEF TableInv, ThreadType
      <3>4. ASSUME NEW u \in Threads
            PROVE  /\ frame[u] # NULL => ~IsTable(frame[u])'
                   /\ \A v \in mapped[u] : ~IsTable(Frame(v))'
        <4>1. PICK q : q = frame[u]
          OBVIOUS
        <4>2. q # NULL => ~IsTable(q)'
          BY <2>a, <3>1, <4>1 DEF TableInv, OwnerInv, FrameInv
        <4>3. frame[u] # NULL => ~IsTable(frame[u])'
          BY <1>1, <4>1, <4>2 DEF IsTable
        <4>4. ASSUME NEW v \in mapped[u] PROVE ~IsTable(Frame(v))'
          <5>1. PICK f : f = Frame(v)
            OBVIOUS
          <5>2. ~IsTable(f)'
            BY <2>a, <3>1, <5>1 DEF TableInv, OwnerInv, FrameInv
          <5>3. QED
            BY <3>2, <3>3, <5>1, <5>2 DEF IsTable
        <4>5. QED
          BY <4>3, <4>4
      <3>5. QED
        BY <1>1, <1>6, <3>4 DEF TableInv, OwnerInv, FrameInv, IsTable, Frame
    <2>4. QED
      BY <2>1, <2>2, <2>3 DEF OwnerInv
  <1>11. EntryInv'
    <2>1. \A u \in Threads : pc[u] = "clear" => pc'[u] = "clear" /\ Virt(u)' = Virt(u)
      BY <1>1, <1>8 DEF Still, Virt
    <2>2. QED
      BY <1>1, <1>6, <2>1 DEF TableInv, EntryInv
  <1>12. ASSUME NEW u \in Threads PROVE CallInv(u)'
    <2>1. CASE u = t
      <3>1. Virt(t)' = v0
        BY <1>v, <1>1 DEF Virt
      <3>2. Tree'[v0][d0 + 1] = p
        BY <1>2, <1>5, Views DEF SamePath
      <3>3. QED
        BY <1>v, <1>1, <1>8, <2>1, <3>1, <3>2 DEF TableInv, CallInv
    <2>2. CASE u # t
      BY <1>1, <1>6, <1>8, <1>o, <2>2, StillKeepsCall DEF TableInv
    <2>3. QED
      BY <2>1, <2>2
  <1>13. QED
    BY <1>4, <1>5, <1>7, <1>9, <1>10, <1>11, <1>12 DEF TableInv

(* The leaf of a walk is written: only this mapping changes. *)
LEMMA LeafKeeps ==
  ASSUME TableInv, NEW t \in Threads, NEW e \in Entries, Locked(t),
         pc[t] \in {"walk", "clear"}, depth[t] = 4,
         pc' = [pc EXCEPT ![t] = "release"],
         memory' = [memory EXCEPT ![table[t]][Virt(t)[depth[t]]] = e],
         UNCHANGED <<pmm_vars, root, map_lock, call, table, depth, fresh>>,
         \A u \in Threads \ {t} : frame'[u] = frame[u] /\ mapped'[u] = mapped[u]
  PROVE  /\ BootInv' /\ RootInv' /\ FreePages' = FreePages
         /\ UsablePages(bootmap)' = UsablePages(bootmap)
         /\ MemoryType' /\ TreeInv' /\ LockInv' /\ Tree' = Tree
         /\ Flat'[Virt(t)] = e /\ \A w \in Virts \ {Virt(t)} : Flat'[w] = Flat[w]
         /\ \A u \in Threads : fresh[u] = NULL
         /\ \A u \in Threads : CallInv(u)'
  <1>v. PICK v0 : v0 = Virt(t)
    OBVIOUS
  <1>0. root # NULL /\ pc'[t] = "release" /\ \A u \in Threads \ {t} : Still(u)
    BY DEF TableInv, CallInv, ThreadType, Still
  <1>1. /\ BootInv' /\ RootInv' /\ FreePages' = FreePages /\ bootmap' = bootmap
        /\ UsablePages(bootmap)' = UsablePages(bootmap)
    BY <1>0, PoolKept
  <1>2. v0 \in Virts /\ table[t] = Node(v0, 4) /\ Node(v0, 4) # NULL
    BY <1>v, WalkFacts
  <1>3. /\ MemoryType' /\ TreeInv' /\ NodesKept /\ Mapping(v0)' = e
        /\ \A w \in Virts \ {v0} : Mapping(w)' = Mapping(w)
    <2>1. memory' = [memory EXCEPT ![Node(v0, 4)][v0[4]] = e]
      BY <1>v, <1>2
    <2>2. QED
      BY <1>1, <1>2, <2>1, LeafWrite DEF TableInv
  <1>4. Tree' = Tree /\ TreeGrows
    BY <1>3, ViewsKept DEF TreeGrows
  <1>5. Flat'[v0] = e /\ \A w \in Virts \ {v0} : Flat'[w] = Flat[w]
    BY <1>2, <1>3, Views
  <1>6. LockInv'
    <2>1. Locked(t)' <=> Locked(t)
      BY <1>0 DEF Locked
    <2>2. QED
      BY <1>0, <2>1, LockKept DEF TableInv, Still
  <1>7. \A u \in Threads \ {t} : pc[u] \notin {"zero", "link"}
    BY OneWriter
  <1>8. \A u \in Threads : fresh[u] = NULL
    BY <1>7 DEF TableInv, CallInv
  <1>9. ASSUME NEW u \in Threads PROVE CallInv(u)'
    <2>1. CASE u = t
      BY <1>0, <1>8, <2>1 DEF TableInv, CallInv
    <2>2. CASE u # t
      BY <1>0, <1>4, <1>7, <2>2, StillKeepsCall DEF TableInv
    <2>3. QED
      BY <2>1, <2>2
  <1>10. QED
    BY <1>v, <1>1, <1>3, <1>4, <1>5, <1>6, <1>8, <1>9

LEMMA WriteEntryKeeps ==
  ASSUME TableInv, NEW t \in Threads, WriteEntry(t)
  PROVE  TableInv'
  <1>p. PICK p : p = frame[t]
    OBVIOUS
  <1>v. PICK v0 : v0 = Virt(t)
    OBVIOUS
  <1>1. /\ pc[t] = "walk" /\ depth[t] = 4 /\ call[t].op = "map"
        /\ pc' = [pc EXCEPT ![t] = "release"]
        /\ memory' = [memory EXCEPT ![table[t]][Virt(t)[depth[t]]] = Link(p)]
        /\ frame' = [frame EXCEPT ![t] = NULL]
        /\ mapped' = [mapped EXCEPT ![t] = mapped[t] \cup {v0}]
        /\ answer' = [answer EXCEPT ![t] = [done |-> TRUE, found |-> TRUE, entry |-> Zero]]
        /\ UNCHANGED <<pmm_vars, root, map_lock, call, table, depth, fresh>>
    BY <1>p, <1>v DEF WriteEntry, Store, Goto, Answer, walk_vars, TableInv, CallInv
  <1>2. /\ p # NULL /\ p \in Nat /\ v0 \in Own[t] /\ v0 \notin mapped[t] /\ v0 \in Virts
        /\ Link(p) \in Entries /\ Link(p).present /\ Link(p).page = p
    <2>1. p # NULL /\ p \in Nat /\ v0 \in Own[t] /\ v0 \notin mapped[t]
      BY <1>p, <1>v, <1>1 DEF TableInv, CallInv, ThreadType
    <2>2. v0 \in Virts
      BY <1>v, <1>1, WalkFacts
    <2>3. QED
      BY <2>1, <2>2 DEF Link, Entries
  <1>3. /\ frame'[t] = NULL /\ mapped'[t] = mapped[t] \cup {v0} /\ pc'[t] = "release"
        /\ \A u \in Threads \ {t} : frame'[u] = frame[u] /\ mapped'[u] = mapped[u] /\ pc'[u] = pc[u]
    BY <1>1 DEF TableInv, ThreadType
  <1>4. /\ BootInv' /\ RootInv' /\ FreePages' = FreePages
        /\ UsablePages(bootmap)' = UsablePages(bootmap)
        /\ MemoryType' /\ TreeInv' /\ LockInv' /\ Tree' = Tree
        /\ Flat'[v0] = Link(p) /\ \A w \in Virts \ {v0} : Flat'[w] = Flat[w]
        /\ \A u \in Threads : fresh[u] = NULL
        /\ \A u \in Threads : CallInv(u)'
    <2>1. Locked(t)
      BY <1>1 DEF Locked
    <2>2. QED
      BY <1>v, <1>1, <1>2, <1>3, <2>1, LeafKeeps
  <1>5. ThreadType'
    <2>1. mapped[t] \cup {v0} \in SUBSET Virts /\ NULL \in Nat
      BY <1>2 DEF TableInv, ThreadType, NULL
    <2>2. mapped' \in [Threads -> SUBSET Virts] /\ \A u \in Threads : mapped'[u] \subseteq Own[u]
      BY <1>1, <1>2, <1>3, <2>1 DEF TableInv, ThreadType
    <2>3. [done |-> TRUE, found |-> TRUE, entry |-> Zero] \in Answers
      BY DEF Answers, Entries, Zero, NULL
    <2>4. QED
      BY <1>1, <2>1, <2>2, <2>3 DEF TableInv, ThreadType, Places
  <1>m. \A u \in Threads : v0 \notin mapped[u]
    BY <1>2, OneOwner
  <1>f. /\ Frame(v0)' = p
        /\ \A u \in Threads : \A w \in mapped[u] : Frame(w)' = Frame(w) /\ w \in Virts \ {v0}
    BY <1>2, <1>4, <1>m DEF Frame, TableInv, ThreadType
  <1>q. /\ p \in UsablePages(bootmap) \ FreePages /\ ~IsTable(p)
        /\ \A u \in Threads : /\ u # t => frame[u] # p
                              /\ \A w \in mapped[u] : Frame(w) # p
    BY <1>p, <1>2 DEF TableInv, OwnerInv, UsedInv, FrameInv
  <1>6. OwnerInv'
    <2>i. \A q : IsTable(q)' <=> IsTable(q)
      BY <1>4 DEF IsTable
    <2>n. /\ \A u \in Threads : frame'[u] # NULL => u # t /\ frame'[u] = frame[u]
          /\ \A u \in Threads : \A w \in mapped'[u] :
               \/ u = t /\ w = v0
               \/ w \in mapped[u] /\ w # v0 /\ Frame(w)' = Frame(w)
      BY <1>3, <1>f
    <2>1. UsedInv'
      <3>1. \A q \in FreePages : ~IsTable(q)'
        BY <2>i DEF TableInv, OwnerInv, UsedInv
      <3>2. \A u \in Threads : frame'[u] # NULL => frame'[u] \in UsablePages(bootmap) \ FreePages
        BY <2>n DEF TableInv, OwnerInv, UsedInv
      <3>3. \A u \in Threads : \A w \in mapped'[u] : Frame(w)' \in UsablePages(bootmap) \ FreePages
        BY <1>f, <1>q, <2>n DEF TableInv, OwnerInv, UsedInv
      <3>4. QED
        BY <1>1, <1>4, <3>1, <3>2, <3>3 DEF UsedInv
    <2>2. FreshInv'
      BY <1>1, <1>4 DEF FreshInv
    <2>3. FrameInv'
      <3>1. ASSUME NEW u \in Threads, frame'[u] # NULL
            PROVE  /\ ~IsTable(frame[u])
                   /\ \A x \in Threads : /\ x # u => frame'[x] # frame'[u]
                                         /\ \A w \in mapped'[x] : Frame(w)' # frame'[u]
        <4>1. u # t /\ frame'[u] = frame[u] /\ frame[u] # NULL
          BY <2>n, <3>1
        <4>2. /\ ~IsTable(frame[u])
              /\ \A x \in Threads : /\ x # u => frame[x] # frame[u]
                                    /\ \A w \in mapped[x] : Frame(w) # frame[u]
          BY <4>1 DEF TableInv, OwnerInv, FrameInv
        <4>3. ASSUME NEW x \in Threads, NEW w \in mapped'[x] PROVE Frame(w)' # frame'[u]
          BY <1>f, <1>q, <2>n, <4>1, <4>2
        <4>4. ASSUME NEW x \in Threads, x # u PROVE frame'[x] # frame'[u]
          BY <2>n, <3>1, <4>1, <4>2, <4>4
        <4>5. QED
          BY <4>2, <4>3, <4>4
      <3>2. ASSUME NEW u \in Threads, NEW w \in mapped'[u]
            PROVE  ~IsTable(Frame(w)') /\ \A x \in Threads : \A y \in mapped'[x] :
                     y # w => Frame(y)' # Frame(w)'
        <4>1. CASE u = t /\ w = v0
          <5>1. ASSUME NEW x \in Threads, NEW y \in mapped'[x], y # v0 PROVE Frame(y)' # p
            BY <1>q, <2>n, <5>1
          <5>2. QED
            BY <1>f, <1>q, <4>1, <5>1
        <4>2. CASE w \in mapped[u] /\ w # v0 /\ Frame(w)' = Frame(w)
          <5>1. /\ ~IsTable(Frame(w))
                /\ \A x \in Threads : \A y \in mapped[x] : y # w => Frame(y) # Frame(w)
            BY <4>2 DEF TableInv, OwnerInv, FrameInv
          <5>2. Frame(w) # p
            BY <1>q, <4>2
          <5>3. ASSUME NEW x \in Threads, NEW y \in mapped'[x], y # w PROVE Frame(y)' # Frame(w)
            BY <1>f, <2>n, <5>1, <5>2, <5>3
          <5>4. QED
            BY <4>2, <5>1, <5>3
        <4>3. QED
          BY <2>n, <4>1, <4>2
      <3>3. \A u \in Threads : frame'[u] # NULL => ~IsTable(frame[u])'
        BY <2>n, <3>1, <1>4 DEF IsTable
      <3>4. \A u \in Threads : \A w \in mapped'[u] : ~IsTable(Frame(w))'
        BY <3>2, <1>4 DEF IsTable
      <3>5. QED
        BY <3>1, <3>2, <3>3, <3>4 DEF FrameInv
    <2>4. QED
      BY <2>1, <2>2, <2>3 DEF OwnerInv
  <1>7. EntryInv'
    <2>1. ASSUME NEW u \in Threads, NEW w \in mapped'[u] PROVE Flat'[w].present
      <3>1. CASE w = v0
        BY <1>2, <1>4, <3>1
      <3>2. CASE w # v0
        <4>1. w \in mapped[u] /\ w \in Virts \ {v0}
          BY <1>3, <1>f, <3>2
        <4>2. QED
          BY <1>4, <4>1 DEF TableInv, EntryInv
      <3>3. QED
        BY <3>1, <3>2
    <2>2. ASSUME NEW v \in Virts, Flat'[v].present
          PROVE  \E u \in Threads : v \in mapped'[u] \/ (pc'[u] = "clear" /\ Virt(u)' = v)
      <3>1. CASE v = v0
        BY <1>3, <3>1
      <3>2. CASE v # v0
        <4>1. PICK u \in Threads : v \in mapped[u] \/ (pc[u] = "clear" /\ Virt(u) = v)
          BY <1>4, <2>2, <3>2 DEF TableInv, EntryInv
        <4>2. CASE u = t
          BY <1>1, <1>3, <4>1, <4>2
        <4>3. CASE u # t
          BY <1>1, <1>3, <4>1, <4>3 DEF Virt
        <4>4. QED
          BY <4>2, <4>3
      <3>3. QED
        BY <3>1, <3>2
    <2>3. QED
      BY <2>1, <2>2 DEF EntryInv
  <1>8. QED
    BY <1>4, <1>5, <1>6, <1>7 DEF TableInv

LEMMA ClearEntryKeeps ==
  ASSUME TableInv, NEW t \in Threads, ClearEntry(t)
  PROVE  TableInv'
  <1>v. PICK v0 : v0 = Virt(t)
    OBVIOUS
  <1>p. PICK p : p = Slot(t).page
    OBVIOUS
  <1>k. PICK keep \in BOOLEAN : keep = (pc[t] = "walk" /\ v0 \in mapped[t])
    OBVIOUS
  <1>1. /\ pc[t] \in {"walk", "clear"} /\ depth[t] = 4 /\ call[t].op = "unmap"
        /\ pc[t] = "walk" => ~call[t].free
        /\ pc' = [pc EXCEPT ![t] = "release"]
        /\ memory' = [memory EXCEPT ![table[t]][Virt(t)[depth[t]]] = Zero]
        /\ answer' = [answer EXCEPT ![t] = [done |-> TRUE, found |-> TRUE, entry |-> Zero]]
        /\ UNCHANGED <<pmm_vars, root, map_lock, call, table, depth, fresh>>
    BY DEF ClearEntry, Cleared, Goto, Answer, walk_vars, TableInv, CallInv
  <1>2. /\ v0 \in Own[t] /\ v0 \in Virts /\ Zero \in Entries /\ ~Zero.present /\ Locked(t)
        /\ pc[t] = "clear" => v0 \notin mapped[t]
        /\ p \in Nat /\ p = Frame(v0)
        /\ keep => frame[t] = NULL
    <2>1. v0 \in Virts /\ p \in Nat /\ p = Frame(v0)
      BY <1>v, <1>p, <1>1, WalkFacts DEF Entries, Frame
    <2>2. v0 \in Own[t] /\ (pc[t] = "clear" => v0 \notin mapped[t]) /\ (keep => frame[t] = NULL)
      BY <1>v, <1>k, <1>1 DEF TableInv, CallInv
    <2>3. Locked(t)
      BY <1>1 DEF Locked
    <2>4. QED
      BY <2>1, <2>2, <2>3 DEF Zero, Entries, NULL
  <1>3. /\ mapped' \in [Threads -> SUBSET Virts] /\ frame' \in [Threads -> Nat]
        /\ mapped'[t] = mapped[t] \ {v0}
        /\ frame'[t] = IF keep THEN p ELSE frame[t]
        /\ \A u \in Threads \ {t} : frame'[u] = frame[u] /\ mapped'[u] = mapped[u]
    <2>1. CASE pc[t] = "clear"
      <3>1. frame' = frame /\ mapped' = mapped
        BY <1>1, <2>1 DEF ClearEntry, client_vars
      <3>2. QED
        BY <1>2, <1>k, <2>1, <3>1 DEF TableInv, ThreadType
    <2>2. CASE pc[t] = "walk"
      <3>1. /\ frame' = [frame EXCEPT ![t] = IF keep THEN p ELSE frame[t]]
            /\ mapped' = [mapped EXCEPT ![t] = mapped[t] \ {v0}]
        BY <1>v, <1>p, <1>k, <2>2 DEF ClearEntry
      <3>2. QED
        BY <1>2, <3>1 DEF TableInv, ThreadType
    <2>3. QED
      BY <1>1, <2>1, <2>2
  <1>4. /\ BootInv' /\ RootInv' /\ FreePages' = FreePages
        /\ UsablePages(bootmap)' = UsablePages(bootmap)
        /\ MemoryType' /\ TreeInv' /\ LockInv' /\ Tree' = Tree
        /\ Flat'[v0] = Zero /\ \A w \in Virts \ {v0} : Flat'[w] = Flat[w]
        /\ \A u \in Threads : fresh[u] = NULL
        /\ \A u \in Threads : CallInv(u)'
    BY <1>v, <1>1, <1>2, <1>3, LeafKeeps
  <1>m. ASSUME NEW u \in Threads PROVE mapped'[u] = mapped[u] \ {v0} /\ mapped[u] \subseteq Virts
    <2>1. mapped[u] \subseteq Virts
      BY DEF TableInv, ThreadType
    <2>2. CASE u = t
      BY <1>3, <2>1, <2>2
    <2>3. CASE u # t
      <3>1. v0 \notin mapped[u]
        BY <1>2, <2>3, OneOwner
      <3>2. mapped'[u] = mapped[u]
        BY <1>3, <2>3
      <3>3. QED
        BY <2>1, <3>1, <3>2
    <2>4. QED
      BY <2>2, <2>3
  <1>5. ThreadType'
    <2>1. [done |-> TRUE, found |-> TRUE, entry |-> Zero] \in Answers
      BY <1>2 DEF Answers
    <2>2. \A u \in Threads : mapped'[u] \subseteq Own[u]
      BY <1>m DEF TableInv, ThreadType
    <2>3. QED
      BY <1>1, <1>3, <2>1, <2>2 DEF TableInv, ThreadType, Places
  <1>f. \A u \in Threads : \A w \in mapped'[u] : w \in mapped[u] /\ w # v0 /\ Frame(w)' = Frame(w)
    BY <1>4, <1>m DEF Frame
  <1>q. keep => /\ p \in UsablePages(bootmap) \ FreePages /\ ~IsTable(p) /\ v0 \in mapped[t]
                /\ \A u \in Threads : frame[u] # NULL => frame[u] # p
                /\ \A u \in Threads : \A w \in mapped[u] : w # v0 => Frame(w) # p
    BY <1>k, <1>2 DEF TableInv, OwnerInv, UsedInv, FrameInv
  <1>g. \A u \in Threads : frame'[u] # NULL =>
          \/ keep /\ u = t /\ frame'[u] = p
          \/ ~(keep /\ u = t) /\ frame'[u] = frame[u]
    BY <1>3
  <1>6. OwnerInv'
    <2>i. \A q : IsTable(q)' <=> IsTable(q)
      BY <1>4 DEF IsTable
    <2>1. UsedInv'
      <3>1. \A q \in FreePages : ~IsTable(q)'
        BY <2>i DEF TableInv, OwnerInv, UsedInv
      <3>2. \A u \in Threads : frame'[u] # NULL => frame'[u] \in UsablePages(bootmap) \ FreePages
        BY <1>g, <1>q DEF TableInv, OwnerInv, UsedInv
      <3>3. \A u \in Threads : \A w \in mapped'[u] : Frame(w)' \in UsablePages(bootmap) \ FreePages
        BY <1>f DEF TableInv, OwnerInv, UsedInv
      <3>4. QED
        BY <1>1, <1>4, <3>1, <3>2, <3>3 DEF UsedInv
    <2>2. FreshInv'
      BY <1>1, <1>4 DEF FreshInv
    <2>3. FrameInv'
      <3>1. ASSUME NEW u \in Threads, frame'[u] # NULL
            PROVE  /\ ~IsTable(frame[u])'
                   /\ \A x \in Threads : /\ x # u => frame'[x] # frame'[u]
                                         /\ \A w \in mapped'[x] : Frame(w)' # frame'[u]
        <4>1. CASE keep /\ u = t /\ frame'[u] = p
          <5>1. ~IsTable(frame[u])'
            BY <1>4, <1>q, <3>1, <4>1 DEF IsTable
          <5>2. ASSUME NEW x \in Threads, x # u PROVE frame'[x] # p
            BY <1>g, <1>q, <3>1, <4>1, <5>2
          <5>3. ASSUME NEW x \in Threads, NEW w \in mapped'[x] PROVE Frame(w)' # p
            BY <1>f, <1>q, <4>1
          <5>4. QED
            BY <4>1, <5>1, <5>2, <5>3
        <4>2. CASE ~(keep /\ u = t) /\ frame'[u] = frame[u]
          <5>0. /\ ~IsTable(frame[u])
                /\ \A x \in Threads : /\ x # u => frame[x] # frame[u]
                                      /\ \A w \in mapped[x] : Frame(w) # frame[u]
            BY <3>1, <4>2 DEF TableInv, OwnerInv, FrameInv
          <5>1. ~IsTable(frame[u])'
            BY <1>4, <4>2, <5>0 DEF IsTable
          <5>2. ASSUME NEW x \in Threads, x # u PROVE frame'[x] # frame[u]
            <6>1. CASE frame'[x] = NULL
              BY <3>1, <4>2, <6>1
            <6>2. CASE frame'[x] # NULL
              BY <1>g, <1>q, <3>1, <4>2, <5>0, <5>2, <6>2
            <6>3. QED
              BY <6>1, <6>2
          <5>3. ASSUME NEW x \in Threads, NEW w \in mapped'[x] PROVE Frame(w)' # frame[u]
            BY <1>f, <5>0
          <5>4. QED
            BY <4>2, <5>1, <5>2, <5>3
        <4>3. QED
          BY <1>g, <3>1, <4>1, <4>2
      <3>2. ASSUME NEW u \in Threads, NEW w \in mapped'[u]
            PROVE  ~IsTable(Frame(w))' /\ \A x \in Threads : \A y \in mapped'[x] :
                     y # w => Frame(y)' # Frame(w)'
        <4>1. /\ ~IsTable(Frame(w))
              /\ \A x \in Threads : \A y \in mapped[x] : y # w => Frame(y) # Frame(w)
          BY <1>f DEF TableInv, OwnerInv, FrameInv
        <4>2. ~IsTable(Frame(w))'
          BY <1>4, <1>f, <4>1 DEF IsTable
        <4>3. QED
          BY <1>f, <4>1, <4>2
      <3>3. QED
        BY <3>1, <3>2 DEF FrameInv
    <2>4. QED
      BY <2>1, <2>2, <2>3 DEF OwnerInv
  <1>7. EntryInv'
    <2>1. ASSUME NEW u \in Threads, NEW w \in mapped'[u] PROVE Flat'[w].present
      <3>1. w \in mapped[u] /\ w \in Virts \ {v0}
        BY <1>f, <1>m
      <3>2. QED
        BY <1>4, <3>1 DEF TableInv, EntryInv
    <2>2. ASSUME NEW v \in Virts, Flat'[v].present
          PROVE  \E u \in Threads : v \in mapped'[u] \/ (pc'[u] = "clear" /\ Virt(u)' = v)
      <3>1. v # v0 /\ Flat[v].present
        BY <1>2, <1>4, <2>2
      <3>2. PICK u \in Threads : v \in mapped[u] \/ (pc[u] = "clear" /\ Virt(u) = v)
        BY <3>1 DEF TableInv, EntryInv
      <3>3. CASE u = t
        BY <1>v, <1>m, <3>1, <3>2, <3>3
      <3>4. CASE u # t
        <4>1. pc'[u] = pc[u] /\ Virt(u)' = Virt(u)
          BY <1>1, <3>4 DEF Virt, TableInv, ThreadType
        <4>2. QED
          BY <1>m, <3>1, <3>2, <4>1
      <3>5. QED
        BY <3>3, <3>4
    <2>3. QED
      BY <2>1, <2>2 DEF EntryInv
  <1>8. QED
    BY <1>4, <1>5, <1>6, <1>7 DEF TableInv

-----------------------------------------------------------------------------
(* Boot: nobody has called yet. *)
LEMMA IdleKeeps ==
  ASSUME ThreadType, LockInv, \A t \in Threads : CallInv(t), UNCHANGED <<map_lock, thread_vars>>,
         \A t \in Threads : pc[t] = "idle"
  PROVE  ThreadType' /\ LockInv' /\ \A t \in Threads : CallInv(t)'
  <1>1. UNCHANGED <<map_lock, pc, call, table, depth, fresh, frame, mapped, answer>>
    BY DEF thread_vars, walk_vars, client_vars
  <1>2. QED
    BY <1>1 DEF ThreadType, LockInv, Locked, CallInv

LEMMA BootKeeps ==
  ASSUME TableInv, Boot
  PROVE  TableInv'
  <1>1. BootInv' /\ bootmap' = bootmap /\ phase \in {"count", "locate", "push"}
    BY BootKeepsBootInv DEF TableInv, Boot
  <1>2. UNCHANGED <<root, memory, map_lock, thread_vars>>
        /\ UNCHANGED <<pc, call, fresh, frame, mapped>>
    BY DEF Boot, thread_vars, walk_vars, client_vars
  <1>3. root = NULL /\ \A t \in Threads :
          pc[t] = "idle" /\ fresh[t] = NULL /\ frame[t] = NULL /\ mapped[t] = {}
    BY <1>1 DEF TableInv, RootInv
  <1>4. MemoryType' /\ TreeInv' /\ Tree' = Tree /\ Flat' = Flat
    BY <1>1, <1>2, MemorySame DEF TableInv
  <1>5. ThreadType' /\ LockInv' /\ \A t \in Threads : CallInv(t)'
    BY <1>2, <1>3, IdleKeeps DEF TableInv
  <1>6. RootInv'
    BY <1>2, <1>3 DEF TableInv, RootInv
  <1>7. OwnerInv'
    <2>1. \A v \in Virts : \A d \in 1 .. 4 : Tree[v][d] = NULL
      <3>1. ASSUME NEW v \in Virts
            PROVE  Node(v, 1) = NULL /\ Node(v, 1 + 1) = NULL /\ Node(v, 2 + 1) = NULL
                   /\ Node(v, 3 + 1) = NULL
        BY <1>3, NodeStep DEF Down
      <3>2. \A v \in Virts : \A d \in 1 .. 4 : Node(v, d) = NULL
        BY <3>1
      <3>3. QED
        BY <3>2, Views
    <2>2. \A p : ~IsTable(p)'
      BY <1>4, <2>1 DEF IsTable
    <2>3. UsedInv' /\ FreshInv' /\ FrameInv'
      BY <1>2, <1>3, <2>2 DEF UsedInv, FreshInv, FrameInv
    <2>4. QED
      BY <2>3 DEF OwnerInv
  <1>8. EntryInv'
    BY <1>2, <1>4 DEF TableInv, EntryInv, Virt
  <1>9. QED
    BY <1>1, <1>4, <1>5, <1>6, <1>7, <1>8 DEF TableInv

LEMMA CreateRootKeeps ==
  ASSUME TableInv, CreateRoot
  PROVE  TableInv'
  <1>p. PICK p : p = Granted(1)
    OBVIOUS
  <1>1. /\ root = NULL /\ root' = p /\ memory' = [memory EXCEPT ![p] = ZeroPage]
        /\ UNCHANGED <<map_lock, thread_vars>>
        /\ UNCHANGED <<pc, call, fresh, frame, mapped>>
    BY <1>p DEF CreateRoot, thread_vars, walk_vars, client_vars
  <1>2. /\ BootInv' /\ SamePool /\ phase = "ready" /\ pm_stack_base # NULL
        /\ p \in FreePages /\ FreePages' = FreePages \ {p}
    BY <1>p, GrantOne DEF CreateRoot, TableInv
  <1>3. p \in UsablePages(bootmap) /\ p \in Nat /\ p # NULL
    BY <1>2, UsableIsNotNull DEF TableInv, BootInv
  <1>4. /\ MemoryType' /\ TreeInv'
        /\ \A v \in Virts : \A d \in 1 .. 4 :
             Tree[v][d] = NULL /\ Tree'[v][d] = IF d = 1 THEN p ELSE NULL
        /\ \A v \in Virts : Flat[v] = Zero /\ Flat'[v] = Zero
    BY <1>1, <1>2, <1>3, RootWrite DEF TableInv, SamePool
  <1>5. \A t \in Threads : pc[t] = "idle" /\ fresh[t] = NULL /\ frame[t] = NULL /\ mapped[t] = {}
    BY <1>1 DEF TableInv, RootInv
  <1>6. ThreadType' /\ LockInv' /\ \A t \in Threads : CallInv(t)'
    BY <1>1, <1>5, IdleKeeps DEF TableInv
  <1>7. RootInv'
    BY <1>1, <1>2, <1>3, <1>5 DEF RootInv, SamePool
  <1>8. OwnerInv'
    <2>1. \A q : IsTable(q)' => q = p
      BY <1>4 DEF IsTable
    <2>2. UsedInv' /\ FreshInv' /\ FrameInv'
      BY <1>1, <1>2, <1>5, <2>1 DEF UsedInv, FreshInv, FrameInv
    <2>3. QED
      BY <2>2 DEF OwnerInv
  <1>9. EntryInv'
    BY <1>1, <1>4, <1>5 DEF EntryInv, Zero
  <1>10. QED
    BY <1>2, <1>4, <1>6, <1>7, <1>8, <1>9 DEF TableInv

-----------------------------------------------------------------------------
LEMMA InitTables ==
  ASSUME Init
  PROVE  TableInv
  <1>1. /\ PMMInit /\ root = NULL /\ memory = [p \in UsablePages(bootmap) |-> Dirty]
        /\ map_lock = Nobody /\ pc = [t \in Threads |-> "idle"]
        /\ call = [t \in Threads |-> NoCall] /\ table = [t \in Threads |-> NULL]
        /\ depth = [t \in Threads |-> 1] /\ fresh = [t \in Threads |-> NULL]
        /\ frame = [t \in Threads |-> NULL] /\ mapped = [t \in Threads |-> {}]
        /\ answer = [t \in Threads |-> NoAnswer]
    BY DEF Init
  <1>2. BootInv
    <2>1. /\ phase = "count" /\ bootmap \in MemMaps /\ memmap = bootmap /\ ent = 1 /\ off = 0
          /\ pm_stack_base = NULL /\ pm_stack_idx = 0 /\ pm_total_pages = 0
      BY <1>1 DEF PMMInit
    <2>2. bootmap \in Seq(Entry)
      BY <2>1, MemMapsAssumption
    <2>3. bootmap \in [DOMAIN bootmap -> Entry]
      BY <2>2
    <2>4. \A a \in DOMAIN bootmap : bootmap[a].length \in Nat
      BY <2>3 DEF Entry
    <2>5. Shrunk /\ StackType
      BY <2>1, <2>4 DEF Shrunk, StackType
    <2>6. QED
      BY <2>1, <2>3, <2>5 DEF BootInv
  <1>3. MemoryType
    BY <1>1 DEF MemoryType, Dirty, Link
  <1>4. ThreadType /\ LockInv /\ RootInv
    <2>1. NoAnswer \in Answers /\ NULL \in Nat /\ 1 \in 1 .. 4
      BY DEF NoAnswer, Answers, Zero, Entries, NULL
    <2>2. ThreadType
      BY <1>1, <2>1 DEF ThreadType, Places
    <2>3. LockInv
      BY <1>1, ThreadsAssumption DEF LockInv, Locked
    <2>4. RootInv
      BY <1>1, <2>1 DEF RootInv
    <2>5. QED
      BY <2>2, <2>3, <2>4
  <1>5. \A v \in Virts : \A d \in 1 .. 4 : Node(v, d) = NULL
    <2>1. ASSUME NEW v \in Virts
          PROVE  Node(v, 1) = NULL /\ Node(v, 1 + 1) = NULL /\ Node(v, 2 + 1) = NULL
                 /\ Node(v, 3 + 1) = NULL
      BY <1>1, NodeStep DEF Down
    <2>2. QED
      BY <2>1
  <1>6. TreeInv
    BY <1>5 DEF TreeInv
  <1>7. OwnerInv
    <2>1. \A p : ~IsTable(p)
      BY <1>5, Views DEF IsTable
    <2>2. UsedInv /\ FreshInv /\ FrameInv
      BY <1>1, <2>1 DEF UsedInv, FreshInv, FrameInv
    <2>3. QED
      BY <2>2 DEF OwnerInv
  <1>8. EntryInv
    <2>1. \A v \in Virts : Flat[v] = Zero
      BY <1>5, Views, MappingPrimed
    <2>2. QED
      BY <1>1, <2>1 DEF EntryInv, Zero
  <1>9. \A t \in Threads : CallInv(t)
    BY <1>1 DEF CallInv
  <1>10. QED
    BY <1>2, <1>3, <1>4, <1>6, <1>7, <1>8, <1>9 DEF TableInv

LEMMA NextTables ==
  ASSUME TableInv, Next
  PROVE  TableInv'
  <1>1. CASE Boot \/ CreateRoot
    BY <1>1, BootKeeps, CreateRootKeeps
  <1>2. CASE \E t \in Threads : \E v \in Virts :
               CallMap(t, v) \/ CallVirt2Phys(t, v) \/ \E free \in BOOLEAN : CallUnmap(t, v, free)
    <2>1. PICK t \in Threads, v \in Virts :
            CallMap(t, v) \/ CallVirt2Phys(t, v) \/ \E free \in BOOLEAN : CallUnmap(t, v, free)
      BY <1>2
    <2>2. CASE CallMap(t, v) \/ CallVirt2Phys(t, v)
      BY <2>2, CallKeeps
    <2>3. CASE \E free \in BOOLEAN : CallUnmap(t, v, free)
      BY <2>3, CallKeeps
    <2>4. QED
      BY <2>1, <2>2, <2>3
  <1>3. CASE \E t \in Threads : TakeFrame(t) \/ DropFrame(t)
    BY <1>3, TakeFrameKeeps, DropFrameKeeps
  <1>4. CASE \E t \in Threads : Step(t)
    <2>1. PICK t \in Threads : Step(t)
      BY <1>4
    <2>2. CASE Acquire(t) \/ Descend(t) \/ Missing(t) \/ ReadEntry(t) \/ Release(t) \/ Return(t)
      BY <2>2, AcquireKeeps, DescendKeeps, LookKeeps, LeaveKeeps
    <2>3. CASE RequestTable(t) \/ ZeroTable(t) \/ LinkTable(t)
      BY <2>3, RequestTableKeeps, ZeroTableKeeps, LinkTableKeeps
    <2>4. CASE WriteEntry(t) \/ FreeFrame(t) \/ ClearEntry(t)
      BY <2>4, WriteEntryKeeps, FreeFrameKeeps, ClearEntryKeeps
    <2>5. QED
      BY <2>1, <2>2, <2>3, <2>4 DEF Step
  <1>5. QED
    BY <1>1, <1>2, <1>3, <1>4 DEF Next

LEMMA StutterTables ==
  ASSUME TableInv, UNCHANGED vars
  PROVE  TableInv'
  <1>1. UNCHANGED <<pmm_vars, root, memory, map_lock, pc, call, table, depth, fresh, frame,
                    mapped, answer>>
    BY DEF vars, thread_vars, walk_vars, client_vars
  <1>2. /\ BootInv' /\ FreePages' = FreePages /\ phase' = phase /\ pm_stack_base' = pm_stack_base
        /\ UsablePages(bootmap)' = UsablePages(bootmap)
    BY <1>1, PoolSame DEF TableInv
  <1>3. MemoryType' /\ TreeInv' /\ Tree' = Tree /\ Flat' = Flat
    BY <1>1, MemorySame DEF TableInv, pmm_vars, pmm_memory
  <1>4. ThreadType' /\ LockInv' /\ RootInv'
    BY <1>1, <1>2 DEF TableInv, ThreadType, LockInv, Locked, RootInv
  <1>5. UsedInv' /\ FreshInv' /\ FrameInv'
    <2>1. UsedInv'
      BY <1>1, <1>2, <1>3 DEF TableInv, OwnerInv, UsedInv, IsTable, Frame
    <2>2. FreshInv'
      BY <1>1, <1>3 DEF TableInv, OwnerInv, FreshInv, IsTable, Frame
    <2>3. FrameInv'
      BY <1>1, <1>3 DEF TableInv, OwnerInv, FrameInv, IsTable, Frame
    <2>4. QED
      BY <2>1, <2>2, <2>3
  <1>6. EntryInv'
    BY <1>1, <1>3 DEF TableInv, EntryInv, Virt
  <1>7. ASSUME NEW t \in Threads PROVE CallInv(t)'
    <2>1. Still(t) /\ TreeGrows
      BY <1>1, <1>3 DEF Still, TreeGrows
    <2>2. QED
      BY <1>1, <2>1, StillKeepsCall DEF TableInv
  <1>8. QED
    BY <1>2, <1>3, <1>4, <1>5, <1>6, <1>7 DEF TableInv, OwnerInv

(* The page tables are a tree that nothing but vmm.c writes, whatever the  *)
(* interleaving of its callers: the invariant of this module.              *)
THEOREM VMMTables == Spec => []TableInv
  <1>1. TableInv /\ [Next]_vars => TableInv'
    BY NextTables, StutterTables
  <1>2. QED
    BY <1>1, InitTables, PTL DEF Spec

(* What vmm_map, vmm_unmap and virt2phys keep in memory and on their       *)
(* stacks has its type, and a thread maps no page that is not its own.     *)
THEOREM VMMTypeOK == Spec => []TypeOK
  <1>1. TableInv => TypeOK
    BY DEF TableInv, TypeOK, ThreadType, MemoryType, RootInv, Calls, Answers, Places, Entries
  <1>2. QED
    BY <1>1, VMMTables, PTL

(* The tables as the runs see them.                                        *)
Level(d) == {Node(v, d) : v \in Virts} \ {NULL}

LEMMA LevelBelow ==
  ASSUME TreeInv, NEW k \in 1 .. 3
  PROVE  Below(Level(k)) = Level(k + 1)
  <1>1. ASSUME NEW v \in Virts, Node(v, k + 1) # NULL PROVE Node(v, k + 1) \in Below(Level(k))
    <2>1. Node(v, k) # NULL /\ memory[Node(v, k)][v[k]].present
          /\ Node(v, k + 1) = memory[Node(v, k)][v[k]].page
      BY <1>1, NodeStep DEF Down
    <2>2. v[k] \in Index
      BY VirtType
    <2>3. <<Node(v, k), v[k]>> \in Links(Level(k))
      BY <2>1, <2>2 DEF Links, Level
    <2>4. QED
      BY <2>1, <2>3 DEF Below
  <1>2. ASSUME NEW s \in Links(Level(k)) PROVE memory[s[1]][s[2]].page \in Level(k + 1)
    <2>1. PICK v \in Virts, i \in Index :
            s = <<Node(v, k), i>> /\ Node(v, k) # NULL /\ memory[Node(v, k)][i].present
      BY DEF Links, Level
    <2>2. /\ memory[Node(v, k)][i].page # NULL
          /\ \E w \in Virts : SamePath(v, w, k) /\ w[k] = i
      BY <2>1 DEF TreeInv
    <2>3. PICK w \in Virts : SamePath(v, w, k) /\ w[k] = i
      BY <2>2
    <2>4. Node(w, k) = Node(v, k)
      BY <2>3, PathDecides
    <2>5. Node(w, k + 1) = memory[Node(v, k)][i].page
      BY <2>1, <2>3, <2>4, NodeStep DEF Down
    <2>6. QED
      BY <2>1, <2>2, <2>5 DEF Level
  <1>3. QED
    BY <1>1, <1>2 DEF Below, Level

LEMMA TablesAtLevels == TableInv => \A d \in 1 .. 4 : TablesAt[d] = Level(d)
  <1> SUFFICES ASSUME TableInv PROVE \A d \in 1 .. 4 : TablesAt[d] = Level(d)
    OBVIOUS
  <1> DEFINE T1 == {root} \ {NULL}
             T2 == Below(T1)
             T3 == Below(T2)
             T4 == Below(T3)
  <1>1. TablesAt = <<T1, T2, T3, T4>>
    BY DEF TablesAt
  <1>2. T1 = Level(1)
    BY NodeStep, VirtType DEF Level
  <1>3. \A k \in 1 .. 3 : Below(Level(k)) = Level(k + 1)
    BY LevelBelow DEF TableInv
  <1>4. Below(Level(1)) = Level(1 + 1) /\ Below(Level(2)) = Level(2 + 1)
        /\ Below(Level(3)) = Level(3 + 1)
    BY <1>3
  <1> HIDE DEF T1
  <1>5. T2 = Level(2)
    BY <1>2, <1>4
  <1> HIDE DEF T2
  <1>6. T3 = Level(3)
    BY <1>4, <1>5
  <1> HIDE DEF T3
  <1>7. T4 = Level(4)
    BY <1>4, <1>6
  <1> HIDE DEF T4
  <1>8. \A d \in 1 .. 4 : d = 1 \/ d = 2 \/ d = 3 \/ d = 4
    OBVIOUS
  <1>9. QED
    BY <1>1, <1>2, <1>5, <1>6, <1>7, <1>8

(* A walk stands on a table of its level, the one of virt2phys, which      *)
(* takes no lock, included.                                                *)
THEOREM VMMWalksStayOnTables == Spec => []WalksStayOnTables
  <1>1. TableInv => WalksStayOnTables
    <2>1. ASSUME TableInv, NEW t \in Threads, pc[t] \in {"walk", "zero", "link", "clear"}
          PROVE  table[t] \in TablesAt[depth[t]]
      <3>1. /\ Virt(t) \in Virts /\ depth[t] \in 1 .. 4
            /\ table[t] = Node(Virt(t), depth[t]) /\ table[t] # NULL
        BY <2>1, WalkFacts
      <3>2. table[t] \in Level(depth[t])
        BY <3>1 DEF Level
      <3>3. QED
        BY <2>1, <3>1, <3>2, TablesAtLevels
    <2>2. QED
      BY <2>1 DEF WalksStayOnTables
  <1>2. QED
    BY <1>1, VMMTables, PTL

(* vmm_map's mapping stays until its vmm_unmap, and vmm_unmap leaves none  *)
(* behind: what others map and unmap meanwhile does not touch it.          *)
THEOREM VMMMappingsAreOwned == Spec => []MappingsAreOwned
  <1>1. TableInv => MappingsAreOwned
    <2>1. ASSUME TableInv, NEW v \in Virts
          PROVE  /\ v \in MappedPages => Mapping(v).present
                 /\ Mapping(v).present => v \in MappedPages \/ Clearing(v)
      BY <2>1, Views DEF TableInv, EntryInv, MappedPages, Clearing
    <2>2. QED
      BY <2>1 DEF MappingsAreOwned
  <1>2. QED
    BY <1>1, VMMTables, PTL

-----------------------------------------------------------------------------
(* What the page tables do over time: they are a tree and only grow, seen  *)
(* from outside they are the flat map of AddressSpace.tla, and no page of  *)
(* pmm.c gets lost.                                                        *)

(* One step, seen in the tables. *)
Unseen == Tree' = Tree /\ Flat' = Flat

LEMMA UnseenStep ==
  ASSUME TableInv, UNCHANGED <<root, memory, bootmap>>
  PROVE  Unseen
  BY MemorySame DEF TableInv, Unseen

LEMMA PoolUnseen ==
  ASSUME TableInv, NEW p, UNCHANGED <<root, memory>>,
         pmm_request_pages(1) \/ pmm_free_pages(p, 1) \/ UNCHANGED pmm_vars
  PROVE  Unseen
  <1>1. bootmap' = bootmap
    BY DEF pmm_request_pages, pmm_free_pages, pmm_vars, pmm_memory
  <1>2. QED
    BY <1>1, UnseenStep

(* The steps that do not touch a table. *)
Alike == UNCHANGED <<call, answer>>

LEMMA PlainSteps ==
  ASSUME TableInv, NEW t \in Threads
  PROVE  /\ TakeFrame(t) \/ DropFrame(t) => Unseen /\ Alike
         /\ Acquire(t) \/ Descend(t) \/ RequestTable(t) => Unseen /\ Alike
         /\ FreeFrame(t) => Unseen /\ Alike
         /\ Missing(t) \/ ReadEntry(t) \/ Release(t) \/ Return(t) => Unseen
         /\ \A v \in Virts : CallMap(t, v) \/ CallVirt2Phys(t, v) => Unseen
         /\ \A v \in Virts : \A free \in BOOLEAN : CallUnmap(t, v, free) => Unseen
  <1>1. TakeFrame(t) \/ DropFrame(t) => Unseen /\ Alike
    BY PoolUnseen DEF TakeFrame, DropFrame, Alike, walk_vars
  <1>2. Acquire(t) \/ Descend(t) \/ RequestTable(t) => Unseen /\ Alike
    BY PoolUnseen DEF Acquire, Descend, RequestTable, Alike, walk_vars
  <1>3. FreeFrame(t) => Unseen /\ Alike
    BY PoolUnseen DEF FreeFrame, Alike, walk_vars
  <1>4. Missing(t) \/ ReadEntry(t) \/ Release(t) \/ Return(t) => Unseen
    BY PoolUnseen DEF Missing, ReadEntry, Release, Return
  <1>5. \A v \in Virts : CallMap(t, v) \/ CallVirt2Phys(t, v) => Unseen
    BY PoolUnseen DEF CallMap, CallVirt2Phys, Begin
  <1>6. \A v \in Virts : \A free \in BOOLEAN : CallUnmap(t, v, free) => Unseen
    BY PoolUnseen DEF CallUnmap, Begin
  <1>7. QED
    BY <1>1, <1>2, <1>3, <1>4, <1>5, <1>6

LEMMA BootUnseen ==
  ASSUME TableInv, Boot
  PROVE  Unseen /\ Alike
  <1>1. bootmap' = bootmap
    BY BootKeepsBootInv DEF Boot, TableInv
  <1>2. QED
    BY <1>1, UnseenStep DEF Boot, thread_vars, walk_vars, Alike

LEMMA RootUnseen ==
  ASSUME TableInv, CreateRoot
  PROVE  TreeGrows /\ Flat' = Flat /\ Alike
  <1>p. PICK p : p = Granted(1)
    OBVIOUS
  <1>1. /\ root = NULL /\ root' = p /\ memory' = [memory EXCEPT ![p] = ZeroPage]
        /\ Alike
    BY <1>p DEF CreateRoot, thread_vars, walk_vars, Alike
  <1>2. SamePool /\ phase = "ready" /\ p \in FreePages
    BY <1>p, GrantOne DEF CreateRoot, TableInv
  <1>3. p \in UsablePages(bootmap) /\ p # NULL
    BY <1>2, UsableIsNotNull DEF TableInv, BootInv
  <1>4. /\ \A v \in Virts : \A d \in 1 .. 4 : Tree[v][d] = NULL
        /\ \A v \in Virts : Flat[v] = Zero /\ Flat'[v] = Zero
    BY <1>1, <1>2, <1>3, RootWrite DEF TableInv, SamePool
  <1>5. Flat' = Flat
    BY <1>4 DEF Flat
  <1>6. QED
    BY <1>1, <1>4, <1>5 DEF TreeGrows

LEMMA ZeroUnseen ==
  ASSUME TableInv, NEW t \in Threads, ZeroTable(t)
  PROVE  Unseen /\ Alike
  <1>1. /\ fresh[t] # NULL /\ bootmap' = bootmap /\ root' = root /\ Alike
        /\ memory' = [memory EXCEPT ![fresh[t]] = ZeroPage]
    BY DEF ZeroTable, TableInv, CallInv, pmm_vars, pmm_memory, walk_vars, Alike
  <1>2. fresh[t] \in UsablePages(bootmap) /\ ~IsTable(fresh[t])
    BY <1>1 DEF TableInv, OwnerInv, UsedInv, FreshInv
  <1>3. \A v \in Virts : \A d \in 1 .. 4 : Node(v, d) # fresh[t]
    BY <1>1, <1>2, Views DEF IsTable
  <1>4. NodesKept /\ MappingsKept
    BY <1>1, <1>2, <1>3, PageWrite DEF TableInv
  <1>5. QED
    BY <1>1, <1>4, ViewsKept DEF Unseen

LEMMA LinkUnseen ==
  ASSUME TableInv, NEW t \in Threads, LinkTable(t)
  PROVE  TreeGrows /\ Flat' = Flat /\ Alike
  <1>p. PICK p : p = fresh[t]
    OBVIOUS
  <1>v. PICK v0 : v0 = Virt(t)
    OBVIOUS
  <1>d. PICK d0 : d0 = depth[t]
    OBVIOUS
  <1>1. /\ pc[t] = "link" /\ p # NULL /\ d0 < 4 /\ ~Slot(t).present /\ memory[p] = ZeroPage
        /\ bootmap' = bootmap /\ root' = root /\ Alike
    BY <1>p, <1>d DEF LinkTable, TableInv, CallInv, pmm_vars, pmm_memory, Alike
  <1>2. /\ v0 \in Virts /\ d0 \in 1 .. 3 /\ p \in Nat
        /\ table[t] = Node(v0, d0) /\ table[t] # NULL
    BY <1>p, <1>v, <1>d, <1>1, WalkFacts DEF TableInv, ThreadType
  <1>3. p \in UsablePages(bootmap) /\ ~IsTable(p)
    BY <1>p, <1>1 DEF TableInv, OwnerInv, UsedInv, FreshInv
  <1>4. \A v \in Virts : \A d \in 1 .. 4 : Node(v, d) # p
    BY <1>1, <1>3, Views DEF IsTable
  <1>5. ~memory[Node(v0, d0)][v0[d0]].present
    BY <1>v, <1>d, <1>1, <1>2 DEF Slot
  <1>6. memory' = [memory EXCEPT ![Node(v0, d0)][v0[d0]] = Link(p)]
    BY <1>p, <1>v, <1>d, <1>2 DEF LinkTable, Store
  <1>7. NodesGrow /\ MappingsKept
    BY <1>1, <1>2, <1>3, <1>4, <1>5, <1>6, LinkWrite DEF TableInv
  <1>8. QED
    BY <1>1, <1>7, ViewsKept

(* The entry that vmm_map or vmm_unmap writes last is that of its page. *)
LEMMA LeafSeen ==
  ASSUME TableInv, NEW t \in Threads, NEW e \in Entries, UNCHANGED <<pmm_vars, root>>,
         pc[t] \in {"walk", "clear"}, depth[t] = 4,
         memory' = [memory EXCEPT ![table[t]][Virt(t)[depth[t]]] = e]
  PROVE  /\ Virt(t) \in Virts /\ Tree' = Tree
         /\ Flat' = [Flat EXCEPT ![Virt(t)] = e]
  <1>v. PICK v0 : v0 = Virt(t)
    OBVIOUS
  <1>1. v0 \in Virts /\ table[t] = Node(v0, 4) /\ Node(v0, 4) # NULL
    BY <1>v, WalkFacts
  <1>2. bootmap' = bootmap /\ memory' = [memory EXCEPT ![Node(v0, 4)][v0[4]] = e]
    BY <1>v, <1>1 DEF pmm_vars, pmm_memory
  <1>3. /\ NodesKept /\ Mapping(v0)' = e
        /\ \A w \in Virts \ {v0} : Mapping(w)' = Mapping(w)
    BY <1>1, <1>2, LeafWrite DEF TableInv
  <1>4. Tree' = Tree
    BY <1>3, ViewsKept
  <1>5. Flat' = [Flat EXCEPT ![v0] = e]
    BY <1>1, <1>3 DEF Flat
  <1>6. QED
    BY <1>v, <1>1, <1>4, <1>5

LEMMA WriteSeen ==
  ASSUME TableInv, NEW t \in Threads, WriteEntry(t)
  PROVE  /\ Virt(t) \in Virts /\ Tree' = Tree
         /\ call[t].entry = Link(frame[t])
         /\ answer' = [answer EXCEPT ![t] = [done |-> TRUE, found |-> TRUE, entry |-> Zero]]
         /\ Flat' = [Flat EXCEPT ![Virt(t)] = Link(frame[t])]
  <1>1. /\ pc[t] = "walk" /\ depth[t] = 4 /\ UNCHANGED <<pmm_vars, root>>
        /\ call[t].entry = Link(frame[t])
        /\ memory' = [memory EXCEPT ![table[t]][Virt(t)[depth[t]]] = Link(frame[t])]
        /\ answer' = [answer EXCEPT ![t] = [done |-> TRUE, found |-> TRUE, entry |-> Zero]]
    BY DEF WriteEntry, Store, Answer, TableInv, CallInv
  <1>2. frame[t] \in Nat \ {NULL}
    BY DEF WriteEntry, TableInv, CallInv, ThreadType
  <1>3. Link(frame[t]) \in Entries
    BY <1>2 DEF Link, Entries
  <1>4. QED
    BY <1>1, <1>3, LeafSeen

LEMMA ClearSeen ==
  ASSUME TableInv, NEW t \in Threads, ClearEntry(t)
  PROVE  /\ Virt(t) \in Virts /\ Tree' = Tree
         /\ answer' = [answer EXCEPT ![t] = [done |-> TRUE, found |-> TRUE, entry |-> Zero]]
         /\ Flat' = [Flat EXCEPT ![Virt(t)] = Zero]
  <1>1. /\ pc[t] \in {"walk", "clear"} /\ depth[t] = 4 /\ UNCHANGED <<pmm_vars, root>>
        /\ memory' = [memory EXCEPT ![table[t]][Virt(t)[depth[t]]] = Zero]
        /\ answer' = [answer EXCEPT ![t] = [done |-> TRUE, found |-> TRUE, entry |-> Zero]]
    BY DEF ClearEntry, Cleared, Answer, TableInv, CallInv
  <1>2. Zero \in Entries
    BY DEF Zero, Entries, NULL
  <1>3. QED
    BY <1>1, <1>2, LeafSeen

-----------------------------------------------------------------------------
(* The tables only grow. *)
LEMMA StepGrows == TableInv /\ [Next]_vars => TreeGrows
  <1> SUFFICES ASSUME TableInv, [Next]_vars PROVE TreeGrows
    OBVIOUS
  <1>1. Unseen => TreeGrows
    BY DEF Unseen, TreeGrows
  <1>2. Tree' = Tree => TreeGrows
    BY DEF TreeGrows
  <1>3. CASE UNCHANGED vars
    BY <1>1, <1>3, PoolUnseen DEF vars
  <1>4. CASE Boot \/ CreateRoot
    BY <1>1, <1>4, BootUnseen, RootUnseen
  <1>5. CASE \E t \in Threads : \E v \in Virts :
               CallMap(t, v) \/ CallVirt2Phys(t, v) \/ \E free \in BOOLEAN : CallUnmap(t, v, free)
    BY <1>1, <1>5, PlainSteps
  <1>6. CASE \E t \in Threads : TakeFrame(t) \/ DropFrame(t)
    BY <1>1, <1>6, PlainSteps
  <1>7. CASE \E t \in Threads : Step(t)
    <2>1. PICK t \in Threads : Step(t)
      BY <1>7
    <2>2. CASE \/ Acquire(t) \/ Descend(t) \/ Missing(t) \/ ReadEntry(t) \/ Release(t)
               \/ Return(t) \/ RequestTable(t) \/ FreeFrame(t)
      BY <1>1, <2>2, PlainSteps
    <2>3. CASE ZeroTable(t) \/ LinkTable(t)
      BY <1>1, <2>3, ZeroUnseen, LinkUnseen
    <2>4. CASE WriteEntry(t) \/ ClearEntry(t)
      BY <1>2, <2>4, WriteSeen, ClearSeen
    <2>5. QED
      BY <2>1, <2>2, <2>3, <2>4 DEF Step
  <1>8. QED
    BY <1>3, <1>4, <1>5, <1>6, <1>7 DEF Next

(* vmm.c never unlinks or moves a table: a walk without the lock, that of  *)
(* virt2phys, cannot lose the table it stands on.                          *)
THEOREM VMMTablesOnlyGrow == Spec => TablesOnlyGrow
  <1> DEFINE Levels == \A d \in 1 .. 4 : TablesAt[d] = Level(d)
  <1>1. TableInv => Levels
    BY TablesAtLevels
  <1>2. TableInv' => Levels'
    <2> HIDE DEF Levels
    <2>1. QED
      BY <1>1, PTL
  <1>3. TableInv /\ TableInv' /\ [Next]_vars =>
          [\A d \in 1 .. 4 : TablesAt[d] \subseteq TablesAt'[d]]_vars
    <2> SUFFICES ASSUME TableInv, TableInv', [Next]_vars
                 PROVE  \A d \in 1 .. 4 : TablesAt[d] \subseteq TablesAt'[d]
      OBVIOUS
    <2>1. TreeGrows
      BY StepGrows
    <2>2. \A d \in 1 .. 4 : Level(d) \subseteq Level(d)'
      BY <2>1, Views DEF Level, TreeGrows
    <2>3. QED
      BY <1>1, <1>2, <2>2
  <1>4. QED
    BY <1>3, VMMTables, PTL DEF Spec, TablesOnlyGrow

-----------------------------------------------------------------------------
(* The tables form a tree. *)
LEMMA FinitePages ==
  ASSUME BootInv
  PROVE  IsFiniteSet(UsablePages(bootmap))
  <1>1. ASSUME NEW a \in DOMAIN bootmap PROVE IsFiniteSet(EntryPages(bootmap, a))
    <2>1. bootmap[a].base \in Nat /\ bootmap[a].length \in Nat
      BY <1>1, Maps DEF Entry
    <2>2. IsFiniteSet(bootmap[a].base .. bootmap[a].base + bootmap[a].length - 1)
      BY <2>1, FS_Interval
    <2>3. QED
      BY <2>2 DEF EntryPages, Pages
  <1> DEFINE A == {b \in DOMAIN bootmap : IsUsable(bootmap[b])}
             S == {EntryPages(bootmap, a) : a \in A}
             f == [a \in A |-> EntryPages(bootmap, a)]
  <1>2. IsFiniteSet(A)
    <2>1. IsFiniteSet(1 .. Len(bootmap))
      BY Maps, FS_Interval
    <2>2. QED
      BY <2>1, Maps, FS_Subset
  <1>3. f \in Surjection(A, S)
    BY Fun_IsSurj
  <1>4. IsFiniteSet(S)
    BY <1>2, <1>3, FS_Surjection
  <1>5. \A T \in S : IsFiniteSet(T)
    BY <1>1
  <1>6. IsFiniteSet(UNION S)
    <2> HIDE DEF S
    <2>1. QED
      BY <1>4, <1>5, FS_UNION
  <1>7. QED
    BY <1>6 DEF UsablePages

LEMMA LevelsApart ==
  ASSUME TableInv
  PROVE  /\ \A d, e \in 1 .. 4 : d # e => Level(d) \cap Level(e) = {}
         /\ \A d \in 1 .. 4 : Level(d) \subseteq UsablePages(bootmap)
         /\ \A d \in 1 .. 4 : Level(d) \cap FreePages = {}
         /\ root # NULL => Level(1) = {root}
  <1>1. \A d, e \in 1 .. 4 : d # e => Level(d) \cap Level(e) = {}
    BY DEF TableInv, TreeInv, Level
  <1>2. \A d \in 1 .. 4 : Level(d) \subseteq UsablePages(bootmap)
    BY DEF TableInv, TreeInv, Level
  <1>3. \A d \in 1 .. 4 : Level(d) \cap FreePages = {}
    BY Views DEF TableInv, OwnerInv, UsedInv, IsTable, Level
  <1>4. root # NULL => Level(1) = {root}
    BY NodeStep, VirtType DEF Level
  <1>5. QED
    BY <1>1, <1>2, <1>3, <1>4

(* An entry of a table is reached on the way to some page. *)
LEMMA LinkHasPath ==
  ASSUME TableInv, NEW s \in Links(Level(1) \cup Level(2) \cup Level(3))
  PROVE  \E w \in Virts : \E k \in 1 .. 3 :
           /\ s = <<Node(w, k), w[k]>>
           /\ Node(w, k + 1) = memory[s[1]][s[2]].page
           /\ Node(w, k + 1) # NULL
  <1>1. PICK v \in Virts, k \in 1 .. 3, i \in Index :
          s = <<Node(v, k), i>> /\ Node(v, k) # NULL /\ memory[Node(v, k)][i].present
    BY DEF Links, Level
  <1>2. /\ memory[Node(v, k)][i].page # NULL
        /\ \E w \in Virts : SamePath(v, w, k) /\ w[k] = i
    BY <1>1 DEF TableInv, TreeInv
  <1>3. PICK w \in Virts : SamePath(v, w, k) /\ w[k] = i
    BY <1>2
  <1>4. Node(w, k) = Node(v, k)
    BY <1>3, PathDecides
  <1>5. Node(w, k + 1) = memory[Node(v, k)][i].page
    BY <1>1, <1>3, <1>4, NodeStep DEF Down
  <1>6. s = <<Node(w, k), w[k]>> /\ Node(w, k + 1) = memory[s[1]][s[2]].page
        /\ Node(w, k + 1) # NULL
    BY <1>1, <1>2, <1>3, <1>4, <1>5
  <1>7. QED
    BY <1>6

(* No table is linked twice, none is on two levels, and none is on the     *)
(* stack of pmm.c for another request: get_below_pml links a page that     *)
(* nobody else has.                                                        *)
THEOREM VMMTablesFormATree == Spec => []TablesFormATree
  <1>1. TableInv => TablesFormATree
    <2> SUFFICES ASSUME TableInv PROVE TablesFormATree
      OBVIOUS
    <2> DEFINE all == Level(1) \cup Level(2) \cup Level(3) \cup Level(4)
               L == Links(Level(1) \cup Level(2) \cup Level(3))
               f == [s \in L |-> memory[s[1]][s[2]].page]
    <2>1. \A d \in 1 .. 4 : TablesAt[d] = Level(d)
      BY TablesAtLevels
    <2>2. TablePages = all
      <3>1. \A d \in 1 .. 4 : d = 1 \/ d = 2 \/ d = 3 \/ d = 4
        OBVIOUS
      <3>2. QED
        BY <2>1, <3>1 DEF TablePages
    <2>3. TablesAt[1] \cup TablesAt[2] \cup TablesAt[3] = Level(1) \cup Level(2) \cup Level(3)
      BY <2>1
    <2>4. ASSUME root # NULL PROVE Cardinality(all) = 1 + Cardinality(L)
      <3>1. IsFiniteSet(all)
        <4>1. all \subseteq UsablePages(bootmap)
          BY LevelsApart
        <4>2. IsFiniteSet(UsablePages(bootmap))
          BY FinitePages DEF TableInv
        <4> HIDE DEF all
        <4>3. QED
          BY <4>1, <4>2, FS_Subset
      <3>2. Level(1) = {root}
        BY <2>4, LevelsApart
      <3>3. root \in all
        BY <3>2
      <3>4. f \in [L -> all \ {root}]
        <4>1. ASSUME NEW s \in L PROVE memory[s[1]][s[2]].page \in all \ {root}
          <5>1. PICK w \in Virts, k \in 1 .. 3 :
                  Node(w, k + 1) = memory[s[1]][s[2]].page /\ Node(w, k + 1) # NULL
            BY LinkHasPath
          <5>2. Node(w, k + 1) \in Level(k + 1) /\ k + 1 \in 2 .. 4
            BY <5>1 DEF Level
          <5>3. Node(w, k + 1) # root
            BY <3>2, <5>2, LevelsApart
          <5>4. QED
            BY <5>1, <5>2, <5>3
        <4>2. QED
          BY <4>1
      <3>5. ASSUME NEW s \in L, NEW u \in L, f[s] = f[u] PROVE s = u
        <4>1. PICK w \in Virts, k \in 1 .. 3 :
                /\ s = <<Node(w, k), w[k]>>
                /\ Node(w, k + 1) = memory[s[1]][s[2]].page /\ Node(w, k + 1) # NULL
          BY LinkHasPath
        <4>2. PICK x \in Virts, j \in 1 .. 3 :
                /\ u = <<Node(x, j), x[j]>>
                /\ Node(x, j + 1) = memory[u[1]][u[2]].page /\ Node(x, j + 1) # NULL
          BY LinkHasPath
        <4>3. Node(w, k + 1) = Node(x, j + 1)
          BY <3>5, <4>1, <4>2
        <4>4. k + 1 = j + 1 /\ SamePath(w, x, k + 1)
          BY <4>1, <4>3 DEF TableInv, TreeInv
        <4>5. k = j /\ SamePath(w, x, k) /\ w[k] = x[k]
          BY <4>4, SamePathStep
        <4>6. QED
          BY <4>1, <4>2, <4>5, PathDecides
      <3>6. ASSUME NEW q \in all \ {root} PROVE \E s \in L : f[s] = q
        <4>1. PICK v \in Virts, d \in 1 .. 4 : q = Node(v, d) /\ q # NULL
          BY DEF Level
        <4>2. d # 1
          BY <4>1, NodeStep
        <4>3. PICK k \in 1 .. 3 : d = k + 1
          BY <4>2
        <4>4. Node(v, k) # NULL /\ memory[Node(v, k)][v[k]].present
              /\ q = memory[Node(v, k)][v[k]].page
          BY <4>1, <4>3, NodeStep DEF Down
        <4>5. Node(v, k) \in Level(1) \cup Level(2) \cup Level(3)
          BY <4>4 DEF Level
        <4>6. <<Node(v, k), v[k]>> \in L
          BY <4>4, <4>5, VirtType DEF Links
        <4>7. QED
          BY <4>4, <4>6
      <3> HIDE DEF all, L, f
      <3>7. f \in Injection(L, all \ {root}) /\ f \in Surjection(L, all \ {root})
        BY <3>4, <3>5, <3>6, Fun_IsInj, Fun_IsSurj
      <3>8. /\ IsFiniteSet(all \ {root})
            /\ Cardinality(all \ {root}) = Cardinality(all) - 1
            /\ Cardinality(all) \in Nat
        BY <3>1, <3>3, FS_RemoveElement, FS_CardinalityType
      <3>9. Cardinality(L) = Cardinality(all \ {root})
        BY <3>7, <3>8, FS_Injection
      <3>10. QED
        BY <3>8, <3>9
    <2>5. all \cap FreePages = {}
      BY LevelsApart
    <2>6. \A d, e \in 1 .. 4 : d # e => TablesAt[d] \cap TablesAt[e] = {}
      BY <2>1, LevelsApart
    <2> HIDE DEF all, L, f
    <2>7. L = Links(TablesAt[1] \cup TablesAt[2] \cup TablesAt[3])
      BY <2>3 DEF L
    <2>8. QED
      BY <2>2, <2>4, <2>5, <2>6, <2>7 DEF TablesFormATree
  <1>2. QED
    BY <1>1, VMMTables, PTL

-----------------------------------------------------------------------------
(* The flat map. *)
LEMMA NothingBelow ==
  ASSUME TableInv, NEW t \in Threads, pc[t] = "walk", depth[t] < 4, ~Slot(t).present
  PROVE  Virt(t) \in Virts /\ Flat[Virt(t)] = Zero
  <1>v. PICK v : v = Virt(t)
    OBVIOUS
  <1>d. PICK d : d = depth[t]
    OBVIOUS
  <1>1. v \in Virts /\ d \in 1 .. 3 /\ ~memory[Node(v, d)][v[d]].present
    BY <1>v, <1>d, WalkFacts DEF Slot
  <1>2. Node(v, d + 1) = NULL
    BY <1>1, NodeStep DEF Down
  <1>3. \A k \in 1 .. 3 : Node(v, k) = NULL => Node(v, k + 1) = NULL
    BY NodeStep DEF Down
  <1>4. Node(v, 4) = NULL
    <2>1. CASE d = 1
      <3>1. Node(v, 2) = NULL
        BY <1>2, <2>1
      <3>2. Node(v, 2 + 1) = NULL
        BY <1>3, <3>1
      <3>3. Node(v, 3 + 1) = NULL
        BY <1>3, <3>2
      <3>4. QED
        BY <3>3
    <2>2. CASE d = 2
      <3>1. Node(v, 3) = NULL
        BY <1>2, <2>2
      <3>2. Node(v, 3 + 1) = NULL
        BY <1>3, <3>1
      <3>3. QED
        BY <3>2
    <2>3. CASE d = 3
      BY <1>2, <2>3
    <2>4. QED
      BY <1>1, <2>1, <2>2, <2>3
  <1>5. QED
    BY <1>v, <1>1, <1>4, Views, MappingPrimed


(* How far the answer of a call is: it has none before it has acted.       *)
AnswerInv(t) ==
  /\ pc[t] = "idle" => call[t] = NoCall
  /\ pc[t] \notin {"release", "return"} => answer[t] = NoAnswer
  /\ pc[t] = "release" => answer[t].done \/ call[t].op = "map"
  /\ pc[t] = "return" => answer[t].done

LEMMA AnswerOf ==
  ASSUME TableInv, \A u \in Threads : AnswerInv(u), NEW t \in Threads, AnswerInv(t)',
         \A u \in Threads \ {t} :
           pc'[u] = pc[u] /\ call'[u] = call[u] /\ answer'[u] = answer[u]
  PROVE  \A u \in Threads : AnswerInv(u)'
  <1>1. ASSUME NEW u \in Threads \ {t} PROVE AnswerInv(u)'
    BY <1>1 DEF AnswerInv
  <1>2. QED
    BY <1>1

LEMMA BeginAnswers ==
  ASSUME TableInv, \A u \in Threads : AnswerInv(u), NEW t \in Threads, NEW v \in Virts,
         NEW free \in BOOLEAN, CallMap(t, v) \/ CallVirt2Phys(t, v) \/ CallUnmap(t, v, free)
  PROVE  \A u \in Threads : AnswerInv(u)'
  <1>1. PICK start, e :
          /\ start \in {"acquire", "walk"} /\ pc[t] = "idle" /\ pc' = [pc EXCEPT ![t] = start]
          /\ call' = [call EXCEPT ![t] = e] /\ answer' = answer
    <2>1. CASE CallMap(t, v)
      BY <2>1 DEF CallMap, Begin, Idle
    <2>2. CASE CallVirt2Phys(t, v)
      BY <2>2 DEF CallVirt2Phys, Begin, Idle
    <2>3. CASE CallUnmap(t, v, free)
      BY <2>3 DEF CallUnmap, Begin, Idle
    <2>4. QED
      BY <2>1, <2>2, <2>3
  <1>2. pc'[t] = start /\ answer'[t] = NoAnswer
    <2>1. AnswerInv(t)
      OBVIOUS
    <2>2. answer[t] = NoAnswer
      BY <1>1, <2>1 DEF AnswerInv
    <2>3. QED
      BY <1>1, <2>2 DEF TableInv, ThreadType
  <1>3. AnswerInv(t)'
    BY <1>1, <1>2 DEF AnswerInv
  <1>4. QED
    BY <1>1, <1>3, AnswerOf DEF TableInv, ThreadType

(* Of the steps of a call only the last but one has an answer.             *)
LEMMA StepAnswers ==
  ASSUME TableInv, \A u \in Threads : AnswerInv(u), NEW t \in Threads, Step(t)
  PROVE  \A u \in Threads : AnswerInv(u)'
  <1>a. AnswerInv(t) /\ pc[t] \in Places /\ answer \in [Threads -> Answers]
    BY DEF TableInv, ThreadType
  <1>1. CASE Acquire(t) \/ Descend(t) \/ ZeroTable(t) \/ LinkTable(t) \/ FreeFrame(t)
    <2>1. PICK l \in {"walk", "link", "clear"} :
            /\ pc[t] \in {"acquire", "walk", "zero", "link"}
            /\ pc' = [pc EXCEPT ![t] = l] /\ UNCHANGED <<call, answer>>
      <3>1. CASE Acquire(t)
        BY <3>1 DEF Acquire, Goto, walk_vars
      <3>2. CASE Descend(t)
        <4>1. pc' = pc /\ pc[t] = "walk" /\ UNCHANGED <<call, answer>>
          BY <3>2 DEF Descend
        <4>2. pc' = [pc EXCEPT ![t] = "walk"]
          BY <4>1 DEF TableInv, ThreadType
        <4>3. QED
          BY <4>1, <4>2
      <3>3. CASE ZeroTable(t)
        BY <3>3 DEF ZeroTable, Goto, walk_vars
      <3>4. CASE LinkTable(t)
        BY <3>4 DEF LinkTable, Goto
      <3>5. CASE FreeFrame(t)
        BY <3>5 DEF FreeFrame, Goto, walk_vars
      <3>6. QED
        BY <1>1, <3>1, <3>2, <3>3, <3>4, <3>5
    <2>2. pc'[t] = l /\ answer'[t] = NoAnswer
      BY <1>a, <2>1 DEF AnswerInv, TableInv, ThreadType
    <2>3. AnswerInv(t)'
      BY <2>2 DEF AnswerInv
    <2>4. QED
      BY <2>1, <2>3, AnswerOf DEF TableInv, ThreadType
  <1>2. CASE RequestTable(t)
    <2>1. /\ pc[t] = "walk" /\ call[t].op = "map" /\ UNCHANGED <<call, answer>>
          /\ \/ pc' = [pc EXCEPT ![t] = "zero"]
             \/ pc' = [pc EXCEPT ![t] = "release"]
      BY <1>2 DEF RequestTable, Goto, force
    <2>2. pc'[t] \in {"zero", "release"} /\ answer'[t] = NoAnswer /\ call'[t].op = "map"
      BY <1>a, <2>1 DEF AnswerInv, TableInv, ThreadType
    <2>3. AnswerInv(t)'
      BY <2>2 DEF AnswerInv
    <2>4. QED
      BY <2>1, <2>3, AnswerOf DEF TableInv, ThreadType
  <1>3. CASE Missing(t) \/ WriteEntry(t) \/ ClearEntry(t) \/ ReadEntry(t)
    <2>1. PICK l, found, e :
            /\ l \in {"release", "return"} /\ pc' = [pc EXCEPT ![t] = l] /\ call' = call
            /\ answer' = [answer EXCEPT ![t] = [done |-> TRUE, found |-> found, entry |-> e]]
      <3>1. CASE Missing(t)
        BY <3>1 DEF Missing, Goto, Answer, walk_vars
      <3>2. CASE WriteEntry(t)
        BY <3>2 DEF WriteEntry, Goto, Answer, walk_vars
      <3>3. CASE ClearEntry(t)
        BY <3>3 DEF ClearEntry, Goto, Answer, walk_vars
      <3>4. CASE ReadEntry(t)
        BY <3>4 DEF ReadEntry, Goto, Answer, walk_vars
      <3>5. QED
        BY <1>3, <3>1, <3>2, <3>3, <3>4
    <2>2. pc'[t] = l /\ answer'[t].done
      <3>1. answer'[t] = [done |-> TRUE, found |-> found, entry |-> e]
        BY <1>a, <2>1
      <3>2. pc'[t] = l
        BY <2>1 DEF TableInv, ThreadType
      <3>3. QED
        BY <3>1, <3>2
    <2>3. AnswerInv(t)'
      BY <2>1, <2>2 DEF AnswerInv
    <2>4. QED
      BY <2>1, <2>3, AnswerOf DEF TableInv, ThreadType
  <1>4. CASE Release(t) \/ Return(t)
    <2>1. /\ pc' = [pc EXCEPT ![t] = "idle"] /\ call' = [call EXCEPT ![t] = NoCall]
          /\ answer' = [answer EXCEPT ![t] = NoAnswer]
      BY <1>4 DEF Release, Return, Leave, Goto
    <2>2. pc'[t] = "idle" /\ call'[t] = NoCall /\ answer'[t] = NoAnswer
      BY <2>1 DEF TableInv, ThreadType
    <2>3. AnswerInv(t)'
      BY <2>2 DEF AnswerInv
    <2>4. QED
      BY <2>1, <2>3, AnswerOf DEF TableInv, ThreadType
  <1>5. QED
    BY <1>1, <1>2, <1>3, <1>4 DEF Step

LEMMA NextAnswers ==
  ASSUME TableInv, \A u \in Threads : AnswerInv(u), [Next]_vars
  PROVE  \A u \in Threads : AnswerInv(u)'
  <1>1. CASE \/ UNCHANGED vars \/ Boot \/ CreateRoot
             \/ \E t \in Threads : TakeFrame(t) \/ DropFrame(t)
    <2>1. UNCHANGED <<pc, call, answer>>
      BY <1>1 DEF vars, Boot, CreateRoot, TakeFrame, DropFrame, thread_vars, walk_vars
    <2>2. QED
      BY <2>1 DEF AnswerInv
  <1>2. CASE \E t \in Threads : \E v \in Virts :
               CallMap(t, v) \/ CallVirt2Phys(t, v) \/ \E free \in BOOLEAN : CallUnmap(t, v, free)
    <2>1. PICK t \in Threads, v \in Virts :
            CallMap(t, v) \/ CallVirt2Phys(t, v) \/ \E free \in BOOLEAN : CallUnmap(t, v, free)
      BY <1>2
    <2>2. PICK free \in BOOLEAN : CallMap(t, v) \/ CallVirt2Phys(t, v) \/ CallUnmap(t, v, free)
      BY <2>1
    <2>3. QED
      BY <2>2, BeginAnswers
  <1>3. CASE \E t \in Threads : Step(t)
    BY <1>3, StepAnswers
  <1>4. QED
    BY <1>1, <1>2, <1>3 DEF Next

LEMMA VMMAnswers == Spec => [](TableInv /\ \A t \in Threads : AnswerInv(t))
  <1> DEFINE Answered == \A t \in Threads : AnswerInv(t)
  <1>1. Init => Answered
    BY DEF Init, AnswerInv
  <1>2. TableInv /\ Answered /\ [Next]_vars => Answered'
    BY NextAnswers
  <1>3. QED
    BY <1>1, <1>2, VMMTables, PTL DEF Spec

(* A call of vmm.c begins with the arguments that the flat map is given.   *)
LEMMA BeginSeen ==
  ASSUME TableInv, NEW t \in Threads, AnswerInv(t), NEW v \in Virts, NEW free \in BOOLEAN,
         CallMap(t, v) \/ CallVirt2Phys(t, v) \/ CallUnmap(t, v, free)
  PROVE  Space!Call(t)
  <1>1. Flat' = Flat
    BY PlainSteps DEF Unseen
  <1>2. PICK c \in Space!Calls :
          /\ pc[t] = "idle" /\ call' = [call EXCEPT ![t] = c] /\ answer' = answer
    <2>1. CASE CallMap(t, v)
      <3>1. frame[t] \in Nat \ {NULL}
        BY <2>1 DEF CallMap, TableInv, ThreadType
      <3>2. [op |-> "map", virt |-> v, free |-> FALSE, entry |-> Link(frame[t])] \in Space!Calls
        BY <3>1 DEF Space!Calls, Link
      <3>3. QED
        BY <2>1, <3>2 DEF CallMap, Begin, Idle
    <2>2. CASE CallVirt2Phys(t, v)
      <3>1. [op |-> "virt2phys", virt |-> v, free |-> FALSE, entry |-> Zero] \in Space!Calls
        BY DEF Space!Calls
      <3>2. QED
        BY <2>2, <3>1 DEF CallVirt2Phys, Begin, Idle
    <2>3. CASE CallUnmap(t, v, free)
      <3>1. [op |-> "unmap", virt |-> v, free |-> free, entry |-> Zero] \in Space!Calls
        BY DEF Space!Calls
      <3>2. QED
        BY <2>3, <3>1 DEF CallUnmap, Begin, Idle
    <2>4. QED
      BY <2>1, <2>2, <2>3
  <1>3. call[t] = Space!NoCall
    BY <1>2 DEF AnswerInv, NoCall, Space!NoCall
  <1>4. call'[t] = c
    BY <1>2 DEF TableInv, ThreadType
  <1>5. call' = [call EXCEPT ![t] = call'[t]]
    BY <1>2, <1>4
  <1>6. QED
    BY <1>1, <1>2, <1>3, <1>4, <1>5 DEF Space!Call, Flat

(* A step of a call is the moment at which it acts, or its return, or      *)
(* nothing that its caller sees.                                           *)
LEMMA StepSeen ==
  ASSUME TableInv, NEW t \in Threads, AnswerInv(t), Step(t)
  PROVE  \/ UNCHANGED Space!vars
         \/ Space!Map(t) \/ Space!Unmap(t) \/ Space!Nothing(t) \/ Space!Lookup(t)
         \/ Space!Return(t)
  <1>s. Flat' = Flat /\ Alike => UNCHANGED Space!vars
    BY DEF Space!vars, Flat, Alike
  <1>u. Unseen => Flat' = Flat
    BY DEF Unseen
  <1>n. ~NoAnswer.done
    BY DEF NoAnswer
  <1>1. CASE Acquire(t) \/ Descend(t) \/ RequestTable(t) \/ FreeFrame(t)
    BY <1>s, <1>u, <1>1, PlainSteps
  <1>2. CASE ZeroTable(t) \/ LinkTable(t)
    BY <1>s, <1>u, <1>2, ZeroUnseen, LinkUnseen
  <1>3. CASE WriteEntry(t)
    <2>1. pc[t] = "walk" /\ call[t].op = "map" /\ call' = call
      BY <1>3 DEF WriteEntry, walk_vars
    <2>2. Space!Pending(t, {"map"})
      BY <1>n, <2>1 DEF AnswerInv, Space!Pending
    <2>3. Space!Write(call[t].virt, call[t].entry)
      BY <1>3, WriteSeen DEF Space!Write, Flat, Virt
    <2>4. Space!Answer(t, TRUE, Zero)
      BY <1>3, WriteSeen DEF Space!Answer
    <2>5. Space!Map(t)
      BY <2>1, <2>2, <2>3, <2>4 DEF Space!Map
    <2>6. QED
      BY <2>5
  <1>4. CASE ClearEntry(t)
    <2>1. pc[t] \in {"walk", "clear"} /\ call[t].op = "unmap" /\ call' = call
      BY <1>4 DEF ClearEntry, walk_vars, TableInv, CallInv
    <2>2. Space!Pending(t, {"unmap"})
      BY <1>n, <2>1 DEF AnswerInv, Space!Pending
    <2>3. Space!Write(call[t].virt, Zero)
      BY <1>4, ClearSeen DEF Space!Write, Flat, Virt
    <2>4. Space!Answer(t, TRUE, Zero)
      BY <1>4, ClearSeen DEF Space!Answer
    <2>5. Space!Unmap(t)
      BY <2>1, <2>2, <2>3, <2>4 DEF Space!Unmap
    <2>6. QED
      BY <2>5
  <1>5. CASE Missing(t)
    <2>1. /\ pc[t] = "walk" /\ call[t].op # "map" /\ call' = call /\ call[t] \in Calls
          /\ answer' = [answer EXCEPT ![t] = [done |-> TRUE, found |-> FALSE, entry |-> Zero]]
      BY <1>5 DEF Missing, force, Answer, walk_vars, TableInv, CallInv
    <2>2. Space!Pending(t, {"unmap", "virt2phys"})
      BY <1>n, <2>1 DEF AnswerInv, Space!Pending, Calls
    <2>3. Flat[call[t].virt] = Zero /\ call[t].virt \in Virts /\ Flat' = Flat
      BY <1>u, <1>5, NothingBelow, PlainSteps DEF Missing, Virt
    <2>4. Space!Nothing(t)
      BY <2>1, <2>2, <2>3 DEF Space!Nothing, Space!Answer, Flat
    <2>5. QED
      BY <2>4
  <1>6. CASE ReadEntry(t)
    <2>1. /\ pc[t] = "walk" /\ call[t].op = "virt2phys" /\ call' = call
          /\ answer' = [answer EXCEPT ![t] = [done |-> TRUE, found |-> TRUE, entry |-> Slot(t)]]
      BY <1>6 DEF ReadEntry, Answer, walk_vars
    <2>2. Space!Pending(t, {"virt2phys"})
      BY <1>n, <2>1 DEF AnswerInv, Space!Pending
    <2>3. Slot(t) = Flat[call[t].virt] /\ call[t].virt \in Virts /\ Flat' = Flat
      BY <1>u, <1>6, WalkFacts, PlainSteps DEF ReadEntry, Virt
    <2>4. Space!Lookup(t)
      BY <2>1, <2>2, <2>3 DEF Space!Lookup, Space!Answer, Flat
    <2>5. QED
      BY <2>4
  <1>7. CASE Release(t) \/ Return(t)
    <2>1. /\ pc[t] \in {"release", "return"} /\ call[t] \in Calls
          /\ answer[t].done \/ call[t].op = "map"
          /\ call' = [call EXCEPT ![t] = NoCall] /\ answer' = [answer EXCEPT ![t] = NoAnswer]
      BY <1>7 DEF Release, Return, Leave, AnswerInv, TableInv, CallInv
    <2>2. call[t].op # "none"
      BY <2>1 DEF Calls
    <2>3. Flat' = Flat
      BY <1>u, <1>7, PlainSteps
    <2>4. Space!Return(t)
      BY <2>1, <2>2, <2>3
      DEF Space!Return, Space!NoCall, Space!NoAnswer, NoCall, NoAnswer, Flat
    <2>5. QED
      BY <2>4
  <1>8. QED
    BY <1>1, <1>2, <1>3, <1>4, <1>5, <1>6, <1>7 DEF Step

(* The calls of vmm.c act on one flat map: each acts at one moment between *)
(* its begin and its return, vmm_map with the entry and on the page it was *)
(* given, vmm_unmap on its page, and virt2phys answers with the entry of   *)
(* its page at that moment, or with NULL if the page is not mapped then.   *)
THEOREM VMMImplementsAddressSpace == Spec => ImplementsAddressSpace
  <1> DEFINE Answered == \A t \in Threads : AnswerInv(t)
  <1>1. Init => Space!Init
    <2> SUFFICES ASSUME Init PROVE Space!Init
      OBVIOUS
    <2>1. /\ root = NULL /\ answer = [t \in Threads |-> NoAnswer]
          /\ call = [t \in Threads |-> NoCall]
      BY DEF Init
    <2>2. ASSUME NEW v \in Virts PROVE Mapping(v) = Zero
      <3>1. Node(v, 1) = NULL
        BY <2>1, NodeStep
      <3>2. Node(v, 1 + 1) = NULL
        BY <3>1, NodeStep DEF Down
      <3>3. Node(v, 2 + 1) = NULL
        BY <3>2, NodeStep DEF Down
      <3>4. Node(v, 3 + 1) = NULL
        BY <3>3, NodeStep DEF Down
      <3>5. QED
        BY <3>4, MappingPrimed
    <2>3. QED
      BY <2>1, <2>2 DEF Space!Init, Space!NoCall, Space!NoAnswer, NoCall, NoAnswer
  <1>2. TableInv /\ Answered /\ [Next]_vars => [Space!Next]_Space!vars
    <2> SUFFICES ASSUME TableInv, Answered, [Next]_vars PROVE [Space!Next]_Space!vars
      OBVIOUS
    <2>s. Flat' = Flat /\ Alike => UNCHANGED Space!vars
      BY DEF Space!vars, Flat, Alike
    <2>u. Unseen => Flat' = Flat
      BY DEF Unseen
    <2>1. CASE UNCHANGED vars
      <3>1. Unseen /\ Alike
        BY <2>1, PoolUnseen DEF vars, thread_vars, walk_vars, Alike
      <3>2. QED
        BY <2>s, <2>u, <3>1
    <2>2. CASE Boot \/ CreateRoot
      BY <2>s, <2>u, <2>2, BootUnseen, RootUnseen
    <2>3. CASE \E t \in Threads : \E v \in Virts :
                 CallMap(t, v) \/ CallVirt2Phys(t, v) \/ \E free \in BOOLEAN : CallUnmap(t, v, free)
      <3>1. PICK t \in Threads, v \in Virts, free \in BOOLEAN :
              CallMap(t, v) \/ CallVirt2Phys(t, v) \/ CallUnmap(t, v, free)
        BY <2>3
      <3>2. Space!Call(t)
        BY <3>1, BeginSeen
      <3>3. QED
        BY <3>2 DEF Space!Next
    <2>4. CASE \E t \in Threads : TakeFrame(t) \/ DropFrame(t)
      BY <2>s, <2>u, <2>4, PlainSteps
    <2>5. CASE \E t \in Threads : Step(t)
      BY <2>5, StepSeen DEF Space!Next
    <2>6. QED
      BY <2>1, <2>2, <2>3, <2>4, <2>5 DEF Next
  <1>3. QED
    BY <1>1, <1>2, VMMAnswers, PTL DEF Spec, ImplementsAddressSpace, Space!Spec

-----------------------------------------------------------------------------
(* No page is lost: the pages that pmm_init does not keep for its array.   *)
AllPages == UsablePages(bootmap) \ StackPages

Used(q) ==
  \/ IsTable(q)
  \/ \E t \in Threads :
       \/ q # NULL /\ (fresh[t] = q \/ frame[t] = q)
       \/ \E v \in mapped[t] : Frame(v) = q

Kept(q) == q \in FreePages \/ Used(q)

(* Loop 3 of pmm_init pushes every page that is left, and from then on each *)
(* is on the stack or somebody's; so there is room for whatever comes back. *)
PoolInv ==
  /\ phase \in {"count", "locate"} => memmap = bootmap
  /\ phase = "push" => /\ UsablePages(memmap) = AllPages
                       /\ \A q \in UsablePages(bootmap) : Reached(q) => q \in FreePages
  /\ phase = "ready" => /\ \A q \in UsablePages(bootmap) : q \in AllPages <=> Kept(q)
                        /\ Cardinality(AllPages) <= pm_total_pages

LEMMA UsableIn ==
  ASSUME NEW map, NEW n, DOMAIN map = 1 .. n
  PROVE  \A q : q \in UsablePages(map) <=>
           \E a \in 1 .. n : IsUsable(map[a]) /\ q \in EntryPages(map, a)
  BY DEF UsablePages

LEMMA AreaSame ==
  ASSUME UNCHANGED <<bootmap, memmap, pm_stack_base, pm_total_pages>>
  PROVE  /\ UsablePages(bootmap)' = UsablePages(bootmap)
         /\ UsablePages(memmap)' = UsablePages(memmap)
         /\ AllPages' = AllPages
  BY DEF AllPages, UsablePages, EntryPages, StackPages, pm_stack_size

(* Loop 3 starts with nothing reached. *)
LEMMA NothingReached ==
  ASSUME ent' = 1, off' = 0, \A b : b = memmap'[1].base /\ 1 <= Len(memmap') => b \in Nat
  PROVE  \A q : ~Reached(q)'
  <1>1. 1 .. ent' - 1 = {}
    OBVIOUS
  <1>2. 1 <= Len(memmap') => Pages(memmap'[1].base, 0) = {}
    BY DEF Pages
  <1>3. QED
    BY <1>1, <1>2 DEF Reached

LEMMA PlaceStackPool ==
  ASSUME BootInv, PoolInv, PlaceStack
  PROVE  PoolInv'
  <1>1. /\ phase = "locate" /\ phase' = "push" /\ ent \in 1 .. Len(bootmap)
        /\ ent' = 1 /\ off' = 0
        /\ UNCHANGED <<bootmap, pm_total_pages>> /\ memmap = bootmap
    BY Maps DEF PlaceStack, BootInv, PoolInv
  <1>n. PICK n : n = pm_stack_size
    OBVIOUS
  <1>e. PICK e : e = memmap[ent]
    OBVIOUS
  <1>2. n \in Nat /\ pm_stack_size' = n
    <2>1. \A a \in Nat, b \in Nat \ {0} : (a + b - 1) \div b \in Nat
      OBVIOUS
    <2>2. n \in Nat
      BY <1>n, <2>1, EntriesPerPageAssumption DEF pm_stack_size, BootInv, StackType
    <2>3. QED
      BY <1>1, <1>n, <2>2 DEF pm_stack_size
  <1>3. /\ e \in Entry /\ IsUsable(e) /\ e.base > 0 /\ e.length >= n
        /\ e.base \in Nat /\ e.length \in Nat
    BY <1>1, <1>n, <1>e, Maps DEF PlaceStack, CanHold, Entry
  <1>4. /\ memmap' = [memmap EXCEPT ![ent].length = @ - n]
        /\ pm_stack_base' = e.base + e.length - n
    BY <1>n, <1>e DEF PlaceStack, Shortened
  <1>5. /\ DOMAIN memmap' = 1 .. Len(bootmap) /\ DOMAIN memmap = 1 .. Len(bootmap)
        /\ memmap'[ent] = [e EXCEPT !.length = @ - n]
        /\ \A a \in 1 .. Len(bootmap) : a # ent => memmap'[a] = memmap[a]
    BY <1>1, <1>e, <1>4, Maps
  <1>6. /\ memmap'[ent].type = e.type /\ memmap'[ent].base = e.base
        /\ memmap'[ent].length = e.length - n
    BY <1>3, <1>5 DEF Entry
  <1>7. /\ StackPages' = Pages(e.base + e.length - n, n)
        /\ Pages(e.base, e.length - n) = Pages(e.base, e.length) \ StackPages'
        /\ StackPages' \subseteq Pages(e.base, e.length)
    <2>1. pm_stack_base' # NULL
      BY <1>2, <1>3, <1>4 DEF NULL
    <2>2. StackPages' = Pages(e.base + e.length - n, n)
      BY <1>2, <1>4, <2>1 DEF StackPages
    <2>3. PICK b \in Nat, l \in Nat : b = e.base /\ l = e.length /\ l >= n
      BY <1>3
    <2>4. /\ Pages(b, l - n) = Pages(b, l) \ Pages(b + l - n, n)
          /\ Pages(b + l - n, n) \subseteq Pages(b, l)
      BY <1>2, <2>3 DEF Pages
    <2>5. QED
      BY <2>2, <2>3, <2>4
  <1>8. UsablePages(memmap)' = AllPages'
    <2>1. /\ IsUsable(memmap'[ent])
          /\ EntryPages(memmap', ent) = EntryPages(bootmap, ent) \ StackPages'
          /\ StackPages' \subseteq EntryPages(bootmap, ent)
      BY <1>1, <1>e, <1>3, <1>6, <1>7 DEF EntryPages, IsUsable
    <2>2. ASSUME NEW a \in 1 .. Len(bootmap), a # ent
          PROVE  /\ IsUsable(memmap'[a]) <=> IsUsable(bootmap[a])
                 /\ EntryPages(memmap', a) = EntryPages(bootmap, a)
                 /\ EntryPages(bootmap, a) \cap StackPages' = {}
      <3>1. EntryPages(bootmap, ent) \cap EntryPages(bootmap, a) = {}
        BY <1>1, <1>e, <1>3, <2>2, Maps
      <3>2. QED
        BY <1>1, <1>5, <2>1, <2>2, <3>1 DEF EntryPages
    <2>3. \A q : q \in UsablePages(memmap') <=> q \in UsablePages(bootmap) /\ q \notin StackPages'
      <3>1. IsUsable(bootmap[ent])
        BY <1>1, <1>e, <1>3
      <3>2. \A a \in 1 .. Len(bootmap) : \A q :
              IsUsable(memmap'[a]) /\ q \in EntryPages(memmap', a) <=>
                IsUsable(bootmap[a]) /\ q \in EntryPages(bootmap, a) /\ q \notin StackPages'
        BY <2>1, <2>2, <3>1
      <3>3. QED
        BY <1>1, <1>5, <3>2, UsableIn
    <2>4. UsablePages(memmap)' = UsablePages(memmap')
      BY DEF UsablePages, EntryPages
    <2>5. UsablePages(bootmap)' = UsablePages(bootmap)
      BY <1>1 DEF UsablePages, EntryPages
    <2>6. QED
      BY <2>3, <2>4, <2>5 DEF AllPages
  <1>9. \A q : ~Reached(q)'
    <2>1. memmap'[1].base \in Nat \/ ~(1 <= Len(memmap'))
      <3>1. BootInv'
        BY PlaceStackKeepsBootInv
      <3>2. memmap' \in [1 .. Len(bootmap) -> Entry] /\ Len(bootmap) \in Nat
        BY <1>1, <3>1, Maps DEF BootInv
      <3>3. memmap' \in Seq(Entry) /\ Len(memmap') = Len(bootmap)
        BY <3>2, SeqDef, LenProperties
      <3>4. QED
        BY <3>2, <3>3 DEF Entry
    <2>2. QED
      BY <1>1, <2>1, NothingReached
  <1>10. QED
    BY <1>1, <1>8, <1>9 DEF PoolInv

LEMMA PushPagePool ==
  ASSUME BootInv, PoolInv, PushPage
  PROVE  PoolInv'
  <1>1. /\ phase = "push" /\ ent \in 1 .. Len(bootmap) /\ off \in Nat
        /\ IsUsable(memmap[ent]) /\ off < memmap[ent].length
        /\ UNCHANGED <<bootmap, memmap, pm_stack_base, pm_total_pages, ent>>
    BY Maps DEF PushPage, BootInv, pmm_memory
  <1>2. CASE pm_stack_idx < pm_total_pages /\ pm_stack_base # NULL
    <2>p. PICK p : p = memmap[ent].base + off
      OBVIOUS
    <2>1. /\ pm_stack' = [pm_stack EXCEPT ![pm_stack_idx] = p]
          /\ pm_stack_idx' = pm_stack_idx + 1 /\ off' = off + 1 /\ phase' = phase
      BY <1>1, <1>2, <2>p DEF PushPage
    <2>2. /\ memmap[ent].base \in Nat /\ memmap[ent].length \in Nat
          /\ Len(memmap) = Len(bootmap)
      BY <1>1, Maps DEF Entry
    <2>3. /\ pm_stack_idx \in Nat /\ pm_total_pages \in Nat
          /\ pm_stack \in [0 .. pm_total_pages - 1 -> Nat]
      BY <1>1, <1>2 DEF BootInv, StackType
    <2>4. \A q : q \in FreePages \/ q = p => q \in FreePages'
      <3>1. /\ pm_stack'[pm_stack_idx] = p
            /\ \A s \in FreeSlots : pm_stack'[s] = pm_stack[s]
        BY <1>2, <2>1, <2>3 DEF FreeSlots
      <3>2. FreeSlots' = FreeSlots \cup {pm_stack_idx}
        BY <2>1, <2>3 DEF FreeSlots
      <3>3. QED
        BY <3>1, <3>2 DEF FreePages
    <2>5. \A q : Reached(q)' => Reached(q) \/ q = p
      <3>1. Pages(memmap[ent].base, off + 1) = Pages(memmap[ent].base, off) \cup {p}
        BY <1>1, <2>p, <2>2 DEF Pages
      <3>2. \A a : EntryPages(memmap, a)' = EntryPages(memmap, a)
        BY <1>1 DEF EntryPages
      <3>3. QED
        BY <1>1, <2>1, <3>1, <3>2 DEF Reached
    <2>6. QED
      BY <1>1, <2>1, <2>4, <2>5, AreaSame DEF PoolInv
  <1>3. CASE ~(pm_stack_idx < pm_total_pages /\ pm_stack_base # NULL)
    <2>1. phase' \in {"failed", "fault"}
      BY <1>3 DEF PushPage
    <2>2. QED
      BY <2>1 DEF PoolInv
  <1>4. QED
    BY <1>2, <1>3

LEMMA NextEntryPool ==
  ASSUME BootInv, PoolInv, NextEntry
  PROVE  PoolInv'
  <1>1. /\ phase = "push" /\ ent \in 1 .. Len(memmap) /\ Len(memmap) \in Nat
        /\ ent' = ent + 1 /\ off' = 0
        /\ IsUsable(memmap[ent]) => off = memmap[ent].length
        /\ UNCHANGED <<phase, bootmap, memmap, pm_stack_base, pm_total_pages, pm_stack, pm_stack_idx>>
    BY Maps DEF NextEntry, BootInv, pmm_memory, pmm_counts, Entry
  <1>2. ASSUME NEW q, Reached(q)' PROVE Reached(q)
    <2>1. ~(ent' <= Len(memmap) /\ q \in Pages(memmap[ent'].base, 0))
      <3>1. ent' <= Len(memmap) => memmap[ent'].base \in Nat
        BY <1>1, Maps DEF Entry
      <3>2. QED
        BY <3>1 DEF Pages
    <2>2. \E a \in 1 .. ent : IsUsable(memmap[a]) /\ q \in EntryPages(memmap, a)
      <3>1. 1 .. ent' - 1 = 1 .. ent
        BY <1>1
      <3>2. \A a : EntryPages(memmap, a)' = EntryPages(memmap, a)
        BY <1>1 DEF EntryPages
      <3>3. QED
        BY <1>1, <1>2, <2>1, <3>1, <3>2 DEF Reached
    <2>3. PICK a \in 1 .. ent : IsUsable(memmap[a]) /\ q \in EntryPages(memmap, a)
      BY <2>2
    <2>4. CASE a = ent
      BY <1>1, <2>3, <2>4 DEF Reached, EntryPages
    <2>5. CASE a # ent
      <3>1. a \in 1 .. ent - 1
        BY <1>1, <2>5
      <3>2. QED
        BY <2>3, <3>1 DEF Reached
    <2>6. QED
      BY <2>4, <2>5
  <1>3. FreePages' = FreePages
    BY <1>1 DEF FreePages, FreeSlots
  <1>4. QED
    BY <1>1, <1>2, <1>3, AreaSame DEF PoolInv

(* pm_stack_idx counts the free pages. *)
LEMMA CountImage ==
  ASSUME NEW A, NEW T, NEW f \in [A -> T], IsFiniteSet(T),
         \A a, b \in A : f[a] = f[b] => a = b,
         \A q \in T : \E a \in A : f[a] = q
  PROVE  Cardinality(A) = Cardinality(T)
  <1>1. f \in Injection(A, T) /\ f \in Surjection(A, T)
    BY Fun_IsInj, Fun_IsSurj
  <1>2. QED
    BY <1>1, FS_Injection

LEMMA CountFree ==
  ASSUME BootInv, phase \in {"push", "ready"}
  PROVE  IsFiniteSet(FreePages) /\ Cardinality(FreePages) = pm_stack_idx
  <1>1. pm_stack_idx \in Nat /\ Distinct
    BY DEF BootInv, StackType
  <1>2. FreePages \subseteq UsablePages(bootmap)
    BY ReachedIsUsable DEF BootInv
  <1>3. IsFiniteSet(FreePages)
    BY <1>2, FinitePages, FS_Subset
  <1>4. Cardinality(FreeSlots) = pm_stack_idx
    <2>1. Cardinality(0 .. pm_stack_idx - 1) = IF 0 > pm_stack_idx - 1 THEN 0
                                               ELSE pm_stack_idx - 1 - 0 + 1
      BY <1>1, FS_Interval
    <2>2. QED
      BY <1>1, <2>1 DEF FreeSlots
  <1>f. PICK f : f = [s \in FreeSlots |-> pm_stack[s]]
    OBVIOUS
  <1>5. /\ f \in [FreeSlots -> FreePages]
        /\ \A s, t \in FreeSlots : f[s] = f[t] => s = t
        /\ \A q \in FreePages : \E s \in FreeSlots : f[s] = q
    BY <1>1, <1>f DEF FreePages, Distinct
  <1>6. Cardinality(FreeSlots) = Cardinality(FreePages)
    BY <1>3, <1>5, CountImage
  <1>7. QED
    BY <1>3, <1>4, <1>6

LEMMA FinitePool ==
  ASSUME BootInv
  PROVE  /\ IsFiniteSet(AllPages) /\ Cardinality(AllPages) \in Nat
         /\ IsFiniteSet(UsablePages(bootmap))
  BY FinitePages, FS_Subset, FS_CardinalityType DEF AllPages

-----------------------------------------------------------------------------
(* The boot: all that is left is pushed. *)
LEMMA UsedSame ==
  ASSUME Unseen, UNCHANGED <<fresh, frame, mapped>>
  PROVE  \A q : Used(q)' <=> Used(q)
  BY DEF Used, Unseen, IsTable, Frame

LEMMA NothingUsed ==
  ASSUME TableInv, root = NULL
  PROVE  \A q : ~Used(q)
  <1>1. \A t \in Threads : fresh[t] = NULL /\ frame[t] = NULL /\ mapped[t] = {}
    BY DEF TableInv, RootInv
  <1>2. ASSUME NEW v \in Virts
        PROVE  Node(v, 1) = NULL /\ Node(v, 1 + 1) = NULL /\ Node(v, 2 + 1) = NULL
               /\ Node(v, 3 + 1) = NULL
    BY NodeStep DEF Down
  <1>3. \A v \in Virts, d \in 1 .. 4 : Node(v, d) = NULL
    BY <1>2
  <1>4. \A q : ~IsTable(q)
    BY <1>3, Views DEF IsTable
  <1>5. QED
    BY <1>1, <1>4 DEF Used

LEMMA PushDonePool ==
  ASSUME TableInv, PoolInv, PushDone, Unseen, UNCHANGED <<fresh, frame, mapped>>
  PROVE  PoolInv'
  <1>1. /\ phase = "push" /\ phase' = "ready" /\ ent > Len(memmap)
        /\ UNCHANGED <<bootmap, memmap, pm_stack, pm_stack_base, pm_stack_idx, pm_total_pages>>
    BY DEF PushDone, pmm_memory, pmm_loops
  <1>2. BootInv /\ root = NULL
    BY <1>1 DEF TableInv, RootInv
  <1>3. /\ Len(memmap) = Len(bootmap) /\ DOMAIN memmap = 1 .. Len(bootmap)
        /\ ent - 1 = Len(bootmap)
    BY <1>1, <1>2, Maps DEF BootInv
  <1>4. \A q : Reached(q) <=> q \in UsablePages(memmap)
    <2>1. \A q : q \in UsablePages(memmap) <=>
            \E a \in 1 .. Len(bootmap) : IsUsable(memmap[a]) /\ q \in EntryPages(memmap, a)
      BY <1>3, UsableIn
    <2>2. ~(ent <= Len(memmap))
      BY <1>1, <1>2, Maps DEF BootInv
    <2>3. \A q : Reached(q) <=>
            \E a \in 1 .. ent - 1 : IsUsable(memmap[a]) /\ q \in EntryPages(memmap, a)
      BY <2>2 DEF Reached
    <2>4. QED
      BY <1>3, <2>1, <2>3
  <1>5. FreePages = AllPages
    <2>1. FreePages \subseteq AllPages
      BY <1>1, <1>2, <1>4 DEF BootInv, PoolInv
    <2>2. AllPages \subseteq FreePages
      BY <1>1, <1>4 DEF PoolInv, AllPages
    <2>3. QED
      BY <2>1, <2>2
  <1>6. Cardinality(AllPages) <= pm_total_pages
    <2>1. Cardinality(AllPages) = pm_stack_idx
      BY <1>1, <1>2, <1>5, CountFree
    <2>2. pm_stack_idx <= pm_total_pages
      BY <1>2 DEF BootInv, StackType
    <2>3. QED
      BY <2>1, <2>2
  <1>7. FreePages' = FreePages
    BY <1>1 DEF FreePages, FreeSlots
  <1>8. \A q : ~Used(q)'
    BY <1>2, NothingUsed, UsedSame
  <1>9. UsablePages(bootmap)' = UsablePages(bootmap) /\ AllPages' = AllPages
    BY <1>1, AreaSame
  <1>10. \A q : q \in AllPages' <=> Kept(q)'
    BY <1>5, <1>7, <1>8, <1>9 DEF Kept
  <1>11. Cardinality(AllPages)' <= pm_total_pages'
    BY <1>1, <1>6, <1>9
  <1>12. QED
    BY <1>1, <1>10, <1>11 DEF PoolInv

LEMMA BootPool ==
  ASSUME TableInv, PoolInv, Boot
  PROVE  PoolInv'
  <1>1. /\ BootInv /\ pmm_init /\ Unseen /\ UNCHANGED <<fresh, frame, mapped>>
    BY BootUnseen DEF Boot, TableInv, thread_vars, walk_vars, client_vars
  <1>2. CASE CountEntry \/ CountDone \/ SkipEntry
    <2>1. phase \in {"count", "locate"} /\ phase' \in {"count", "locate"}
          /\ UNCHANGED <<bootmap, memmap>>
      BY <1>2 DEF CountEntry, CountDone, SkipEntry, pmm_memory
    <2>2. QED
      BY <2>1 DEF PoolInv
  <1>3. CASE NoPlace
    <2>1. /\ phase = "locate" /\ phase' = "push" /\ ent' = 1 /\ off' = 0
          /\ UNCHANGED <<bootmap, memmap, pm_stack_base, pm_total_pages>>
          /\ memmap = bootmap /\ pm_stack_base = NULL
      BY <1>1, <1>3 DEF NoPlace, BootInv, PoolInv, pmm_memory
    <2>2. UsablePages(memmap) = AllPages
      BY <2>1 DEF AllPages, StackPages
    <2>3. \A q : ~Reached(q)'
      <3>1. 1 <= Len(memmap) => memmap[1].base \in Nat
        BY <1>1, Maps DEF Entry
      <3>2. QED
        BY <2>1, <3>1, NothingReached
    <2>4. UsablePages(memmap)' = AllPages'
      BY <2>1, <2>2, AreaSame
    <2>5. QED
      BY <2>1, <2>3, <2>4 DEF PoolInv
  <1>4. CASE PlaceStack
    BY <1>1, <1>4, PlaceStackPool
  <1>5. CASE PushPage \/ NextEntry
    BY <1>1, <1>5, PushPagePool, NextEntryPool
  <1>6. CASE PushDone
    BY <1>1, <1>6, PushDonePool
  <1>7. QED
    BY <1>1, <1>2, <1>3, <1>4, <1>5, <1>6 DEF pmm_init

-----------------------------------------------------------------------------
(* From then on every step moves a page from one owner to the next. *)
LEMMA ReadyPool ==
  ASSUME PoolInv, SamePool, phase = "ready", \A q : Kept(q)' <=> Kept(q)
  PROVE  PoolInv'
  <1>1. /\ phase' = "ready" /\ pm_total_pages' = pm_total_pages
        /\ UsablePages(bootmap)' = UsablePages(bootmap) /\ AllPages' = AllPages
    BY DEF SamePool, AllPages, UsablePages, EntryPages, StackPages, pm_stack_size
  <1>2. Cardinality(AllPages)' <= pm_total_pages'
    BY <1>1 DEF PoolInv
  <1>3. \A q \in UsablePages(bootmap)' : q \in AllPages' <=> Kept(q)'
    BY <1>1 DEF PoolInv
  <1>4. QED
    BY <1>1, <1>2, <1>3 DEF PoolInv

LEMMA StillPool ==
  ASSUME TableInv, PoolInv, UNCHANGED pmm_vars, \A q : Used(q)' <=> Used(q)
  PROVE  PoolInv'
  <1>1. UNCHANGED <<phase, bootmap, memmap, ent, off, pm_stack, pm_stack_base, pm_stack_idx,
                    pm_total_pages>>
    BY DEF pmm_vars, pmm_memory, pmm_loops, pmm_counts
  <1>2. FreePages' = FreePages
    BY <1>1 DEF FreePages, FreeSlots
  <1>3. CASE phase = "ready"
    <2>1. \A q : Kept(q)' <=> Kept(q)
      BY <1>2 DEF Kept
    <2>2. QED
      BY <1>1, <1>3, <2>1, ReadyPool DEF SamePool
  <1>4. CASE phase = "push"
    <2>1. \A q : Reached(q)' <=> Reached(q)
      BY <1>1 DEF Reached, EntryPages
    <2>2. QED
      BY <1>1, <1>2, <1>4, <2>1, AreaSame DEF PoolInv
  <1>5. CASE phase \notin {"ready", "push"}
    BY <1>1, <1>5 DEF PoolInv
  <1>6. QED
    BY <1>3, <1>4, <1>5

LEMMA GrantPool ==
  ASSUME TableInv, PoolInv, pmm_request_pages(1), CanGrant(1),
         \A q : Used(q)' <=> Used(q) \/ q = Granted(1)
  PROVE  PoolInv'
  <1>p. PICK p : p = Granted(1)
    OBVIOUS
  <1>1. /\ SamePool /\ phase = "ready" /\ p \in FreePages /\ FreePages' = FreePages \ {p}
    BY <1>p, GrantOne DEF TableInv
  <1>2. \A q : Kept(q)' <=> Kept(q)
    BY <1>p, <1>1 DEF Kept
  <1>3. QED
    BY <1>1, <1>2, ReadyPool

(* There is room for a page that is in use. *)
LEMMA RoomForUsed ==
  ASSUME TableInv, PoolInv, phase = "ready", NEW p \in UsablePages(bootmap) \ FreePages, Used(p)
  PROVE  pm_stack_idx < pm_total_pages
  <1>1. BootInv /\ pm_stack_idx \in Nat /\ pm_total_pages \in Nat
    BY DEF TableInv, BootInv, StackType
  <1>2. FreePages \cup {p} \subseteq AllPages
    BY <1>1 DEF BootInv, PoolInv, Kept
  <1>3. IsFiniteSet(FreePages) /\ Cardinality(FreePages) = pm_stack_idx
    BY <1>1, CountFree
  <1>4. Cardinality(FreePages \cup {p}) = pm_stack_idx + 1
    BY <1>3, FS_AddElement
  <1>5. Cardinality(FreePages \cup {p}) <= Cardinality(AllPages)
    BY <1>1, <1>2, FinitePool, FS_Subset
  <1>6. Cardinality(AllPages) <= pm_total_pages /\ Cardinality(AllPages) \in Nat
    BY <1>1, FinitePool DEF PoolInv
  <1>7. QED
    BY <1>1, <1>4, <1>5, <1>6

LEMMA FreePool ==
  ASSUME TableInv, PoolInv, root # NULL, NEW p \in UsablePages(bootmap) \ FreePages, Used(p),
         pmm_free_pages(p, 1), \A q : Used(q)' <=> Used(q) /\ q # p
  PROVE  PoolInv'
  <1>1. BootInv /\ phase = "ready" /\ pm_stack_base # NULL
    BY DEF TableInv, RootInv
  <1>2. pm_stack_idx < pm_total_pages
    BY <1>1, RoomForUsed
  <1>3. SamePool /\ FreePages' = FreePages \cup {p}
    BY <1>1, <1>2, FreeOne
  <1>4. \A q : Kept(q)' <=> Kept(q)
    BY <1>3 DEF Kept
  <1>5. QED
    BY <1>1, <1>3, <1>4, ReadyPool

LEMMA CreateRootPool ==
  ASSUME TableInv, PoolInv, CreateRoot
  PROVE  PoolInv'
  <1>p. PICK p : p = Granted(1)
    OBVIOUS
  <1>1. /\ root = NULL /\ root' = p /\ memory' = [memory EXCEPT ![p] = ZeroPage]
        /\ UNCHANGED <<fresh, frame, mapped>> /\ pmm_request_pages(1) /\ CanGrant(1)
    BY <1>p DEF CreateRoot, thread_vars, walk_vars, client_vars
  <1>2. SamePool /\ phase = "ready" /\ p \in FreePages
    BY <1>p, <1>1, GrantOne DEF TableInv
  <1>3. p \in UsablePages(bootmap) /\ p # NULL
    BY <1>2, UsableIsNotNull DEF TableInv, BootInv
  <1>4. \A v \in Virts : \A d \in 1 .. 4 : Tree'[v][d] = IF d = 1 THEN p ELSE NULL
    BY <1>1, <1>2, <1>3, RootWrite DEF TableInv, SamePool
  <1>5. \A q : IsTable(q)' <=> q = p
    <2>1. \A q : IsTable(q)' => q = p
      BY <1>4 DEF IsTable
    <2>2. PICK v \in Virts : TRUE
      BY VirtsAssumption
    <2>3. Tree'[v][1] = p /\ 1 \in 1 .. 4
      BY <1>4
    <2>4. IsTable(p)'
      BY <1>3, <2>3 DEF IsTable
    <2>5. QED
      BY <2>1, <2>4
  <1>6. \A t \in Threads : fresh'[t] = NULL /\ frame'[t] = NULL /\ mapped'[t] = {}
    BY <1>1 DEF TableInv, RootInv
  <1>7. \A q : Used(q)' <=> Used(q) \/ q = p
    <2>1. \A q : ~Used(q)
      BY <1>1, NothingUsed
    <2>2. \A q : Used(q)' <=> q = p
      BY <1>5, <1>6 DEF Used
    <2>3. QED
      BY <2>1, <2>2
  <1>8. QED
    BY <1>p, <1>1, <1>7, GrantPool

LEMMA TakeFramePool ==
  ASSUME TableInv, PoolInv, NEW t \in Threads, TakeFrame(t)
  PROVE  PoolInv'
  <1>p. PICK p : p = Granted(1)
    OBVIOUS
  <1>1. /\ frame[t] = NULL /\ frame' = [frame EXCEPT ![t] = p]
        /\ UNCHANGED <<fresh, mapped>> /\ Unseen /\ pmm_request_pages(1) /\ CanGrant(1)
    BY <1>p, PlainSteps DEF TakeFrame, walk_vars
  <1>2. p # NULL
    <2>1. p \in UsablePages(bootmap)
      BY <1>p, <1>1, GrantOne DEF TableInv, BootInv
    <2>2. QED
      BY <2>1, UsableIsNotNull DEF TableInv
  <1>3. \A u \in Threads : frame'[u] = IF u = t THEN p ELSE frame[u]
    BY <1>1 DEF TableInv, ThreadType
  <1>4. \A q : Used(q)' <=> Used(q) \/ q = p
    BY <1>1, <1>2, <1>3 DEF Used, Unseen, IsTable, Frame
  <1>5. QED
    BY <1>p, <1>1, <1>4, GrantPool

LEMMA RequestTablePool ==
  ASSUME TableInv, PoolInv, NEW t \in Threads, RequestTable(t)
  PROVE  PoolInv'
  <1>1. /\ UNCHANGED <<frame, mapped>> /\ Unseen /\ pmm_request_pages(1) /\ fresh[t] = NULL
    BY PlainSteps DEF RequestTable, client_vars, TableInv, CallInv
  <1>2. CASE CanGrant(1)
    <2>p. PICK p : p = Granted(1)
      OBVIOUS
    <2>1. fresh' = [fresh EXCEPT ![t] = p]
      BY <1>2, <2>p DEF RequestTable
    <2>2. p # NULL
      <3>1. p \in UsablePages(bootmap)
        BY <1>1, <1>2, <2>p, GrantOne DEF TableInv, BootInv
      <3>2. QED
        BY <3>1, UsableIsNotNull DEF TableInv
    <2>3. \A u \in Threads : fresh'[u] = IF u = t THEN p ELSE fresh[u]
      BY <2>1 DEF TableInv, ThreadType
    <2>4. \A q : Used(q)' <=> Used(q) \/ q = p
      BY <1>1, <2>2, <2>3 DEF Used, Unseen, IsTable, Frame
    <2>5. QED
      BY <1>1, <1>2, <2>p, <2>4, GrantPool
  <1>3. CASE ~CanGrant(1)
    <2>1. fresh' = fresh /\ UNCHANGED pmm_vars
      BY <1>3 DEF RequestTable, pmm_request_pages, pmm_vars
    <2>2. QED
      BY <1>1, <2>1, UsedSame, StillPool
  <1>4. QED
    BY <1>2, <1>3

LEMMA DropFramePool ==
  ASSUME TableInv, PoolInv, NEW t \in Threads, DropFrame(t)
  PROVE  PoolInv'
  <1>p. PICK p : p = frame[t]
    OBVIOUS
  <1>1. /\ root # NULL /\ p # NULL /\ frame' = [frame EXCEPT ![t] = NULL]
        /\ UNCHANGED <<fresh, mapped>> /\ Unseen /\ pmm_free_pages(p, 1)
    BY <1>p, PlainSteps DEF DropFrame, Idle, walk_vars
  <1>2. p \in UsablePages(bootmap) \ FreePages
    BY <1>p, <1>1 DEF TableInv, OwnerInv, UsedInv
  <1>3. \A u \in Threads : frame'[u] = IF u = t THEN NULL ELSE frame[u]
    BY <1>1 DEF TableInv, ThreadType
  <1>4. /\ ~IsTable(p)
        /\ \A u \in Threads : /\ u # t => frame[u] # p
                              /\ \A v \in mapped[u] : Frame(v) # p
    BY <1>p, <1>1 DEF TableInv, OwnerInv, FrameInv
  <1>5. \A u \in Threads : fresh[u] # p
    BY <1>p, <1>1 DEF TableInv, OwnerInv, FreshInv
  <1>6. Used(p)
    BY <1>p, <1>1 DEF Used
  <1>7. ASSUME NEW q PROVE Used(q)' <=> Used(q) /\ q # p
    <2>1. Used(q)' => Used(q)
      BY <1>1, <1>3 DEF Used, Unseen, IsTable, Frame
    <2>2. q # p /\ Used(q) => Used(q)'
      BY <1>p, <1>1, <1>3 DEF Used, Unseen, IsTable, Frame
    <2>3. ~Used(p)'
      BY <1>1, <1>3, <1>4, <1>5 DEF Used, Unseen, IsTable, Frame
    <2>4. QED
      BY <2>1, <2>2, <2>3
  <1>8. QED
    BY <1>1, <1>2, <1>6, <1>7, FreePool

LEMMA FreeFramePool ==
  ASSUME TableInv, PoolInv, NEW t \in Threads, FreeFrame(t)
  PROVE  PoolInv'
  <1>v. PICK v0 : v0 = Virt(t)
    OBVIOUS
  <1>p. PICK p : p = Slot(t).page
    OBVIOUS
  <1>1. /\ pc[t] = "walk" /\ depth[t] = 4 /\ call[t].op = "unmap" /\ call[t].free
        /\ mapped' = [mapped EXCEPT ![t] = mapped[t] \ {v0}]
        /\ UNCHANGED <<fresh, frame>> /\ Unseen /\ pmm_free_pages(p, 1)
        /\ root # NULL
    BY <1>v, <1>p, PlainSteps DEF FreeFrame, walk_vars, TableInv, CallInv
  <1>2. v0 \in mapped[t] /\ v0 \in Own[t] /\ v0 \in Virts /\ p = Frame(v0)
        /\ p \in UsablePages(bootmap) \ FreePages /\ p # NULL
    <2>1. v0 \in mapped[t]
      BY <1>v, <1>1 DEF TableInv, CallInv
    <2>2. v0 \in Virts /\ p = Frame(v0)
      BY <1>v, <1>p, <1>1, WalkFacts DEF Frame
    <2>3. v0 \in Own[t] /\ p \in UsablePages(bootmap) \ FreePages
      BY <2>1, <2>2 DEF TableInv, ThreadType, OwnerInv, UsedInv
    <2>4. QED
      BY <2>1, <2>2, <2>3, UsableIsNotNull DEF TableInv
  <1>3. \A u \in Threads : mapped'[u] = mapped[u] \ {v0}
    <2>1. \A u \in Threads : mapped'[u] = IF u = t THEN mapped[u] \ {v0} ELSE mapped[u]
      BY <1>1 DEF TableInv, ThreadType
    <2>2. \A u \in Threads : v0 \in mapped[u] => u = t
      BY <1>2, OneOwner
    <2>3. QED
      BY <2>1, <2>2
  <1>4. /\ ~IsTable(p)
        /\ \A u \in Threads : frame[u] # p
        /\ \A u \in Threads : \A w \in mapped[u] : w # v0 => Frame(w) # p
    BY <1>2 DEF TableInv, OwnerInv, FrameInv
  <1>5. \A u \in Threads : fresh[u] # p
    BY <1>2 DEF TableInv, OwnerInv, FreshInv
  <1>6. Used(p)
    BY <1>2 DEF Used
  <1>7. ASSUME NEW q PROVE Used(q)' <=> Used(q) /\ q # p
    <2>1. Used(q)' => Used(q)
      BY <1>1, <1>3 DEF Used, Unseen, IsTable, Frame
    <2>2. q # p /\ Used(q) => Used(q)'
      BY <1>1, <1>2, <1>3 DEF Used, Unseen, IsTable, Frame
    <2>3. ~Used(p)'
      BY <1>1, <1>3, <1>4, <1>5 DEF Used, Unseen, IsTable, Frame
    <2>4. QED
      BY <2>1, <2>2, <2>3
  <1>8. QED
    BY <1>1, <1>2, <1>6, <1>7, FreePool

(* The page leaves fresh for the tree. *)
LEMMA LinkTablePool ==
  ASSUME TableInv, PoolInv, NEW t \in Threads, LinkTable(t)
  PROVE  PoolInv'
  <1>p. PICK p : p = fresh[t]
    OBVIOUS
  <1>v. PICK v0 : v0 = Virt(t)
    OBVIOUS
  <1>d. PICK d0 : d0 = depth[t]
    OBVIOUS
  <1>1. /\ pc[t] = "link" /\ p # NULL /\ d0 < 4 /\ ~Slot(t).present /\ memory[p] = ZeroPage
        /\ bootmap' = bootmap /\ root' = root /\ UNCHANGED <<pmm_vars, frame, mapped>>
        /\ fresh' = [fresh EXCEPT ![t] = NULL]
    BY <1>p, <1>d DEF LinkTable, TableInv, CallInv, pmm_vars, pmm_memory, client_vars
  <1>2. /\ v0 \in Virts /\ d0 \in 1 .. 3 /\ p \in Nat
        /\ table[t] = Node(v0, d0) /\ table[t] # NULL
    BY <1>p, <1>v, <1>d, <1>1, WalkFacts DEF TableInv, ThreadType
  <1>3. p \in UsablePages(bootmap) /\ ~IsTable(p)
    BY <1>p, <1>1 DEF TableInv, OwnerInv, UsedInv, FreshInv
  <1>4. \A v \in Virts : \A d \in 1 .. 4 : Node(v, d) # p
    BY <1>1, <1>3, Views DEF IsTable
  <1>5. ~memory[Node(v0, d0)][v0[d0]].present
    BY <1>v, <1>d, <1>1, <1>2 DEF Slot
  <1>6. memory' = [memory EXCEPT ![Node(v0, d0)][v0[d0]] = Link(p)]
    BY <1>p, <1>v, <1>d, <1>2 DEF LinkTable, Store
  <1>7. /\ MappingsKept
        /\ \A v \in Virts : \A d \in 1 .. 4 :
             Node(v, d)' = IF d = d0 + 1 /\ SamePath(v, v0, d) THEN p ELSE Node(v, d)
    BY <1>1, <1>2, <1>3, <1>4, <1>5, <1>6, LinkWrite DEF TableInv
  <1>8. \A q : IsTable(q)' <=> IsTable(q) \/ q = p
    <2>1. Node(v0, d0 + 1) = NULL
      BY <1>2, <1>5, NodeStep DEF Down
    <2>2. \A v \in Virts : SamePath(v, v0, d0 + 1) => Node(v, d0 + 1) = NULL
      BY <1>2, <2>1, PathDecides
    <2>3. d0 + 1 \in 1 .. 4 /\ SamePath(v0, v0, d0 + 1)
      BY <1>2 DEF SamePath
    <2>4. Node(v0, d0 + 1)' = p
      BY <1>2, <1>7, <2>3
    <2>5. \A q : IsTable(q) <=> q # NULL /\ \E v \in Virts : \E d \in 1 .. 4 : q = Node(v, d)
      BY Views DEF IsTable
    <2>6. \A q : IsTable(q)' <=> q # NULL /\ \E v \in Virts : \E d \in 1 .. 4 : q = Node(v, d)'
      BY Views DEF IsTable
    <2>7. IsTable(p)'
      BY <1>1, <1>2, <2>3, <2>4, <2>6
    <2>8. ASSUME NEW q, IsTable(q)' PROVE IsTable(q) \/ q = p
      BY <1>7, <2>5, <2>6, <2>8
    <2>9. ASSUME NEW q, IsTable(q) PROVE IsTable(q)'
      <3>1. PICK v \in Virts, d \in 1 .. 4 : q = Node(v, d) /\ q # NULL
        BY <2>5, <2>9
      <3>2. Node(v, d)' = q
        BY <1>7, <2>2, <3>1
      <3>3. QED
        BY <2>6, <3>1, <3>2
    <2>10. QED
      BY <2>7, <2>8, <2>9
  <1>9. Flat' = Flat
    BY <1>7, ViewsKept
  <1>10. \A u \in Threads : fresh'[u] = IF u = t THEN NULL ELSE fresh[u]
    BY <1>1 DEF TableInv, ThreadType
  <1>11. ASSUME NEW q PROVE Used(q)' <=> Used(q)
    <2>1. Used(q)' => Used(q)
      BY <1>p, <1>1, <1>8, <1>9, <1>10 DEF Used, Frame
    <2>2. Used(q) => Used(q)'
      BY <1>p, <1>1, <1>8, <1>9, <1>10 DEF Used, Frame
    <2>3. QED
      BY <2>1, <2>2
  <1>12. QED
    BY <1>1, <1>11, StillPool

(* The frame leaves its caller for the entry. *)
LEMMA WriteEntryPool ==
  ASSUME TableInv, PoolInv, NEW t \in Threads, WriteEntry(t)
  PROVE  PoolInv'
  <1>v. PICK v0 : v0 = Virt(t)
    OBVIOUS
  <1>p. PICK p : p = frame[t]
    OBVIOUS
  <1>1. /\ v0 \in Virts /\ Tree' = Tree /\ Flat' = [Flat EXCEPT ![v0] = Link(p)]
        /\ p # NULL /\ v0 \in Own[t] \ mapped[t]
        /\ frame' = [frame EXCEPT ![t] = NULL]
        /\ mapped' = [mapped EXCEPT ![t] = @ \cup {v0}]
        /\ UNCHANGED <<pmm_vars, fresh>>
    BY <1>v, <1>p, WriteSeen DEF WriteEntry, walk_vars, TableInv, CallInv
  <1>2. /\ Frame(v0)' = p
        /\ \A v \in Virts \ {v0} : Frame(v)' = Frame(v)
    <2>1. DOMAIN Flat = Virts
      BY DEF Flat
    <2>2. Flat'[v0] = Link(p) /\ \A v \in Virts \ {v0} : Flat'[v] = Flat[v]
      BY <1>1, <2>1
    <2>3. QED
      BY <2>2 DEF Frame, Link
  <1>3. /\ \A u \in Threads : frame'[u] = IF u = t THEN NULL ELSE frame[u]
        /\ \A u \in Threads : mapped'[u] = IF u = t THEN mapped[u] \cup {v0} ELSE mapped[u]
    BY <1>1 DEF TableInv, ThreadType
  <1>4. \A u \in Threads : mapped[u] \subseteq Virts \ {v0}
    <2>1. \A u \in Threads : v0 \in mapped[u] => u = t
      BY <1>1, OneOwner
    <2>2. QED
      BY <1>1, <2>1 DEF TableInv, ThreadType
  <1>5. \A q : IsTable(q)' <=> IsTable(q)
    BY <1>1 DEF IsTable
  <1>6. ASSUME NEW q, Used(q)' PROVE Used(q)
    <2>1. CASE IsTable(q)' \/ \E u \in Threads : q # NULL /\ (fresh'[u] = q \/ frame'[u] = q)
      BY <1>1, <1>3, <1>5, <2>1 DEF Used
    <2>2. CASE \E u \in Threads : \E v \in mapped'[u] : Frame(v)' = q
      <3>u. PICK u \in Threads : \E v \in mapped'[u] : Frame(v)' = q
        BY <2>2
      <3>1. PICK v \in mapped'[u] : Frame(v)' = q
        BY <3>u
      <3>2. CASE v = v0
        BY <1>p, <1>1, <1>2, <3>1, <3>2 DEF Used
      <3>3. CASE v # v0
        <4>1. v \in mapped[u] /\ v \in Virts \ {v0}
          BY <1>3, <1>4, <3>1, <3>3
        <4>2. QED
          BY <1>2, <3>1, <4>1 DEF Used
      <3>4. QED
        BY <3>2, <3>3
    <2>3. QED
      BY <1>6, <2>1, <2>2 DEF Used
  <1>7. ASSUME NEW q, Used(q) PROVE Used(q)'
    <2>1. CASE IsTable(q) \/ \E u \in Threads : q # NULL /\ fresh[u] = q
      BY <1>1, <1>5, <2>1 DEF Used
    <2>2. CASE \E u \in Threads : q # NULL /\ frame[u] = q
      <3>1. PICK u \in Threads : q # NULL /\ frame[u] = q
        BY <2>2
      <3>2. CASE u = t
        <4>1. v0 \in mapped'[t] /\ Frame(v0)' = q
          BY <1>p, <1>2, <1>3, <3>1, <3>2
        <4>2. QED
          BY <4>1 DEF Used
      <3>3. CASE u # t
        <4>1. frame'[u] = q
          BY <1>3, <3>1, <3>3
        <4>2. QED
          BY <3>1, <4>1 DEF Used
      <3>4. QED
        BY <3>2, <3>3
    <2>3. CASE \E u \in Threads : \E v \in mapped[u] : Frame(v) = q
      <3>u. PICK u \in Threads : \E v \in mapped[u] : Frame(v) = q
        BY <2>3
      <3>1. PICK v \in mapped[u] : Frame(v) = q
        BY <3>u
      <3>2. v \in mapped'[u] /\ Frame(v)' = q
        BY <1>2, <1>3, <1>4, <3>1
      <3>3. QED
        BY <3>2 DEF Used
    <2>4. QED
      BY <1>7, <2>1, <2>2, <2>3 DEF Used
  <1>8. QED
    BY <1>1, <1>6, <1>7, StillPool

(* Without free_phys the frame of the entry goes back to its caller. *)
LEMMA ClearEntryPool ==
  ASSUME TableInv, PoolInv, NEW t \in Threads, ClearEntry(t)
  PROVE  PoolInv'
  <1>v. PICK v0 : v0 = Virt(t)
    OBVIOUS
  <1>1. /\ v0 \in Virts /\ Tree' = Tree /\ Flat' = [Flat EXCEPT ![v0] = Zero]
        /\ UNCHANGED <<pmm_vars, fresh>>
    BY <1>v, ClearSeen DEF ClearEntry, walk_vars
  <1>2. \A v \in Virts \ {v0} : Frame(v)' = Frame(v)
    <2>1. DOMAIN Flat = Virts
      BY DEF Flat
    <2>2. QED
      BY <1>1, <2>1 DEF Frame
  <1>3. v0 \in Own[t]
    BY <1>v DEF ClearEntry, TableInv, CallInv, ThreadType
  <1>4. \A u \in Threads : v0 \in mapped[u] => u = t
    BY <1>3, OneOwner
  <1>5. \A u \in Threads : mapped[u] \subseteq Virts
    BY DEF TableInv, ThreadType
  <1>6. \A q : IsTable(q)' <=> IsTable(q)
    BY <1>1 DEF IsTable
  <1>7. CASE frame' = frame /\ mapped' = mapped /\ v0 \notin mapped[t]
    <2>1. \A u \in Threads : mapped[u] \subseteq Virts \ {v0}
      BY <1>4, <1>5, <1>7
    <2>2. \A q : Used(q)' <=> Used(q)
      BY <1>1, <1>2, <1>6, <1>7, <2>1 DEF Used
    <2>3. QED
      BY <1>1, <2>2, StillPool
  <1>8. CASE /\ frame' = [frame EXCEPT ![t] = Slot(t).page] /\ v0 \in mapped[t]
             /\ mapped' = [mapped EXCEPT ![t] = @ \ {v0}]
             /\ pc[t] = "walk" /\ depth[t] = 4 /\ frame[t] = NULL
    <2>p. PICK p : p = Slot(t).page
      OBVIOUS
    <2>1. p = Frame(v0)
      BY <1>v, <1>8, <2>p, WalkFacts DEF Frame
    <2>2. p # NULL
      <3>1. p \in UsablePages(bootmap)
        BY <1>8, <2>1 DEF TableInv, OwnerInv, UsedInv
      <3>2. QED
        BY <3>1, UsableIsNotNull DEF TableInv
    <2>3. /\ \A u \in Threads : frame'[u] = IF u = t THEN p ELSE frame[u]
          /\ \A u \in Threads : mapped'[u] = mapped[u] \ {v0}
      <3>1. \A u \in Threads : frame'[u] = IF u = t THEN p ELSE frame[u]
        BY <1>8, <2>p DEF TableInv, ThreadType
      <3>2. \A u \in Threads : mapped'[u] = IF u = t THEN mapped[u] \ {v0} ELSE mapped[u]
        BY <1>8 DEF TableInv, ThreadType
      <3>3. QED
        BY <1>4, <3>1, <3>2
    <2>4. ASSUME NEW q, Used(q)' PROVE Used(q)
      <3>1. CASE IsTable(q)' \/ \E u \in Threads : q # NULL /\ fresh'[u] = q
        BY <1>1, <1>6, <3>1 DEF Used
      <3>2. CASE \E u \in Threads : q # NULL /\ frame'[u] = q
        BY <1>8, <2>1, <2>3, <3>2 DEF Used
      <3>3. CASE \E u \in Threads : \E v \in mapped'[u] : Frame(v)' = q
        <4>u. PICK u \in Threads : \E v \in mapped'[u] : Frame(v)' = q
          BY <3>3
        <4>1. PICK v \in mapped'[u] : Frame(v)' = q
          BY <4>u
        <4>2. v \in mapped[u] /\ v \in Virts \ {v0}
          BY <1>5, <2>3, <4>1
        <4>3. QED
          BY <1>2, <4>1, <4>2 DEF Used
      <3>4. QED
        BY <2>4, <3>1, <3>2, <3>3 DEF Used
    <2>5. ASSUME NEW q, Used(q) PROVE Used(q)'
      <3>1. CASE IsTable(q) \/ \E u \in Threads : q # NULL /\ fresh[u] = q
        BY <1>1, <1>6, <3>1 DEF Used
      <3>2. CASE \E u \in Threads : q # NULL /\ frame[u] = q
        <4>1. PICK u \in Threads : q # NULL /\ frame[u] = q
          BY <3>2
        <4>2. frame'[u] = q
          BY <1>8, <2>3, <4>1
        <4>3. QED
          BY <4>1, <4>2 DEF Used
      <3>3. CASE \E u \in Threads : \E v \in mapped[u] : Frame(v) = q
        <4>u. PICK u \in Threads : \E v \in mapped[u] : Frame(v) = q
          BY <3>3
        <4>1. PICK v \in mapped[u] : Frame(v) = q
          BY <4>u
        <4>2. CASE v = v0
          <5>1. frame'[t] = q /\ q # NULL
            BY <2>1, <2>2, <2>3, <4>1, <4>2
          <5>2. QED
            BY <5>1 DEF Used
        <4>3. CASE v # v0
          <5>1. v \in mapped'[u] /\ Frame(v)' = q
            BY <1>2, <1>5, <2>3, <4>1, <4>3
          <5>2. QED
            BY <5>1 DEF Used
        <4>4. QED
          BY <4>2, <4>3
      <3>4. QED
        BY <2>5, <3>1, <3>2, <3>3 DEF Used
    <2>6. QED
      BY <1>1, <2>4, <2>5, StillPool
  <1>9. \/ frame' = frame /\ mapped' = mapped /\ v0 \notin mapped[t]
        \/ /\ frame' = [frame EXCEPT ![t] = Slot(t).page] /\ v0 \in mapped[t]
           /\ mapped' = [mapped EXCEPT ![t] = @ \ {v0}]
           /\ pc[t] = "walk" /\ depth[t] = 4 /\ frame[t] = NULL
    <2>1. CASE pc[t] = "clear" /\ UNCHANGED client_vars
      BY <1>v, <2>1 DEF client_vars, TableInv, CallInv
    <2>2. CASE /\ pc[t] = "walk" /\ depth[t] = 4
               /\ call[t].op = "unmap" /\ ~call[t].free
               /\ frame' = [frame EXCEPT ![t] = IF v0 \in mapped[t] THEN Slot(t).page ELSE @]
               /\ mapped' = [mapped EXCEPT ![t] = @ \ {v0}]
      <3>1. v0 \in mapped[t] => frame[t] = NULL
        BY <1>v, <2>2 DEF TableInv, CallInv
      <3>2. CASE v0 \in mapped[t]
        BY <2>2, <3>1, <3>2
      <3>3. CASE v0 \notin mapped[t]
        <4>1. frame \in [Threads -> Nat] /\ mapped \in [Threads -> SUBSET Virts]
          BY DEF TableInv, ThreadType
        <4>2. frame' = [frame EXCEPT ![t] = frame[t]]
          BY <2>2, <3>3, <4>1
        <4>3. mapped' = [mapped EXCEPT ![t] = mapped[t]]
          BY <2>2, <3>3, <4>1
        <4>4. QED
          BY <3>3, <4>1, <4>2, <4>3
      <3>4. QED
        BY <3>2, <3>3
    <2>3. QED
      BY <1>v, <2>1, <2>2 DEF ClearEntry
  <1>10. QED
    BY <1>7, <1>8, <1>9

LEMMA NextPool ==
  ASSUME TableInv, PoolInv, Next
  PROVE  PoolInv'
  <1>0. Unseen /\ UNCHANGED <<pmm_vars, fresh, frame, mapped>> => PoolInv'
    BY UsedSame, StillPool
  <1>1. CASE Boot \/ CreateRoot
    BY <1>1, BootPool, CreateRootPool
  <1>2. CASE \E t \in Threads : \E v \in Virts :
               CallMap(t, v) \/ CallVirt2Phys(t, v) \/ \E free \in BOOLEAN : CallUnmap(t, v, free)
    <2>1. Unseen
      BY <1>2, PlainSteps
    <2>2. UNCHANGED <<pmm_vars, fresh, frame, mapped>>
      BY <1>2 DEF CallMap, CallVirt2Phys, CallUnmap, Begin, client_vars
    <2>3. QED
      BY <1>0, <2>1, <2>2
  <1>3. CASE \E t \in Threads : TakeFrame(t) \/ DropFrame(t)
    BY <1>3, TakeFramePool, DropFramePool
  <1>4. CASE \E t \in Threads : Step(t)
    <2>1. PICK t \in Threads : Step(t)
      BY <1>4
    <2>2. CASE Acquire(t) \/ Descend(t) \/ Missing(t) \/ ReadEntry(t) \/ Release(t) \/ Return(t)
      <3>1. Unseen
        BY <2>2, PlainSteps
      <3>2. UNCHANGED <<pmm_vars, fresh, frame, mapped>>
        BY <2>2 DEF Acquire, Descend, Missing, ReadEntry, Release, Return, Leave,
                    walk_vars, client_vars
      <3>3. QED
        BY <1>0, <3>1, <3>2
    <2>3. CASE ZeroTable(t)
      <3>1. Unseen
        BY <2>3, ZeroUnseen
      <3>2. UNCHANGED <<pmm_vars, fresh, frame, mapped>>
        BY <2>3 DEF ZeroTable, walk_vars, client_vars
      <3>3. QED
        BY <1>0, <3>1, <3>2
    <2>4. CASE RequestTable(t) \/ LinkTable(t)
      BY <2>4, RequestTablePool, LinkTablePool
    <2>5. CASE WriteEntry(t) \/ FreeFrame(t) \/ ClearEntry(t)
      BY <2>5, WriteEntryPool, FreeFramePool, ClearEntryPool
    <2>6. QED
      BY <2>1, <2>2, <2>3, <2>4, <2>5 DEF Step
  <1>5. QED
    BY <1>1, <1>2, <1>3, <1>4 DEF Next

LEMMA VMMPool == Spec => [](TableInv /\ PoolInv)
  <1>1. Init => PoolInv
    BY DEF Init, PMMInit, PoolInv
  <1>2. TableInv /\ PoolInv /\ UNCHANGED vars => PoolInv'
    <2> SUFFICES ASSUME TableInv, PoolInv, UNCHANGED vars PROVE PoolInv'
      OBVIOUS
    <2>1. UNCHANGED <<pmm_vars, root, memory, fresh, frame, mapped>>
      BY DEF vars, thread_vars, walk_vars, client_vars
    <2>2. Unseen
      BY <2>1, PoolUnseen
    <2>3. QED
      BY <2>1, <2>2, UsedSame, StillPool
  <1>3. TableInv /\ PoolInv /\ [Next]_vars => PoolInv'
    BY <1>2, NextPool
  <1>4. QED
    BY <1>1, <1>3, VMMTables, PTL DEF Spec

LEMMA TwoParts ==
  ASSUME NEW A, NEW B, IsFiniteSet(A), IsFiniteSet(B), A \cap B = {}
  PROVE  /\ IsFiniteSet(A \cup B)
         /\ Cardinality(A \cup B) = Cardinality(A) + Cardinality(B)
         /\ Cardinality(A) \in Nat /\ Cardinality(B) \in Nat
  <1>1. /\ IsFiniteSet(A \cup B)
        /\ Cardinality(A \cup B) = Cardinality(A) + Cardinality(B) - Cardinality(A \cap B)
    BY FS_Union
  <1>2. Cardinality(A \cap B) = 0
    BY FS_EmptySet
  <1>3. Cardinality(A) \in Nat /\ Cardinality(B) \in Nat
    BY FS_CardinalityType
  <1>4. QED
    BY <1>1, <1>2, <1>3

LEMMA FiveParts ==
  ASSUME NEW A, NEW B, NEW C, NEW D, NEW E,
         IsFiniteSet(A), IsFiniteSet(B), IsFiniteSet(C), IsFiniteSet(D), IsFiniteSet(E),
         A \cap B = {}, (A \cup B) \cap C = {}, (A \cup B \cup C) \cap D = {},
         (A \cup B \cup C \cup D) \cap E = {}
  PROVE  Cardinality(A \cup B \cup C \cup D \cup E)
           = Cardinality(A) + Cardinality(B) + Cardinality(C) + Cardinality(D) + Cardinality(E)
  <1>1. /\ IsFiniteSet(A \cup B) /\ Cardinality(A \cup B) = Cardinality(A) + Cardinality(B)
    BY TwoParts
  <1>2. /\ IsFiniteSet(A \cup B \cup C)
        /\ Cardinality(A \cup B \cup C) = Cardinality(A \cup B) + Cardinality(C)
    BY <1>1, TwoParts
  <1>3. /\ IsFiniteSet(A \cup B \cup C \cup D)
        /\ Cardinality(A \cup B \cup C \cup D) = Cardinality(A \cup B \cup C) + Cardinality(D)
    BY <1>2, TwoParts
  <1>4. Cardinality(A \cup B \cup C \cup D \cup E)
          = Cardinality(A \cup B \cup C \cup D) + Cardinality(E)
    BY <1>3, TwoParts
  <1>5. QED
    BY <1>1, <1>2, <1>3, <1>4

(* One page per owner: two threads are never granted a table at once. *)
LEMMA CountOwners ==
  ASSUME TableInv, phase = "ready"
  PROVE  /\ IsFiniteSet({fresh[t] : t \in Linking}) /\ IsFiniteSet({frame[t] : t \in Holding})
         /\ IsFiniteSet({Frame(v) : v \in MappedPages})
         /\ Cardinality({fresh[t] : t \in Linking}) = Cardinality(Linking)
         /\ Cardinality({frame[t] : t \in Holding}) = Cardinality(Holding)
         /\ Cardinality({Frame(v) : v \in MappedPages}) = Cardinality(MappedPages)
  <1> DEFINE U == UsablePages(bootmap)
             L == {fresh[t] : t \in Linking}
             H == {frame[t] : t \in Holding}
             M == {Frame(v) : v \in MappedPages}
  <1>1. IsFiniteSet(U)
    BY FinitePool DEF TableInv
  <1>2. L \subseteq U /\ H \subseteq U /\ M \subseteq U
    BY DEF TableInv, OwnerInv, UsedInv, Linking, Holding, MappedPages
  <1>3. IsFiniteSet(L) /\ IsFiniteSet(H) /\ IsFiniteSet(M)
    <2> HIDE DEF U, L, H, M
    <2>1. QED
      BY <1>1, <1>2, FS_Subset
  <1>4. Cardinality(L) = Cardinality(Linking)
    <2>f. PICK f : f = [t \in Linking |-> fresh[t]]
      OBVIOUS
    <2>1. \A t, u \in Linking : f[t] = f[u] => t = u
      <3>1. \A t \in Linking : Locked(t)
        BY DEF TableInv, CallInv, Locked, Linking
      <3>2. \A t \in Linking : map_lock = t
        BY <3>1 DEF TableInv, LockInv, Linking
      <3>3. QED
        BY <3>2
    <2>2. f \in [Linking -> L] /\ \A q \in L : \E t \in Linking : f[t] = q
      BY <2>f
    <2> HIDE DEF L
    <2>3. QED
      BY <1>3, <2>1, <2>2, CountImage
  <1>5. Cardinality(H) = Cardinality(Holding)
    <2>f. PICK f : f = [t \in Holding |-> frame[t]]
      OBVIOUS
    <2>1. \A t, u \in Holding : f[t] = f[u] => t = u
      BY <2>f DEF TableInv, OwnerInv, FrameInv, Holding
    <2>2. f \in [Holding -> H] /\ \A q \in H : \E t \in Holding : f[t] = q
      BY <2>f
    <2> HIDE DEF H
    <2>3. QED
      BY <1>3, <2>1, <2>2, CountImage
  <1>6. Cardinality(M) = Cardinality(MappedPages)
    <2>f. PICK f : f = [v \in MappedPages |-> Frame(v)]
      OBVIOUS
    <2>1. \A v, w \in MappedPages : f[v] = f[w] => v = w
      BY <2>f DEF TableInv, OwnerInv, FrameInv, MappedPages
    <2>2. f \in [MappedPages -> M] /\ \A q \in M : \E v \in MappedPages : f[v] = q
      BY <2>f
    <2> HIDE DEF M
    <2>3. QED
      BY <1>3, <2>1, <2>2, CountImage
  <1>7. QED
    BY <1>3, <1>4, <1>5, <1>6

(* vmm.c loses no page and uses none twice: what pmm.c does not keep for   *)
(* its array is free, a table, a table to be, or the frame of one caller   *)
(* or one mapping, and the numbers add up.                                 *)
THEOREM VMMNoPageLost == Spec => []NoPageLost
  <1>1. TableInv /\ PoolInv => NoPageLost
    <2> SUFFICES ASSUME TableInv, PoolInv, phase = "ready" PROVE NoPageLost
      BY DEF NoPageLost
    <2> DEFINE L == {fresh[t] : t \in Linking}
               H == {frame[t] : t \in Holding}
               M == {Frame(v) : v \in MappedPages}
    <2>1. \A q : q \in TablePages <=> IsTable(q)
      <3>1. \A q : q \in TablePages <=> \E d \in 1 .. 4 : q \in Level(d)
        BY TablesAtLevels DEF TablePages
      <3>2. QED
        BY <3>1, Views DEF Level, IsTable
    <2>2. \A q : q \in L <=> \E t \in Threads : q # NULL /\ fresh[t] = q
      BY DEF Linking
    <2>3. \A q : q \in H <=> \E t \in Threads : q # NULL /\ frame[t] = q
      BY DEF Holding
    <2>4. \A q : q \in M <=> \E t \in Threads : \E v \in mapped[t] : Frame(v) = q
      BY DEF MappedPages
    <2>5. M = {Mapping(v).page : v \in MappedPages}
      <3>1. MappedPages \subseteq Virts
        BY DEF MappedPages, TableInv, ThreadType
      <3>2. QED
        BY <3>1, Views DEF Frame
    <2> HIDE DEF L, H, M
    <2>6. FreePages \cup TablePages \cup L \cup H \cup M = AllPages
      <3>1. \A q : q \in FreePages \cup TablePages \cup L \cup H \cup M <=> Kept(q)
        BY <2>1, <2>2, <2>3, <2>4 DEF Kept, Used
      <3>2. \A q : IsTable(q) => q \in UsablePages(bootmap)
        BY Views DEF IsTable, TableInv, TreeInv
      <3>3. \A q : Kept(q) => q \in UsablePages(bootmap)
        BY <3>2 DEF Kept, Used, TableInv, BootInv, OwnerInv, UsedInv
      <3>4. \A q \in UsablePages(bootmap) : q \in AllPages <=> Kept(q)
        BY DEF PoolInv
      <3>5. AllPages \subseteq UsablePages(bootmap)
        BY DEF AllPages
      <3>6. QED
        BY <3>1, <3>3, <3>4, <3>5
    <2>7. /\ FreePages \cap TablePages = {}
          /\ (FreePages \cup TablePages) \cap L = {}
          /\ (FreePages \cup TablePages \cup L) \cap H = {}
          /\ (FreePages \cup TablePages \cup L \cup H) \cap M = {}
      <3>1. FreePages \cap TablePages = {}
        BY <2>1 DEF TableInv, OwnerInv, UsedInv
      <3>2. L \cap FreePages = {} /\ H \cap FreePages = {} /\ M \cap FreePages = {}
        BY <2>2, <2>3, <2>4 DEF TableInv, OwnerInv, UsedInv
      <3>3. L \cap TablePages = {} /\ L \cap H = {} /\ L \cap M = {}
        BY <2>1, <2>2, <2>3, <2>4 DEF TableInv, OwnerInv, FreshInv
      <3>4. H \cap TablePages = {} /\ M \cap TablePages = {} /\ H \cap M = {}
        BY <2>1, <2>3, <2>4 DEF TableInv, OwnerInv, FrameInv
      <3>5. QED
        BY <3>1, <3>2, <3>3, <3>4
    <2>8. /\ Cardinality(L) = Cardinality(Linking) /\ Cardinality(H) = Cardinality(Holding)
          /\ Cardinality(M) = Cardinality(MappedPages)
      BY CountOwners DEF L, H, M
    <2>9. Cardinality(FreePages) = pm_stack_idx
      BY CountFree DEF TableInv
    <2>10. /\ IsFiniteSet(FreePages) /\ IsFiniteSet(TablePages)
           /\ IsFiniteSet(L) /\ IsFiniteSet(H) /\ IsFiniteSet(M)
      <3>1. IsFiniteSet(AllPages)
        BY FinitePool DEF TableInv
      <3>2. QED
        BY <2>6, <3>1, FS_Subset
    <2>11. Cardinality(AllPages)
             = Cardinality(FreePages) + Cardinality(TablePages) + Cardinality(L)
                 + Cardinality(H) + Cardinality(M)
      <3>1. Cardinality(FreePages \cup TablePages \cup L \cup H \cup M)
              = Cardinality(FreePages) + Cardinality(TablePages) + Cardinality(L)
                  + Cardinality(H) + Cardinality(M)
        BY <2>7, <2>10, FiveParts
      <3>2. QED
        BY <2>6, <3>1
    <2>12. QED
      BY <2>5, <2>6, <2>8, <2>9, <2>11 DEF NoPageLost, AllPages, L, H
  <1>2. QED
    BY <1>1, VMMPool, PTL

=============================================================================
