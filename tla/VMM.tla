-------------------------------- MODULE VMM ---------------------------------
(***************************************************************************)
(* The virtual memory manager, olive/src/mm/vmm.c: the four-level page     *)
(* tables behind vmm_map, vmm_unmap and virt2phys, built out of pages of   *)
(* PMM.tla.  One action per access to the shared memory.  vmm_map and      *)
(* vmm_unmap run under map_lock, virt2phys takes no lock.                  *)
(*                                                                         *)
(* A virtual page is the tuple of its four table indices.  A table is a    *)
(* page of `memory`; a page that pmm.c hands out holds whatever its last   *)
(* owner left there (Dirty).  Definitions named Bad are faulty variants,   *)
(* as in PMM.tla.                                                          *)
(***************************************************************************)
EXTENDS PMM, FiniteSets

CONSTANTS
  Threads,   \* the callers
  Index,     \* the indices of a table: 0 .. 511 in the kernel
  Virts,     \* the virtual pages in use
  Own        \* Own[t]: the virtual pages that thread t maps and unmaps

Nobody == "nobody"

ASSUME ThreadsAssumption == Nobody \notin Threads

ASSUME VirtsAssumption == Virts \subseteq [1 .. 4 -> Index] /\ Virts # {}

ASSUME OwnAssumption ==
  /\ Own \in [Threads -> SUBSET Virts]
  /\ \A t, u \in Threads : t # u => Own[t] \cap Own[u] = {}

VARIABLES
  root,      \* _kernel_pm.pml4 as a page, NULL before vmm_init
  memory,    \* the page tables in physical memory
  map_lock,  \* the thread that holds map_lock, or Nobody
  pc,        \* where each thread stands
  call,      \* its call: the operation, the virtual page, free_phys, phys | flags
  table,     \* the table that its walk has reached
  depth,     \* 1 at the PML4, 4 at the page table
  fresh,     \* the page it was granted and has not linked yet, or NULL
  frame,     \* client: the frame it has to map, or NULL
  mapped,    \* client: the virtual pages it takes to be mapped by it
  answer     \* the result of its call, once it has done its work

walk_vars   == <<call, table, depth, fresh>>
client_vars == <<frame, mapped>>
thread_vars == <<pc, walk_vars, client_vars, answer>>
vars        == <<pmm_vars, root, memory, map_lock, thread_vars>>

Zero == [page |-> NULL, present |-> FALSE]

Link(p) == [page |-> p, present |-> TRUE]

ZeroPage == [i \in Index |-> Zero]

(* Old contents that would read as links to page 1. *)
Dirty == [i \in Index |-> Link(1)]

NoCall == [op |-> "none", virt |-> <<>>, free |-> FALSE, entry |-> Zero]

NoAnswer == [done |-> FALSE, found |-> FALSE, entry |-> Zero]

Init ==
  /\ PMMInit
  /\ root = NULL
  /\ memory = [p \in UsablePages(bootmap) |-> Dirty]
  /\ map_lock = Nobody
  /\ pc = [t \in Threads |-> "idle"]
  /\ call = [t \in Threads |-> NoCall]
  /\ table = [t \in Threads |-> NULL]
  /\ depth = [t \in Threads |-> 1]
  /\ fresh = [t \in Threads |-> NULL]
  /\ frame = [t \in Threads |-> NULL]
  /\ mapped = [t \in Threads |-> {}]
  /\ answer = [t \in Threads |-> NoAnswer]

-----------------------------------------------------------------------------
Boot ==
  /\ pmm_init
  /\ UNCHANGED <<root, memory, map_lock, thread_vars>>

(* vmm_init: the PML4 is a zeroed page.  On failure it returns 1 and the   *)
(* kernel halts.                                                           *)
CreateRoot ==
  /\ root = NULL
  /\ pmm_request_pages(1)
  /\ CanGrant(1)
  /\ root' = Granted(1)
  /\ memory' = [memory EXCEPT ![Granted(1)] = ZeroPage]
  /\ UNCHANGED <<map_lock, thread_vars>>

-----------------------------------------------------------------------------
(* The callers.  A frame to map comes from pmm_request_pages, and goes     *)
(* back through vmm_unmap(free_phys) or directly.                          *)
Idle(t) == root # NULL /\ phase = "ready" /\ pc[t] = "idle"

TakeFrame(t) ==
  /\ Idle(t)
  /\ frame[t] = NULL
  /\ CanGrant(1)
  /\ pmm_request_pages(1)
  /\ frame' = [frame EXCEPT ![t] = Granted(1)]
  /\ UNCHANGED <<root, memory, map_lock, pc, walk_vars, mapped, answer>>

DropFrame(t) ==
  /\ Idle(t)
  /\ frame[t] # NULL
  /\ pmm_free_pages(frame[t], 1)
  /\ frame' = [frame EXCEPT ![t] = NULL]
  /\ UNCHANGED <<root, memory, map_lock, pc, walk_vars, mapped, answer>>

Begin(t, op, v, free, e, start) ==
  /\ Idle(t)
  /\ pc' = [pc EXCEPT ![t] = start]
  /\ call' = [call EXCEPT ![t] = [op |-> op, virt |-> v, free |-> free, entry |-> e]]
  /\ table' = [table EXCEPT ![t] = root]
  /\ depth' = [depth EXCEPT ![t] = 1]
  /\ UNCHANGED <<pmm_vars, root, memory, map_lock, fresh, client_vars, answer>>

(* Every caller in the kernel passes PRESENT among the flags. *)
CallMap(t, v) ==
  /\ frame[t] # NULL
  /\ v \in Own[t] \ mapped[t]
  /\ Begin(t, "map", v, FALSE, Link(frame[t]), "acquire")

(* Without free_phys the caller keeps the frame. *)
CallUnmap(t, v, free) ==
  /\ v \in IF free THEN mapped[t] ELSE Own[t]
  /\ v \in mapped[t] /\ ~free => frame[t] = NULL
  /\ Begin(t, "unmap", v, free, Zero, "acquire")

CallVirt2Phys(t, v) == Begin(t, "virt2phys", v, FALSE, Zero, "walk")

-----------------------------------------------------------------------------
Goto(t, l) == pc' = [pc EXCEPT ![t] = l]

Answer(t, found, e) ==
  answer' = [answer EXCEPT ![t] = [done |-> TRUE, found |-> found, entry |-> e]]

(* The call is over: nothing reads its locals again. *)
Leave(t) ==
  /\ Goto(t, "idle")
  /\ answer' = [answer EXCEPT ![t] = NoAnswer]
  /\ call' = [call EXCEPT ![t] = NoCall]
  /\ table' = [table EXCEPT ![t] = NULL]
  /\ depth' = [depth EXCEPT ![t] = 1]
  /\ UNCHANGED fresh

Virt(t) == call[t].virt

(* The entry that the thread looks at: pml_pointer[index], pt[pt_index]. *)
Slot(t) == memory[table[t]][Virt(t)[depth[t]]]

Store(t, e) == memory' = [memory EXCEPT ![table[t]][Virt(t)[depth[t]]] = e]

force(t) == call[t].op = "map"

Acquire(t) ==
  /\ pc[t] = "acquire"
  /\ map_lock = Nobody
  /\ map_lock' = t
  /\ Goto(t, "walk")
  /\ UNCHANGED <<pmm_vars, root, memory, walk_vars, client_vars, answer>>

BadDescend(t) ==
  /\ pc[t] = "walk"
  /\ Slot(t).present
  /\ table' = [table EXCEPT ![t] = Slot(t).page]
  /\ depth' = [depth EXCEPT ![t] = @ + 1]
  /\ UNCHANGED <<pmm_vars, root, memory, map_lock, pc, call, fresh, client_vars, answer>>

(* get_below_pml finds the entry present. *)
Descend(t) ==
  /\ pc[t] = "walk"
  /\ depth[t] < 4
  /\ Slot(t).present
  /\ table' = [table EXCEPT ![t] = Slot(t).page]
  /\ depth' = [depth EXCEPT ![t] = @ + 1]
  /\ UNCHANGED <<pmm_vars, root, memory, map_lock, pc, call, fresh, client_vars, answer>>

BadMissing(t) ==
  /\ pc[t] = "walk"
  /\ depth[t] < 4
  /\ ~Slot(t).present
  /\ ~force(t)
  /\ Goto(t, "return")
  /\ Answer(t, FALSE, Zero)
  /\ UNCHANGED <<pmm_vars, root, memory, map_lock, walk_vars, client_vars>>

BadMissingFirst(t) ==
  /\ pc[t] = "walk"
  /\ depth[t] < 4
  /\ ~force(t)
  /\ Goto(t, IF call[t].op = "unmap" THEN "release" ELSE "return")
  /\ Answer(t, FALSE, Zero)
  /\ UNCHANGED <<pmm_vars, root, memory, map_lock, walk_vars, client_vars>>

(* get_below_pml finds no entry: without force vmm_unmap returns false and *)
(* virt2phys returns NULL.                                                 *)
Missing(t) ==
  /\ pc[t] = "walk"
  /\ depth[t] < 4
  /\ ~Slot(t).present
  /\ ~force(t)
  /\ Goto(t, IF call[t].op = "unmap" THEN "release" ELSE "return")
  /\ Answer(t, FALSE, Zero)
  /\ UNCHANGED <<pmm_vars, root, memory, map_lock, walk_vars, client_vars>>

(* With force it asks for a page; out of memory, vmm_map logs and returns, *)
(* and the tables it linked so far stay.  It returns nothing: the callers  *)
(* here look for themselves whether the page is mapped now.                *)
RequestTable(t) ==
  /\ pc[t] = "walk"
  /\ depth[t] < 4
  /\ ~Slot(t).present
  /\ force(t)
  /\ pmm_request_pages(1)
  /\ IF CanGrant(1)
     THEN /\ fresh' = [fresh EXCEPT ![t] = Granted(1)]
          /\ Goto(t, "zero")
     ELSE Goto(t, "release") /\ UNCHANGED fresh
  /\ UNCHANGED <<root, memory, map_lock, call, table, depth, client_vars, answer>>

ZeroTable(t) ==
  /\ pc[t] = "zero"
  /\ memory' = [memory EXCEPT ![fresh[t]] = ZeroPage]
  /\ Goto(t, "link")
  /\ UNCHANGED <<pmm_vars, root, map_lock, walk_vars, client_vars, answer>>

BadLinkTable(t) ==
  /\ pc[t] = "link"
  /\ Store(t, Link(fresh[t]))
  /\ depth' = [depth EXCEPT ![t] = @ + 1]
  /\ fresh' = [fresh EXCEPT ![t] = NULL]
  /\ Goto(t, "walk")
  /\ UNCHANGED <<pmm_vars, root, map_lock, call, table, client_vars, answer>>

LinkTable(t) ==
  /\ pc[t] = "link"
  /\ Store(t, Link(fresh[t]))
  /\ table' = [table EXCEPT ![t] = fresh[t]]
  /\ depth' = [depth EXCEPT ![t] = @ + 1]
  /\ fresh' = [fresh EXCEPT ![t] = NULL]
  /\ Goto(t, "walk")
  /\ UNCHANGED <<pmm_vars, root, map_lock, call, client_vars, answer>>

(* pt[pt_index] = phys | flags.  vmm_map returns nothing: its answer only   *)
(* stands for having written.                                              *)
WriteEntry(t) ==
  /\ pc[t] = "walk"
  /\ depth[t] = 4
  /\ call[t].op = "map"
  /\ Store(t, call[t].entry)
  /\ Answer(t, TRUE, Zero)
  /\ frame' = [frame EXCEPT ![t] = NULL]
  /\ mapped' = [mapped EXCEPT ![t] = @ \cup {Virt(t)}]
  /\ Goto(t, "release")
  /\ UNCHANGED <<pmm_vars, root, map_lock, walk_vars>>

BadFreeFrameLeak(t) ==
  /\ pc[t] = "walk"
  /\ depth[t] = 4
  /\ call[t].op = "unmap"
  /\ call[t].free
  /\ mapped' = [mapped EXCEPT ![t] = @ \ {Virt(t)}]
  /\ Goto(t, "clear")
  /\ UNCHANGED <<pmm_vars, root, memory, map_lock, walk_vars, frame, answer>>

BadFreeFrameTable(t) ==
  /\ pc[t] = "walk"
  /\ depth[t] = 4
  /\ call[t].op = "unmap"
  /\ call[t].free
  /\ pmm_free_pages(table[t], 1)
  /\ mapped' = [mapped EXCEPT ![t] = @ \ {Virt(t)}]
  /\ Goto(t, "clear")
  /\ UNCHANGED <<root, memory, map_lock, walk_vars, frame, answer>>

(* if (free_phys) pmm_free_pages(...): the entry still maps the page. *)
FreeFrame(t) ==
  /\ pc[t] = "walk"
  /\ depth[t] = 4
  /\ call[t].op = "unmap"
  /\ call[t].free
  /\ pmm_free_pages(Slot(t).page, 1)
  /\ mapped' = [mapped EXCEPT ![t] = @ \ {Virt(t)}]
  /\ Goto(t, "clear")
  /\ UNCHANGED <<root, memory, map_lock, walk_vars, frame, answer>>

(* pt[pt_index] = 0, after FreeFrame or without it. *)
BadCleared(t) == memory
BadClearedTree(t) == [memory EXCEPT ![root][Virt(t)[1]] = Zero]
Cleared(t) == [memory EXCEPT ![table[t]][Virt(t)[depth[t]]] = Zero]

ClearEntry(t) ==
  /\ \/ pc[t] = "clear" /\ UNCHANGED client_vars
     \/ /\ pc[t] = "walk" /\ depth[t] = 4
        /\ call[t].op = "unmap" /\ ~call[t].free
        /\ frame' = [frame EXCEPT ![t] = IF Virt(t) \in mapped[t] THEN Slot(t).page ELSE @]
        /\ mapped' = [mapped EXCEPT ![t] = @ \ {Virt(t)}]
  /\ phase = "ready"
  /\ memory' = Cleared(t)
  /\ Answer(t, TRUE, Zero)
  /\ Goto(t, "release")
  /\ UNCHANGED <<pmm_vars, root, map_lock, walk_vars>>

Release(t) ==
  /\ pc[t] = "release"
  /\ map_lock' = Nobody
  /\ Leave(t)
  /\ UNCHANGED <<pmm_vars, root, memory, client_vars>>

(* virt2phys reads pt[pt_index], present or not. *)
ReadEntry(t) ==
  /\ pc[t] = "walk"
  /\ depth[t] = 4
  /\ call[t].op = "virt2phys"
  /\ Answer(t, TRUE, Slot(t))
  /\ Goto(t, "return")
  /\ UNCHANGED <<pmm_vars, root, memory, map_lock, walk_vars, client_vars>>

Return(t) ==
  /\ pc[t] = "return"
  /\ Leave(t)
  /\ UNCHANGED <<pmm_vars, root, memory, map_lock, client_vars>>

-----------------------------------------------------------------------------
(* The steps of a call that has begun; a CPU that hit hcf does no more, and *)
(* neither does anyone else, since the lock is never released.             *)
Step(t) ==
  \/ Acquire(t)      \/ Descend(t)   \/ Missing(t)
  \/ RequestTable(t) \/ ZeroTable(t) \/ LinkTable(t)
  \/ WriteEntry(t)   \/ FreeFrame(t) \/ ClearEntry(t)
  \/ Release(t)      \/ ReadEntry(t) \/ Return(t)

Next ==
  \/ Boot \/ CreateRoot
  \/ \E t \in Threads :
       \/ TakeFrame(t) \/ DropFrame(t) \/ Step(t)
       \/ \E v \in Virts :
            \/ CallMap(t, v) \/ CallVirt2Phys(t, v)
            \/ \E free \in BOOLEAN : CallUnmap(t, v, free)

Spec == Init /\ [][Next]_vars

(* A thread that is inside a call keeps running it. *)
FairSpec == Spec /\ \A t \in Threads : WF_vars(Step(t))

-----------------------------------------------------------------------------
(* Reading the tables. *)
Down(p, i) == IF p # NULL /\ memory[p][i].present THEN memory[p][i].page ELSE NULL

PageTable(v) == Down(Down(Down(root, v[1]), v[2]), v[3])

Mapping(v) == IF PageTable(v) = NULL THEN Zero ELSE memory[PageTable(v)][v[4]]

Links(S) == {s \in S \X Index : memory[s[1]][s[2]].present}

Below(S) == {memory[s[1]][s[2]].page : s \in Links(S)}

TablesAt ==
  LET T1 == {root} \ {NULL}
      T2 == Below(T1)
      T3 == Below(T2)
  IN <<T1, T2, T3, Below(T3)>>

TablePages == UNION {TablesAt[d] : d \in 1 .. 4}

Linking == {t \in Threads : fresh[t] # NULL}

Holding == {t \in Threads : frame[t] # NULL}

MappedPages == UNION {mapped[t] : t \in Threads}

Clearing(v) == \E t \in Threads : pc[t] = "clear" /\ Virt(t) = v

-----------------------------------------------------------------------------
TypeOK ==
  /\ root \in Nat
  /\ memory \in [UsablePages(bootmap) -> [Index -> [page : Nat, present : BOOLEAN]]]
  /\ map_lock \in Threads \cup {Nobody}
  /\ pc \in [Threads -> {"idle", "acquire", "walk", "zero", "link", "clear", "release", "return"}]
  /\ call \in [Threads -> [op : {"map", "unmap", "virt2phys"}, virt : Virts, free : BOOLEAN,
                             entry : [page : Nat, present : BOOLEAN]] \cup {NoCall}]
  /\ table \in [Threads -> Nat]
  /\ depth \in [Threads -> 1 .. 4]
  /\ fresh \in [Threads -> Nat]
  /\ frame \in [Threads -> Nat]
  /\ \A t \in Threads : mapped[t] \subseteq Own[t]
  /\ answer \in [Threads -> [done : BOOLEAN, found : BOOLEAN,
                               entry : [page : Nat, present : BOOLEAN]]]

(* The tables form a tree of four levels: no table is linked twice, none   *)
(* is at two levels, and none is free for pmm.c to hand out again.         *)
TablesFormATree ==
  phase = "ready" =>
    /\ root # NULL =>
         Cardinality(TablePages)
           = 1 + Cardinality(Links(TablesAt[1] \cup TablesAt[2] \cup TablesAt[3]))
    /\ \A d, e \in 1 .. 4 : d # e => TablesAt[d] \cap TablesAt[e] = {}
    /\ TablePages \cap FreePages = {}

(* Every walk, the lock-free one of virt2phys included, stands on a table  *)
(* of its level, whatever the other threads do to the tree meanwhile.      *)
WalksStayOnTables ==
  \A t \in Threads :
    pc[t] \in {"walk", "zero", "link", "clear"} => table[t] \in TablesAt[depth[t]]

(* vmm.c loses no page and uses none twice: every page is free, a table, a *)
(* table about to be linked, or the frame of one caller or one mapping.    *)
NoPageLost ==
  phase = "ready" =>
    LET all == UsablePages(bootmap) \ StackPages IN
    /\ all = FreePages \cup TablePages
               \cup {fresh[t] : t \in Linking} \cup {frame[t] : t \in Holding}
               \cup {Mapping(v).page : v \in MappedPages}
    /\ Cardinality(all) = pm_stack_idx + Cardinality(TablePages) + Cardinality(Linking)
                            + Cardinality(Holding) + Cardinality(MappedPages)

(* What a caller mapped stays mapped until it unmaps it, and nothing else  *)
(* is mapped but an entry whose frame vmm_unmap has just freed.            *)
MappingsAreOwned ==
  phase = "ready" =>
    \A v \in Virts :
      /\ v \in MappedPages => Mapping(v).present
      /\ Mapping(v).present => v \in MappedPages \/ Clearing(v)

(* The tables are never unlinked or moved, which virt2phys relies on.      *)
TablesOnlyGrow == [][\A d \in 1 .. 4 : TablesAt[d] \subseteq TablesAt'[d]]_vars

(* Every return path of vmm_map and vmm_unmap releases map_lock.           *)
LockIsReleased == \A t \in Threads : map_lock = t ~> map_lock = Nobody

Space == INSTANCE AddressSpace
           WITH mapping <- [v \in Virts |-> Mapping(v)],
                None <- Zero,
                Entries <- [page : Nat \ {NULL}, present : {TRUE}]

(* Whatever the tables look like, the calls act on one flat map: each on   *)
(* the page and with the entry that it was given, at one moment, and       *)
(* virt2phys answers NULL only when the page is not mapped at that moment. *)
ImplementsAddressSpace == Space!Spec

=============================================================================
