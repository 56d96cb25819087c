----------------------------- MODULE PMMClients -----------------------------
(***************************************************************************)
(* The page allocator of PMM.tla with clients that keep its protocol: a    *)
(* client gives back exactly the pointer and the page count it was given,  *)
(* once, which is how vmm.c and liballoc_wrappers.c mean to use it.        *)
(***************************************************************************)
EXTENDS PMM, FiniteSets

CONSTANTS
  Clients,  \* the holders of grants
  Runs      \* the page counts they ask for; 0 is a legal argument

ASSUME ClientsAssumption == IsFiniteSet(Clients)
ASSUME RunsAssumption == Runs \subseteq Nat

VARIABLE held   \* the grant each client holds, as the client sees it

NoGrant == [base |-> NULL, n |-> 0]

Init ==
  /\ PMMInit
  /\ held = [c \in Clients |-> NoGrant]

Request(c, n) ==
  /\ held[c] = NoGrant
  /\ pmm_request_pages(n)
  /\ held' = IF CanGrant(n)
             THEN [held EXCEPT ![c] = [base |-> Granted(n), n |-> n]]
             ELSE held

Free(c) ==
  /\ held[c] # NoGrant
  /\ pmm_free_pages(held[c].base, held[c].n)
  /\ held' = [held EXCEPT ![c] = NoGrant]

Boot == pmm_init /\ UNCHANGED held

Next ==
  \/ Boot
  \/ \E c \in Clients, n \in Runs : Request(c, n)
  \/ \E c \in Clients : Free(c)

vars == <<pmm_vars, held>>

Spec == Init /\ [][Next]_vars

-----------------------------------------------------------------------------
RunOf(g) == Pages(g.base, g.n)

(* The types.  A counter below 0 would be a uint64_t that wrapped.          *)
TypeOK ==
  /\ phase \in {"count", "locate", "push", "ready", "failed", "fault", "halted"}
  /\ bootmap \in MemMaps
  /\ memmap \in [DOMAIN bootmap -> Entry]
  /\ ent \in 0 .. Len(bootmap) + 1
  /\ off \in Nat
  /\ pm_total_pages \in Nat
  /\ pm_stack_base \in Nat
  /\ pm_stack_idx \in Nat
  /\ pm_stack_base = NULL => pm_stack_idx = 0
  /\ pm_stack_base # NULL => /\ pm_stack_idx <= pm_total_pages
                             /\ pm_stack \in [0 .. pm_total_pages - 1 -> Nat]
  /\ pm_free_pages \in Int
  /\ pm_used_pages \in Int
  /\ held \in [Clients -> [base : Nat, n : Nat]]

(* Every usable page of the boot map that is not under the array is either *)
(* in exactly one live slot of pm_stack or in exactly one grant, and       *)
(* nothing else is: pmm.c neither loses a page nor hands one out twice.    *)
Partition ==
  phase = "ready" =>
    /\ \A s, t \in FreeSlots : s # t => pm_stack[s] # pm_stack[t]
    /\ \A c \in Clients : RunOf(held[c]) \cap FreePages = {}
    /\ \A c, d \in Clients : c # d => RunOf(held[c]) \cap RunOf(held[d]) = {}
    /\ FreePages \cup UNION {RunOf(held[c]) : c \in Clients}
         = UsablePages(bootmap) \ StackPages

(* The array is carved out of usable memory, and out of the map that vmm.c *)
(* reads later.                                                            *)
ArrayIsReserved ==
  phase \in {"push", "ready"} =>
    /\ StackPages \subseteq UsablePages(bootmap)
    /\ StackPages \cap UsablePages(memmap) = {}
    /\ pm_stack_base # NULL => pm_total_pages <= EntriesPerPage * pm_stack_size

(* pmm_init can only fail to place the array when the firmware hands over  *)
(* more usable fragments than a page has slots; its overflow error return  *)
(* is never taken.                                                         *)
UsableEntries == {a \in DOMAIN bootmap : IsUsable(bootmap[a])}

BootFailsOnlyOnFragments ==
  /\ phase # "failed"
  /\ phase = "fault" => Cardinality(UsableEntries) > EntriesPerPage

(* The counters: pm_free_pages counts the live slots, pm_used_pages what   *)
(* the clients hold (each page of each grant, as an offset in the grant),  *)
(* and their sum never moves after pmm_init.  So no request or release of  *)
(* any size takes the overflow return of pmm_free_pages, and pm_used_pages *)
(* never wraps below 0.                                                    *)
PagesOf(c) == {c} \X (0 .. held[c].n - 1)

HeldCount == Cardinality(UNION {PagesOf(c) : c \in Clients})

Accounting ==
  phase = "ready" =>
    /\ pm_free_pages = pm_stack_idx
    /\ pm_used_pages = HeldCount
    /\ pm_free_pages + pm_used_pages + pm_stack_size = Cardinality(UsablePages(bootmap))

(* Who gives back what it was given never fails the ASSERTs of             *)
(* pmm_free_pages (page 0, or no pages at all): that would halt the CPU    *)
(* with the caller's lock taken.                                           *)
AssertsHold == phase # "halted"

(* pmm.c:118 logs "Allocated %zu pages starting at physical address": the  *)
(* run of n pages at the returned pointer belongs to the caller.           *)
GrantsAreRuns ==
  \A c \in Clients :
    /\ RunOf(held[c]) \cap FreePages = {}
    /\ \A d \in Clients \ {c} : RunOf(held[c]) \cap RunOf(held[d]) = {}

-----------------------------------------------------------------------------
(* The abstract allocator, with the live slots as its pool. *)
Alloc == INSTANCE PageAllocator
           WITH open <- phase \in {"ready", "halted"},
                pool <- IF phase \in {"ready", "halted"} THEN FreePages ELSE {}

(* Every behaviour of pmm.c is one of the abstract page allocator. *)
ImplementsPageAllocator == Alloc!Spec

=============================================================================
