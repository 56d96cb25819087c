------------------------------ MODULE PMMSteps ------------------------------
(***************************************************************************)
(* pmm_request_pages and pmm_free_pages statement by statement, for        *)
(* callers on several CPUs.  pmm.c has no lock of its own: vmm.c calls it  *)
(* with map_lock taken, liballoc.c with the lock of its hooks.  Callers    *)
(* that share a lock see the calls as the single steps of PMMClients.      *)
(* Definitions named Bad are faulty variants, as in PMM.tla.               *)
(***************************************************************************)
EXTENDS PMM, FiniteSets

CONSTANTS
  Clients, Runs,  \* as in PMMClients
  Locks,
  LockOf,         \* the lock that a client takes around its calls
  Nobody          \* the owner of a lock that is free

ASSUME ClientsAssumption == IsFiniteSet(Clients)
ASSUME RunsAssumption == Runs \subseteq Nat
ASSUME LocksAssumption == LockOf \in [Clients -> Locks] /\ Nobody \notin Clients

VARIABLES
  held,   \* the grant each client holds, as in PMMClients
  owner,  \* of each lock
  pc,     \* the statement that each client is about to run, or "idle"
  pages,  \* the argument of each client's call
  ptr,    \* the local variable, or the argument, of that name
  i       \* the loop variable of pmm_free_pages

call_vars == <<owner, pc, pages, ptr, i>>
vars == <<pmm_vars, held, call_vars>>

NoGrant == [base |-> NULL, n |-> 0]

Init ==
  /\ PMMInit
  /\ held = [c \in Clients |-> NoGrant]
  /\ owner = [l \in Locks |-> Nobody]
  /\ pc = [c \in Clients |-> "idle"]
  /\ pages = [c \in Clients |-> 0]
  /\ ptr = [c \in Clients |-> NULL]
  /\ i = [c \in Clients |-> 0]

Boot == pmm_init /\ UNCHANGED <<held, call_vars>>

At(c, here, there) == pc[c] = here /\ pc' = [pc EXCEPT ![c] = there]

-----------------------------------------------------------------------------
(* The spinlock around a call.                                             *)
BadAcquire(c) ==
  /\ phase = "ready"
  /\ owner' = [owner EXCEPT ![LockOf[c]] = c]

Acquire(c) ==
  /\ phase = "ready"
  /\ owner[LockOf[c]] = Nobody
  /\ owner' = [owner EXCEPT ![LockOf[c]] = c]

Release(c) ==
  /\ At(c, "release", "idle")
  /\ owner' = [owner EXCEPT ![LockOf[c]] = Nobody]
  /\ pages' = [pages EXCEPT ![c] = 0]
  /\ ptr' = [ptr EXCEPT ![c] = NULL]
  /\ i' = [i EXCEPT ![c] = 0]
  /\ UNCHANGED <<pmm_vars, held>>

-----------------------------------------------------------------------------
(* pmm_request_pages.                                                      *)
BeginRequest(c, n) ==
  /\ held[c] = NoGrant
  /\ At(c, "idle", "check")
  /\ Acquire(c)
  /\ pages' = [pages EXCEPT ![c] = n]
  /\ UNCHANGED <<pmm_vars, held, ptr, i>>

Check(c) ==
  /\ At(c, "check", IF CanGrant(pages[c]) THEN "take" ELSE "release")
  /\ UNCHANGED <<pmm_vars, held, owner, pages, ptr, i>>

Take(c) ==
  /\ At(c, "take", "slot")
  /\ pm_stack_idx' = pm_stack_idx - pages[c]
  /\ UNCHANGED <<phase, pmm_memory, pmm_loops, pm_stack, pm_free_pages, pm_used_pages,
                 held, owner, pages, ptr, i>>

ReadSlot(c) ==
  /\ At(c, "slot", "use")
  /\ ptr' = [ptr EXCEPT ![c] = pm_stack[pm_stack_idx]]
  /\ UNCHANGED <<pmm_vars, held, owner, pages, i>>

CountUsed(c) ==
  /\ At(c, "use", "unfree")
  /\ pm_used_pages' = pm_used_pages + pages[c]
  /\ UNCHANGED <<phase, pmm_memory, pmm_loops, pm_stack, pm_stack_idx, pm_free_pages,
                 held, owner, pages, ptr, i>>

CountFree(c) ==
  /\ At(c, "unfree", "release")
  /\ pm_free_pages' = pm_free_pages - pages[c]
  /\ held' = [held EXCEPT ![c] = [base |-> ptr[c], n |-> pages[c]]]
  /\ UNCHANGED <<phase, pmm_memory, pmm_loops, pm_stack, pm_stack_idx, pm_used_pages,
                 owner, pages, ptr, i>>

-----------------------------------------------------------------------------
(* pmm_free_pages.  The caller owns what it frees, so the ASSERTs hold.    *)
BeginFree(c) ==
  /\ held[c] # NoGrant
  /\ At(c, "idle", "push")
  /\ Acquire(c)
  /\ ptr' = [ptr EXCEPT ![c] = held[c].base]
  /\ pages' = [pages EXCEPT ![c] = held[c].n]
  /\ held' = [held EXCEPT ![c] = NoGrant]
  /\ UNCHANGED <<pmm_vars, i>>

Push(c) ==
  /\ i[c] < pages[c]
  /\ IF pm_stack_idx >= pm_total_pages
     THEN /\ At(c, "push", "release")
          /\ UNCHANGED <<pm_stack, pm_stack_idx, i>>
     ELSE /\ At(c, "push", "push")
          /\ pm_stack' = [pm_stack EXCEPT ![pm_stack_idx] = ptr[c] + i[c]]
          /\ pm_stack_idx' = pm_stack_idx + 1
          /\ i' = [i EXCEPT ![c] = @ + 1]
  /\ UNCHANGED <<phase, pmm_memory, pmm_loops, pm_free_pages, pm_used_pages,
                 held, owner, pages, ptr>>

BadUncountFree(c) ==
  /\ i[c] = pages[c]
  /\ At(c, "push", "release")
  /\ pm_free_pages' = pm_free_pages + pages[c]
  /\ UNCHANGED <<phase, pmm_memory, pmm_loops, pm_stack, pm_stack_idx, pm_used_pages,
                 held, owner, pages, ptr, i>>

UncountFree(c) ==
  /\ i[c] = pages[c]
  /\ At(c, "push", "unuse")
  /\ pm_free_pages' = pm_free_pages + pages[c]
  /\ UNCHANGED <<phase, pmm_memory, pmm_loops, pm_stack, pm_stack_idx, pm_used_pages,
                 held, owner, pages, ptr, i>>

UncountUsed(c) ==
  /\ At(c, "unuse", "release")
  /\ pm_used_pages' = pm_used_pages - pages[c]
  /\ UNCHANGED <<phase, pmm_memory, pmm_loops, pm_stack, pm_stack_idx, pm_free_pages,
                 held, owner, pages, ptr, i>>

Call(c) ==
  \/ Check(c) \/ Take(c) \/ ReadSlot(c) \/ CountUsed(c) \/ CountFree(c)
  \/ Push(c) \/ UncountFree(c) \/ UncountUsed(c)
  \/ Release(c)

Next ==
  \/ Boot
  \/ \E c \in Clients, n \in Runs : BeginRequest(c, n)
  \/ \E c \in Clients : BeginFree(c) \/ Call(c)

Spec == Init /\ [][Next]_vars

-----------------------------------------------------------------------------
(* What PMMClients shows of a call in progress is the state at its end: a  *)
(* request takes effect with its check, a release with its lock.           *)
Active == {c \in Clients : pc[c] \notin {"idle", "check", "release"}}

Caller == CHOOSE c \in Active : TRUE

Within(places) == Active # {} /\ pc[Caller] \in places

Left == IF Within({"push"}) THEN pages[Caller] - i[Caller] ELSE 0

Asked(places) == IF Within(places) THEN pages[Caller] ELSE 0

EndIdx == pm_stack_idx + Left - Asked({"take"})

EndGrant ==
  [base |-> IF Within({"take", "slot"}) THEN pm_stack[EndIdx] ELSE ptr[Caller],
   n |-> pages[Caller]]

EndStack == IF Left > 0 THEN PushRun(ptr[Caller] + i[Caller], Left) ELSE pm_stack

EndFree == pm_free_pages - Asked({"take", "slot", "use", "unfree"}) + Asked({"push"})

EndUsed == pm_used_pages + Asked({"take", "slot", "use"}) - Asked({"push", "unuse"})

EndHeld ==
  IF Within({"take", "slot", "use", "unfree"}) THEN [held EXCEPT ![Caller] = EndGrant] ELSE held

Atomic == INSTANCE PMMClients
  WITH pm_stack <- EndStack, pm_stack_idx <- EndIdx, pm_free_pages <- EndFree,
       pm_used_pages <- EndUsed, held <- EndHeld

(* Callers that share a lock can take every call of pmm.c for one step:    *)
(* nobody gets a slot that another call is about to take or to fill.       *)
ImplementsPMMClients == Atomic!Spec

(* Between the calls, of any size, the counters and the stack index agree, *)
(* so no release takes the overflow return of pmm_free_pages, and          *)
(* pm_used_pages never wraps below 0.                                      *)
CountersAtRest == (\A c \in Clients : pc[c] \in {"idle", "check"}) => Atomic!Accounting

=============================================================================
