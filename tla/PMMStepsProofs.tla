--------------------------- MODULE PMMStepsProofs ---------------------------
(***************************************************************************)
(* Proofs about pmm_request_pages and pmm_free_pages statement by          *)
(* statement: whatever the interleaving, callers that share a lock see     *)
(* each call as one step of PMMClients, for every memory map, number of    *)
(* clients and request size.  What PMMProofs shows of such steps is used   *)
(* here of the state that Atomic shows.                                    *)
(***************************************************************************)
EXTENDS PMMSteps, TLAPS

Proofs == INSTANCE PMMProofs
  WITH pm_stack <- EndStack, pm_stack_idx <- EndIdx, pm_free_pages <- EndFree,
       pm_used_pages <- EndUsed, held <- EndHeld

(* The theorems below are about clients under one lock. *)
OneLock == \A c, d \in Clients : LockOf[c] = LockOf[d]

-----------------------------------------------------------------------------
(* The facts of PMMProofs that are used. *)
LEMMA AtomicInit == Proofs!Init => Proofs!CounterInv /\ Proofs!ValidInv
  <1>1. Proofs!Init => Proofs!ValidInv
    BY Proofs!InitValid, MemMapsAssumption, EntriesPerPageAssumption, ClientsAssumption,
       RunsAssumption
       DEF Proofs!Entry, Entry, Proofs!EntryTypes, EntryTypes, Proofs!IsUsable, IsUsable,
           Proofs!Pages, Pages, Proofs!NULL, NULL, Proofs!IsFiniteSet, IsFiniteSet
  <1>2. Proofs!Init => Proofs!CounterInv
    BY Proofs!InitCounterInv, MemMapsAssumption, EntriesPerPageAssumption, ClientsAssumption,
       RunsAssumption
       DEF Proofs!Entry, Entry, Proofs!EntryTypes, EntryTypes, Proofs!IsUsable, IsUsable,
           Proofs!Pages, Pages, Proofs!NULL, NULL, Proofs!IsFiniteSet, IsFiniteSet
  <1> QED
    BY <1>1, <1>2

LEMMA AtomicNext ==
  ASSUME Proofs!CounterInv, Proofs!ValidInv, [Proofs!Next]_(Proofs!vars)
  PROVE  Proofs!CounterInv' /\ Proofs!ValidInv'
  <1>1. Proofs!ValidInv'
    BY Proofs!NextValid, MemMapsAssumption, EntriesPerPageAssumption, ClientsAssumption,
       RunsAssumption
       DEF Proofs!Entry, Entry, Proofs!EntryTypes, EntryTypes, Proofs!IsUsable, IsUsable,
           Proofs!Pages, Pages, Proofs!NULL, NULL, Proofs!IsFiniteSet, IsFiniteSet
  <1>2. Proofs!CounterInv'
    BY Proofs!NextCounterInv, MemMapsAssumption, EntriesPerPageAssumption, ClientsAssumption,
       RunsAssumption
       DEF Proofs!Entry, Entry, Proofs!EntryTypes, EntryTypes, Proofs!IsUsable, IsUsable,
           Proofs!Pages, Pages, Proofs!NULL, NULL, Proofs!IsFiniteSet, IsFiniteSet
  <1> QED
    BY <1>1, <1>2

LEMMA AtomicFits ==
  ASSUME Proofs!CounterInv, phase = "ready", NEW c \in Clients
  PROVE  EndHeld[c].n <= pm_total_pages - EndIdx
  BY Proofs!GrantsFit, MemMapsAssumption, EntriesPerPageAssumption, ClientsAssumption,
     RunsAssumption
     DEF Proofs!Entry, Entry, Proofs!EntryTypes, EntryTypes, Proofs!IsUsable, IsUsable,
         Proofs!Pages, Pages, Proofs!NULL, NULL, Proofs!IsFiniteSet, IsFiniteSet

-----------------------------------------------------------------------------
(* What Atomic shows: the state itself when no call is in progress, and    *)
(* the state at the end of the call of c when c is inside one.             *)
Counts == pm_stack_idx \in Int /\ pm_free_pages \in Int /\ pm_used_pages \in Int

AtRest ==
  /\ EndStack = pm_stack /\ EndIdx = pm_stack_idx /\ EndHeld = held
  /\ EndFree = pm_free_pages /\ EndUsed = pm_used_pages

LEMMA RestView == Active = {} /\ Counts => AtRest
  BY DEF AtRest, Counts, EndStack, EndIdx, EndFree, EndUsed, EndHeld, Left, Asked, Within

LEMMA RestViewNext == (Active = {})' /\ Counts' => AtRest'
  BY RestView, PTL

(* PushRun, with the array and the index that it starts from. *)
Run(stack, idx, p, k) ==
  [s \in DOMAIN stack |-> IF s \in Pages(idx, k) THEN p + (s - idx) ELSE stack[s]]

Written(stack, idx, q) == [stack EXCEPT ![idx] = q]

IsArray(stack) == stack = [s \in DOMAIN stack |-> stack[s]]

Grant(b, c) == [base |-> b, n |-> pages[c]]

Shown(c) ==
  /\ pc[c] # "push" => EndStack = pm_stack
  /\ pc[c] = "take" =>
       /\ EndIdx = pm_stack_idx - pages[c]
       /\ EndFree = pm_free_pages - pages[c] /\ EndUsed = pm_used_pages + pages[c]
       /\ EndHeld = [held EXCEPT ![c] = Grant(pm_stack[pm_stack_idx - pages[c]], c)]
  /\ pc[c] = "slot" =>
       /\ EndIdx = pm_stack_idx
       /\ EndFree = pm_free_pages - pages[c] /\ EndUsed = pm_used_pages + pages[c]
       /\ EndHeld = [held EXCEPT ![c] = Grant(pm_stack[pm_stack_idx], c)]
  /\ pc[c] = "use" =>
       /\ EndIdx = pm_stack_idx
       /\ EndFree = pm_free_pages - pages[c] /\ EndUsed = pm_used_pages + pages[c]
       /\ EndHeld = [held EXCEPT ![c] = Grant(ptr[c], c)]
  /\ pc[c] = "unfree" =>
       /\ EndIdx = pm_stack_idx
       /\ EndFree = pm_free_pages - pages[c] /\ EndUsed = pm_used_pages
       /\ EndHeld = [held EXCEPT ![c] = Grant(ptr[c], c)]
  /\ pc[c] = "push" =>
       /\ EndStack = IF pages[c] - i[c] > 0
                     THEN Run(pm_stack, pm_stack_idx, ptr[c] + i[c], pages[c] - i[c])
                     ELSE pm_stack
       /\ EndIdx = pm_stack_idx + (pages[c] - i[c])
       /\ EndFree = pm_free_pages + pages[c] /\ EndUsed = pm_used_pages - pages[c]
       /\ EndHeld = held
  /\ pc[c] = "unuse" =>
       /\ EndIdx = pm_stack_idx
       /\ EndFree = pm_free_pages /\ EndUsed = pm_used_pages - pages[c]
       /\ EndHeld = held

Inside(c) == Active = {c} /\ Counts /\ pages[c] \in Int /\ i[c] \in Int

LEMMA CallView == \A c \in Clients : Inside(c) => Shown(c)
  <1> SUFFICES ASSUME NEW c \in Clients, Inside(c) PROVE Shown(c)
    OBVIOUS
  <1>1. Caller = c /\ Active # {} /\ Counts /\ pages[c] \in Int /\ i[c] \in Int
    BY DEF Inside, Caller
  <1>2. \A S : Within(S) <=> pc[c] \in S
    BY <1>1 DEF Within
  <1>3. \A S : Asked(S) = IF pc[c] \in S THEN pages[c] ELSE 0
    BY <1>1, <1>2 DEF Asked
  <1>4. Left = IF pc[c] = "push" THEN pages[c] - i[c] ELSE 0
    BY <1>1, <1>2 DEF Left
  <1>5. EndStack = IF Left > 0 THEN Run(pm_stack, pm_stack_idx, ptr[c] + i[c], Left) ELSE pm_stack
    BY <1>1 DEF EndStack, PushRun, Run
  <1>6. EndIdx = pm_stack_idx + Left - Asked({"take"})
    BY DEF EndIdx
  <1>7. EndFree = pm_free_pages - Asked({"take", "slot", "use", "unfree"}) + Asked({"push"})
    BY DEF EndFree
  <1>8. EndUsed = pm_used_pages + Asked({"take", "slot", "use"}) - Asked({"push", "unuse"})
    BY DEF EndUsed
  <1>9. EndHeld = IF pc[c] \in {"take", "slot", "use", "unfree"}
                  THEN [held EXCEPT ![c] = EndGrant] ELSE held
    BY <1>1, <1>2 DEF EndHeld
  <1>10. EndGrant = Grant(IF pc[c] \in {"take", "slot"} THEN pm_stack[EndIdx] ELSE ptr[c], c)
    BY <1>1, <1>2 DEF EndGrant, Grant
  <1>11. CASE pc[c] \in {"take", "slot", "use", "unfree"}
    <2>1. EndStack = pm_stack /\ EndFree = pm_free_pages - pages[c]
      BY <1>1, <1>3, <1>4, <1>5, <1>7, <1>11 DEF Counts
    <2>2. /\ pc[c] = "take" => EndIdx = pm_stack_idx - pages[c]
          /\ pc[c] # "take" => EndIdx = pm_stack_idx
      BY <1>1, <1>3, <1>4, <1>6, <1>11 DEF Counts
    <2>3. /\ pc[c] # "unfree" => EndUsed = pm_used_pages + pages[c]
          /\ pc[c] = "unfree" => EndUsed = pm_used_pages
      BY <1>1, <1>3, <1>8, <1>11 DEF Counts
    <2>4. /\ pc[c] \in {"take", "slot"} => EndGrant = Grant(pm_stack[EndIdx], c)
          /\ pc[c] \in {"use", "unfree"} => EndGrant = Grant(ptr[c], c)
      BY <1>10, <1>11
    <2>5. EndHeld = [held EXCEPT ![c] = EndGrant]
      BY <1>9, <1>11
    <2> QED
      BY <1>11, <2>1, <2>2, <2>3, <2>4, <2>5 DEF Shown
  <1>12. CASE pc[c] = "push"
    BY <1>1, <1>3, <1>4, <1>5, <1>6, <1>7, <1>8, <1>9, <1>12 DEF Shown, Counts
  <1>13. CASE pc[c] = "unuse"
    BY <1>1, <1>3, <1>4, <1>5, <1>6, <1>7, <1>8, <1>9, <1>13 DEF Shown, Counts
  <1>14. pc[c] # "push" => EndStack = pm_stack
    BY <1>4, <1>5
  <1> QED
    BY <1>11, <1>12, <1>13, <1>14 DEF Shown

LEMMA CallViewNext == (\A c \in Clients : Inside(c) => Shown(c))'
  BY CallView, PTL

-----------------------------------------------------------------------------
(* Who is in a call has its lock; and with one lock nobody else is in one. *)
Requesting == {"check", "take", "slot", "use", "unfree"}

Places == Requesting \cup {"idle", "push", "unuse", "release"}

Typed ==
  /\ pc \in [Clients -> Places]
  /\ owner \in [Locks -> Clients \cup {Nobody}]
  /\ pages \in [Clients -> Nat] /\ ptr \in [Clients -> Nat] /\ i \in [Clients -> Nat]
  /\ held \in [Clients -> [base : Nat, n : Nat]]
  /\ pm_stack_idx \in Nat /\ pm_free_pages \in Int /\ pm_used_pages \in Int
  /\ pm_stack = [s \in DOMAIN pm_stack |-> pm_stack[s]]

Place(c) ==
  /\ pc[c] # "idle" => phase = "ready" /\ owner[LockOf[c]] = c
  /\ pc[c] = "idle" => i[c] = 0
  /\ pc[c] \in Requesting => held[c] = NoGrant /\ pages[c] \in Runs
  /\ pc[c] = "take" => CanGrant(pages[c])
  /\ pc[c] = "push" => i[c] <= pages[c]

CallInv == Typed /\ \A c \in Clients : Place(c)

Outside == {"idle", "check", "release"}

AloneIn(c) == \A d \in Clients \ {c} : pc[d] = "idle"

LEMMA LockHolderIsAlone ==
  ASSUME OneLock, CallInv, NEW c \in Clients, pc[c] # "idle"
  PROVE  AloneIn(c) /\ phase = "ready"
  BY DEF OneLock, CallInv, Place, AloneIn

LEMMA FreeLockNobodyIn ==
  ASSUME OneLock, CallInv, NEW c \in Clients, owner[LockOf[c]] = Nobody
  PROVE  \A d \in Clients : pc[d] = "idle"
  BY LocksAssumption DEF OneLock, CallInv, Place

LEMMA ActiveOne ==
  ASSUME NEW c \in Clients, AloneIn(c), CallInv, NEW there \in Places,
         pc' = [pc EXCEPT ![c] = there]
  PROVE  /\ AloneIn(c)' /\ pc'[c] = there
         /\ Active = (IF pc[c] \in Outside THEN {} ELSE {c})
         /\ Active' = (IF there \in Outside THEN {} ELSE {c})
  <1>1. pc'[c] = there /\ \A d \in Clients \ {c} : pc'[d] = pc[d] /\ pc[d] = "idle"
    BY DEF AloneIn, CallInv, Typed
  <1> QED
    BY <1>1 DEF Active, Outside, AloneIn

(* The places of all the others stay as they are.                          *)
LEMMA OthersStay ==
  ASSUME NEW c \in Clients, AloneIn(c), CallInv, NEW there \in Places,
         pc' = [pc EXCEPT ![c] = there],
         \A d \in Clients \ {c} : i'[d] = i[d]
  PROVE  pc' \in [Clients -> Places] /\ \A d \in Clients \ {c} : Place(d)'
  BY DEF AloneIn, CallInv, Typed, Place, Requesting

-----------------------------------------------------------------------------
(* The steps.  Each keeps CallInv, and Atomic shows one step or none.      *)
StepInv == CallInv /\ Proofs!CounterInv /\ Proofs!ValidInv

Abstract == [Proofs!Next]_(Proofs!vars)

LEMMA Unseen ==
  ASSUME UNCHANGED <<phase, bootmap, memmap, pm_stack_base, pm_total_pages, ent, off>>,
         UNCHANGED <<EndStack, EndIdx, EndFree, EndUsed, EndHeld>>
  PROVE  Abstract
  BY DEF Abstract, Proofs!vars, Proofs!pmm_vars, Proofs!pmm_memory, Proofs!pmm_loops,
         Proofs!pmm_counts

LEMMA TypedCounts == Typed => Counts
  BY DEF Typed, Counts

LEMMA BeginRequestStep ==
  ASSUME OneLock, StepInv, NEW c \in Clients, NEW n \in Runs, BeginRequest(c, n)
  PROVE  CallInv' /\ Abstract
  <1>1. /\ pc[c] = "idle" /\ pc' = [pc EXCEPT ![c] = "check"] /\ phase = "ready"
        /\ owner[LockOf[c]] = Nobody /\ owner' = [owner EXCEPT ![LockOf[c]] = c]
        /\ pages' = [pages EXCEPT ![c] = n] /\ held[c] = NoGrant
        /\ UNCHANGED <<ptr, i, held, phase, bootmap, memmap, pm_stack_base, pm_total_pages, ent,
                      off, pm_stack, pm_stack_idx, pm_free_pages, pm_used_pages>>
    BY DEF BeginRequest, At, Acquire, pmm_vars, pmm_memory, pmm_loops, pmm_counts
  <1>2. CallInv /\ AloneIn(c)
    BY <1>1, FreeLockNobodyIn DEF StepInv, AloneIn
  <1>3. /\ Active = {} /\ Active' = {} /\ pc'[c] = "check" /\ pc' \in [Clients -> Places]
        /\ \A d \in Clients \ {c} : Place(d)'
    BY <1>1, <1>2, ActiveOne, OthersStay DEF Places, Requesting, Outside
  <1>4. Typed'
    BY <1>1, <1>2, <1>3, RunsAssumption, LocksAssumption DEF CallInv, Typed
  <1>5. Place(c)'
    BY <1>1, <1>2, <1>3, LocksAssumption DEF CallInv, Typed, Place, Requesting
  <1>6. AtRest /\ AtRest'
    BY <1>2, <1>3, <1>4, RestView, RestViewNext, TypedCounts DEF CallInv, Typed, Counts
  <1>7. Abstract
    BY <1>1, <1>6, Unseen DEF AtRest
  <1> QED
    BY <1>3, <1>4, <1>5, <1>7 DEF CallInv

LEMMA ReleaseStep ==
  ASSUME OneLock, StepInv, NEW c \in Clients, Release(c)
  PROVE  CallInv' /\ Abstract
  <1>1. /\ pc[c] = "release" /\ pc' = [pc EXCEPT ![c] = "idle"]
        /\ owner' = [owner EXCEPT ![LockOf[c]] = Nobody]
        /\ pages' = [pages EXCEPT ![c] = 0] /\ ptr' = [ptr EXCEPT ![c] = NULL]
        /\ i' = [i EXCEPT ![c] = 0]
        /\ UNCHANGED <<held, phase, bootmap, memmap, pm_stack_base, pm_total_pages, ent,
                      off, pm_stack, pm_stack_idx, pm_free_pages, pm_used_pages>>
    BY DEF Release, At, pmm_vars, pmm_memory, pmm_loops, pmm_counts
  <1>2. CallInv /\ AloneIn(c)
    BY <1>1, LockHolderIsAlone DEF StepInv
  <1>i. \A d \in Clients \ {c} : i'[d] = i[d]
    BY <1>1, <1>2 DEF CallInv, Typed
  <1>3. /\ Active = {} /\ Active' = {} /\ pc'[c] = "idle" /\ pc' \in [Clients -> Places]
        /\ \A d \in Clients \ {c} : Place(d)'
    BY <1>1, <1>2, <1>i, ActiveOne, OthersStay DEF Places, Requesting, Outside
  <1>4. Typed'
    BY <1>1, <1>2, <1>3, LocksAssumption DEF CallInv, Typed, NULL
  <1>5. Place(c)'
    BY <1>1, <1>2, <1>3 DEF CallInv, Typed, Place, Requesting
  <1>6. AtRest /\ AtRest'
    BY <1>2, <1>3, <1>4, RestView, RestViewNext, TypedCounts DEF CallInv, Typed, Counts
  <1>7. Abstract
    BY <1>1, <1>6, Unseen DEF AtRest
  <1> QED
    BY <1>3, <1>4, <1>5, <1>7 DEF CallInv

(* The check is where a request is granted, as Atomic shows it.            *)
LEMMA CheckStep ==
  ASSUME OneLock, StepInv, NEW c \in Clients, Check(c)
  PROVE  CallInv' /\ Abstract
  <1> DEFINE there == IF CanGrant(pages[c]) THEN "take" ELSE "release"
  <1>1. /\ pc[c] = "check" /\ pc' = [pc EXCEPT ![c] = there]
        /\ UNCHANGED <<owner, pages, ptr, i, held, phase, bootmap, memmap, pm_stack_base,
                      pm_total_pages, ent, off, pm_stack, pm_stack_idx, pm_free_pages,
                      pm_used_pages>>
    BY DEF Check, At, pmm_vars, pmm_memory, pmm_loops, pmm_counts
  <1>2. CallInv /\ AloneIn(c) /\ phase = "ready" /\ held[c] = NoGrant /\ pages[c] \in Runs
    BY <1>1, LockHolderIsAlone DEF StepInv, CallInv, Place, Requesting
  <1>t. there \in Places
    BY DEF Places, Requesting
  <1>3. /\ Active = {} /\ pc'[c] = there /\ pc' \in [Clients -> Places]
        /\ Active' = (IF there \in Outside THEN {} ELSE {c})
        /\ \A d \in Clients \ {c} : Place(d)'
    BY <1>1, <1>2, <1>t, ActiveOne, OthersStay DEF Outside
  <1>4. Typed'
    BY <1>1, <1>2, <1>3 DEF CallInv, Typed
  <1>5. Place(c)'
    BY <1>1, <1>2, <1>3 DEF CallInv, Typed, Place, Requesting, CanGrant
  <1>6. AtRest
    BY <1>2, <1>3, RestView, TypedCounts DEF CallInv
  <1>7. CASE CanGrant(pages[c])
    <2>1. Inside(c)'
      BY <1>1, <1>3, <1>4, <1>7 DEF Inside, Outside, Typed, Counts
    <2>2. Shown(c)' /\ pc'[c] = "take"
      BY <1>3, <1>7, <2>1, CallViewNext
    <2>3. /\ EndStack' = EndStack /\ EndIdx' = EndIdx - pages[c]
          /\ EndFree' = EndFree - pages[c] /\ EndUsed' = EndUsed + pages[c]
          /\ EndHeld' = [EndHeld EXCEPT ![c] = [base |-> EndStack[EndIdx - pages[c]],
                                                n |-> pages[c]]]
      BY <1>1, <1>6, <2>2 DEF Shown, AtRest, Grant
    <2>4. Proofs!CanGrant(pages[c]) /\ EndHeld[c] = Proofs!NoGrant
      BY <1>2, <1>6, <1>7 DEF AtRest, CanGrant, Proofs!CanGrant, NoGrant, Proofs!NoGrant, NULL,
                              Proofs!NULL
    <2>5. Proofs!Request(c, pages[c])
      BY <1>1, <1>2, <2>3, <2>4
         DEF Proofs!Request, Proofs!pmm_request_pages, Proofs!Granted, Proofs!pmm_memory,
             Proofs!pmm_loops
    <2>6. Abstract
      BY <1>2, <2>5 DEF Abstract, Proofs!Next
    <2> QED
      BY <1>3, <1>4, <1>5, <2>6 DEF CallInv
  <1>8. CASE ~CanGrant(pages[c])
    <2>1. AtRest'
      BY <1>3, <1>4, <1>8, RestViewNext DEF Outside, Typed, Counts
    <2>2. Abstract
      BY <1>1, <1>6, <2>1, Unseen DEF AtRest
    <2> QED
      BY <1>3, <1>4, <1>5, <2>2 DEF CallInv
  <1> QED
    BY <1>7, <1>8

(* The other statements of a request change nothing of what Atomic shows. *)
LEMMA TakeStep ==
  ASSUME OneLock, StepInv, NEW c \in Clients, Take(c)
  PROVE  CallInv' /\ Abstract
  <1>1. /\ pc[c] = "take" /\ pc' = [pc EXCEPT ![c] = "slot"]
        /\ pm_stack_idx' = pm_stack_idx - pages[c]
        /\ UNCHANGED <<owner, pages, ptr, i, held, phase, bootmap, memmap, pm_stack_base,
                      pm_total_pages, ent, off, pm_stack, pm_free_pages, pm_used_pages>>
    BY DEF Take, At, pmm_memory, pmm_loops
  <1>2. CallInv /\ AloneIn(c) /\ CanGrant(pages[c]) /\ pages[c] \in Nat /\ Typed
    BY <1>1, LockHolderIsAlone DEF StepInv, CallInv, Place, Typed
  <1>3. /\ Active = {c} /\ Active' = {c} /\ pc'[c] = "slot" /\ pc' \in [Clients -> Places]
        /\ \A d \in Clients \ {c} : Place(d)'
    BY <1>1, <1>2, ActiveOne, OthersStay DEF Outside, Places, Requesting
  <1>4. Typed'
    BY <1>1, <1>2, <1>3 DEF Typed, CanGrant
  <1>5. Place(c)'
    BY <1>1, <1>2, <1>3 DEF CallInv, Place, Requesting
  <1>6. Inside(c) /\ Inside(c)'
    BY <1>1, <1>2, <1>3, <1>4 DEF Inside, Typed, Counts
  <1>7. Shown(c) /\ Shown(c)'
    BY <1>6, CallView, CallViewNext
  <1>8. Abstract
    BY <1>1, <1>3, <1>7, Unseen DEF Shown, Grant
  <1> QED
    BY <1>3, <1>4, <1>5, <1>8 DEF CallInv

LEMMA ReadSlotStep ==
  ASSUME OneLock, StepInv, NEW c \in Clients, ReadSlot(c)
  PROVE  CallInv' /\ Abstract
  <1>1. /\ pc[c] = "slot" /\ pc' = [pc EXCEPT ![c] = "use"]
        /\ ptr' = [ptr EXCEPT ![c] = pm_stack[pm_stack_idx]]
        /\ UNCHANGED <<owner, pages, i, held, phase, bootmap, memmap, pm_stack_base,
                      pm_total_pages, ent, off, pm_stack, pm_stack_idx, pm_free_pages,
                      pm_used_pages>>
    BY DEF ReadSlot, At, pmm_vars, pmm_memory, pmm_loops, pmm_counts
  <1>2. CallInv /\ AloneIn(c) /\ Typed
    BY <1>1, LockHolderIsAlone DEF StepInv, CallInv
  <1>3. /\ Active = {c} /\ Active' = {c} /\ pc'[c] = "use" /\ pc' \in [Clients -> Places]
        /\ \A d \in Clients \ {c} : Place(d)'
    BY <1>1, <1>2, ActiveOne, OthersStay DEF Outside, Places, Requesting
  <1>4. Inside(c)
    BY <1>2, <1>3 DEF Inside, Typed, Counts
  <1>5. Shown(c)
    BY <1>4, CallView
  <1>6. pm_stack[pm_stack_idx] \in Nat
    <2>1. EndHeld \in [Clients -> [base : Nat, n : Nat]]
      BY DEF StepInv, Proofs!CounterInv, Proofs!FragmentInv, Proofs!TypeInv, Proofs!TypeOK
    <2>2. EndHeld[c] = Grant(pm_stack[pm_stack_idx], c)
      BY <1>1, <1>2, <1>5 DEF Shown, Typed
    <2> QED
      BY <2>1, <2>2 DEF Grant
  <1>7. Typed'
    BY <1>1, <1>2, <1>3, <1>6 DEF Typed
  <1>8. Place(c)'
    BY <1>1, <1>2, <1>3 DEF CallInv, Place, Requesting
  <1>9. Inside(c)' /\ ptr'[c] = pm_stack[pm_stack_idx]
    BY <1>1, <1>2, <1>3, <1>7 DEF Inside, Typed, Counts
  <1>10. Shown(c)'
    BY <1>9, CallViewNext
  <1>11. Abstract
    BY <1>1, <1>3, <1>5, <1>9, <1>10, Unseen DEF Shown, Grant
  <1> QED
    BY <1>3, <1>7, <1>8, <1>11 DEF CallInv

LEMMA CountUsedStep ==
  ASSUME OneLock, StepInv, NEW c \in Clients, CountUsed(c)
  PROVE  CallInv' /\ Abstract
  <1>1. /\ pc[c] = "use" /\ pc' = [pc EXCEPT ![c] = "unfree"]
        /\ pm_used_pages' = pm_used_pages + pages[c]
        /\ UNCHANGED <<owner, pages, ptr, i, held, phase, bootmap, memmap, pm_stack_base,
                      pm_total_pages, ent, off, pm_stack, pm_stack_idx, pm_free_pages>>
    BY DEF CountUsed, At, pmm_memory, pmm_loops
  <1>2. CallInv /\ AloneIn(c) /\ pages[c] \in Nat /\ Typed
    BY <1>1, LockHolderIsAlone DEF StepInv, CallInv, Typed
  <1>3. /\ Active = {c} /\ Active' = {c} /\ pc'[c] = "unfree" /\ pc' \in [Clients -> Places]
        /\ \A d \in Clients \ {c} : Place(d)'
    BY <1>1, <1>2, ActiveOne, OthersStay DEF Outside, Places, Requesting
  <1>4. Typed'
    BY <1>1, <1>2, <1>3 DEF Typed
  <1>5. Place(c)'
    BY <1>1, <1>2, <1>3 DEF CallInv, Place, Requesting
  <1>6. Inside(c) /\ Inside(c)'
    BY <1>1, <1>2, <1>3, <1>4 DEF Inside, Typed, Counts
  <1>7. Shown(c) /\ Shown(c)'
    BY <1>6, CallView, CallViewNext
  <1>8. Abstract
    BY <1>1, <1>3, <1>7, Unseen DEF Shown, Grant
  <1> QED
    BY <1>3, <1>4, <1>5, <1>8 DEF CallInv

LEMMA CountFreeStep ==
  ASSUME OneLock, StepInv, NEW c \in Clients, CountFree(c)
  PROVE  CallInv' /\ Abstract
  <1>1. /\ pc[c] = "unfree" /\ pc' = [pc EXCEPT ![c] = "release"]
        /\ pm_free_pages' = pm_free_pages - pages[c]
        /\ held' = [held EXCEPT ![c] = [base |-> ptr[c], n |-> pages[c]]]
        /\ UNCHANGED <<owner, pages, ptr, i, phase, bootmap, memmap, pm_stack_base,
                      pm_total_pages, ent, off, pm_stack, pm_stack_idx, pm_used_pages>>
    BY DEF CountFree, At, pmm_memory, pmm_loops
  <1>2. CallInv /\ AloneIn(c) /\ pages[c] \in Nat /\ ptr[c] \in Nat /\ Typed
    BY <1>1, LockHolderIsAlone DEF StepInv, CallInv, Typed
  <1>3. /\ Active = {c} /\ Active' = {} /\ pc'[c] = "release" /\ pc' \in [Clients -> Places]
        /\ \A d \in Clients \ {c} : Place(d)'
    BY <1>1, <1>2, ActiveOne, OthersStay DEF Outside, Places, Requesting
  <1>4. Typed'
    BY <1>1, <1>2, <1>3 DEF Typed
  <1>5. Place(c)'
    BY <1>1, <1>2, <1>3 DEF CallInv, Place, Requesting
  <1>6. Inside(c) /\ AtRest'
    BY <1>2, <1>3, <1>4, RestViewNext, TypedCounts DEF Inside, Typed, Counts
  <1>7. Shown(c)
    BY <1>6, CallView
  <1>8. Abstract
    BY <1>1, <1>3, <1>6, <1>7, Unseen DEF Shown, Grant, AtRest
  <1> QED
    BY <1>3, <1>4, <1>5, <1>8 DEF CallInv

(* Atomic shows a release with its lock: all that is given back fits the   *)
(* array, and nothing of it is page 0.                                     *)
LEMMA BeginFreeStep ==
  ASSUME OneLock, StepInv, NEW c \in Clients, BeginFree(c)
  PROVE  CallInv' /\ Abstract
  <1> PICK b : b = held[c].base
    OBVIOUS
  <1> PICK n : n = held[c].n
    OBVIOUS
  <1>1. /\ pc[c] = "idle" /\ pc' = [pc EXCEPT ![c] = "push"] /\ phase = "ready"
        /\ owner[LockOf[c]] = Nobody /\ owner' = [owner EXCEPT ![LockOf[c]] = c]
        /\ pages' = [pages EXCEPT ![c] = n] /\ ptr' = [ptr EXCEPT ![c] = b]
        /\ held[c] # NoGrant /\ held' = [held EXCEPT ![c] = NoGrant]
        /\ UNCHANGED <<i, phase, bootmap, memmap, pm_stack_base, pm_total_pages, ent, off,
                      pm_stack, pm_stack_idx, pm_free_pages, pm_used_pages>>
    BY DEF BeginFree, At, Acquire, pmm_vars, pmm_memory, pmm_loops, pmm_counts
  <1>2. CallInv /\ AloneIn(c) /\ Typed /\ b \in Nat /\ n \in Nat /\ i[c] = 0
    BY <1>1, FreeLockNobodyIn DEF StepInv, AloneIn, CallInv, Typed, Place
  <1>3. /\ Active = {} /\ Active' = {c} /\ pc'[c] = "push" /\ pc' \in [Clients -> Places]
        /\ \A d \in Clients \ {c} : Place(d)'
    BY <1>1, <1>2, ActiveOne, OthersStay DEF Places, Requesting, Outside
  <1>4. pages'[c] = n /\ ptr'[c] = b /\ i'[c] = 0
    BY <1>1, <1>2 DEF Typed
  <1>5. Typed'
    <2>1. NoGrant \in [base : Nat, n : Nat]
      BY DEF NoGrant, NULL
    <2> QED
      BY <1>1, <1>2, <1>3, <2>1, LocksAssumption DEF Typed
  <1>6. Place(c)'
    BY <1>1, <1>2, <1>3, <1>4, LocksAssumption DEF Typed, Place, Requesting
  <1>7. AtRest
    BY <1>2, <1>3, RestView, TypedCounts
  <1>8. /\ pm_stack_idx \in Nat /\ pm_total_pages \in Nat /\ n <= pm_total_pages - pm_stack_idx
        /\ b # NULL /\ n > 0
    <2>1. n <= pm_total_pages - pm_stack_idx
      BY <1>1, <1>7, AtomicFits DEF StepInv, AtRest
    <2>2. pm_total_pages \in Nat
      BY DEF StepInv, Proofs!CounterInv, Proofs!FragmentInv, Proofs!TypeInv, Proofs!TypeOK
    <2>3. c \in Proofs!Holders
      BY <1>1, <1>7 DEF AtRest, Proofs!Holders, NoGrant, Proofs!NoGrant, NULL, Proofs!NULL
    <2>4. b # NULL /\ n # 0
      BY <1>7, <2>3
         DEF StepInv, Proofs!ValidInv, Proofs!Valid, AtRest, NULL, Proofs!NULL
    <2> QED
      BY <1>2, <2>1, <2>2, <2>4 DEF Typed
  <1>9. Inside(c)'
    BY <1>3, <1>5 DEF Inside, Typed, Counts
  <1>10. Shown(c)'
    BY <1>9, CallViewNext
  <1>11. /\ EndStack' = Run(pm_stack, pm_stack_idx, b, n) /\ EndIdx' = pm_stack_idx + n
         /\ EndFree' = pm_free_pages + n /\ EndUsed' = pm_used_pages - n
         /\ EndHeld' = [held EXCEPT ![c] = NoGrant]
    <2>1. n - 0 = n /\ b + 0 = b /\ n > 0
      BY <1>2, <1>8
    <2> QED
      BY <1>1, <1>3, <1>4, <1>10, <2>1 DEF Shown
  <1>12. Proofs!Free(c)
    <2>1. /\ EndStack' = Proofs!PushRun(b, n) /\ EndIdx' = EndIdx + n
          /\ EndFree' = EndFree + n /\ EndUsed' = EndUsed - n
          /\ EndHeld' = [EndHeld EXCEPT ![c] = Proofs!NoGrant]
          /\ EndHeld[c] # Proofs!NoGrant /\ EndHeld[c].base = b /\ EndHeld[c].n = n
      BY <1>1, <1>7, <1>11
         DEF AtRest, Run, Proofs!PushRun, Pages, Proofs!Pages, NoGrant, Proofs!NoGrant, NULL,
             Proofs!NULL
    <2>2. b # Proofs!NULL /\ n > 0 /\ n <= pm_total_pages - EndIdx
      BY <1>7, <1>8 DEF AtRest, NULL, Proofs!NULL
    <2> QED
      BY <1>1, <2>1, <2>2
         DEF Proofs!Free, Proofs!pmm_free_pages, Proofs!pmm_memory, Proofs!pmm_loops
  <1>13. Abstract
    BY <1>12 DEF Abstract, Proofs!Next
  <1> QED
    BY <1>3, <1>5, <1>6, <1>13 DEF CallInv

(* A turn of the loop writes the first page of the run that is left.       *)
LEMMA RunUnrolls ==
  ASSUME NEW stack, NEW idx \in Nat, NEW q \in Nat, NEW m \in Nat \ {0},
         IsArray(stack), NEW next, next = Written(stack, idx, q)
  PROVE  Run(stack, idx, q, m) = IF m - 1 > 0 THEN Run(next, idx + 1, q + 1, m - 1) ELSE next
  <1>1. /\ DOMAIN next = DOMAIN stack
        /\ next = [s \in DOMAIN stack |-> IF s = idx THEN q ELSE stack[s]]
    BY DEF IsArray, Written
  <1>2. \A s : /\ s \in Pages(idx, m) <=> s = idx \/ s \in Pages(idx + 1, m - 1)
               /\ s \in Pages(idx + 1, m - 1) => s # idx /\ s \in Int
    BY DEF Pages
  <1>3. \A s \in Int : q + (s - idx) = q + 1 + (s - (idx + 1))
    OBVIOUS
  <1>4. q + (idx - idx) = q
    OBVIOUS
  <1>5. CASE m - 1 > 0
    <2>1. Run(next, idx + 1, q + 1, m - 1)
            = [s \in DOMAIN stack |-> IF s \in Pages(idx + 1, m - 1)
                                      THEN q + 1 + (s - (idx + 1)) ELSE next[s]]
      BY <1>1 DEF Run
    <2>2. \A s \in DOMAIN stack :
            (IF s \in Pages(idx, m) THEN q + (s - idx) ELSE stack[s])
              = (IF s \in Pages(idx + 1, m - 1) THEN q + 1 + (s - (idx + 1)) ELSE next[s])
      BY <1>1, <1>2, <1>3, <1>4
    <2>3. Run(stack, idx, q, m) = Run(next, idx + 1, q + 1, m - 1)
      BY <2>1, <2>2 DEF Run
    <2> QED
      BY <1>5, <2>3
  <1>6. CASE ~(m - 1 > 0)
    <2>1. \A s : s \in Pages(idx, m) <=> s = idx
      BY <1>6 DEF Pages
    <2> QED
      BY <1>1, <1>4, <1>6, <2>1 DEF Run
  <1> QED
    BY <1>5, <1>6

LEMMA PushStep ==
  ASSUME OneLock, StepInv, NEW c \in Clients, Push(c)
  PROVE  CallInv' /\ Abstract
  <1> PICK k : k = pages[c]
    OBVIOUS
  <1> PICK j : j = i[c]
    OBVIOUS
  <1> PICK p : p = ptr[c]
    OBVIOUS
  <1>1. /\ j < k /\ pc[c] = "push"
        /\ UNCHANGED <<owner, pages, ptr, held, phase, bootmap, memmap, pm_stack_base,
                      pm_total_pages, ent, off, pm_free_pages, pm_used_pages>>
    BY DEF Push, At, pmm_memory, pmm_loops
  <1>2. CallInv /\ AloneIn(c) /\ Typed /\ k \in Nat /\ j \in Nat /\ p \in Nat
    BY <1>1, LockHolderIsAlone DEF StepInv, CallInv, Typed
  <1>3. Active = {c}
    BY <1>1, <1>2 DEF AloneIn, Active
  <1>4. Inside(c)
    BY <1>2, <1>3 DEF Inside, Typed, Counts
  <1>5. Shown(c)
    BY <1>4, CallView
  <1>6. /\ EndIdx = pm_stack_idx + (k - j)
        /\ EndStack = Run(pm_stack, pm_stack_idx, p + j, k - j)
        /\ EndFree = pm_free_pages + k /\ EndUsed = pm_used_pages - k /\ EndHeld = held
    <2>1. k - j > 0
      BY <1>1, <1>2
    <2> QED
      BY <1>1, <1>5, <2>1 DEF Shown
  <1>7. ~(pm_stack_idx >= pm_total_pages)
    <2>1. pm_total_pages \in Nat /\ (EndIdx = 0 \/ EndIdx <= pm_total_pages)
      BY DEF StepInv, Proofs!CounterInv, Proofs!FragmentInv, Proofs!TypeInv, Proofs!TypeOK
    <2> QED
      BY <1>1, <1>2, <1>6, <2>1 DEF Typed
  <1>8. /\ pc' = [pc EXCEPT ![c] = "push"]
        /\ pm_stack' = [pm_stack EXCEPT ![pm_stack_idx] = p + j]
        /\ pm_stack_idx' = pm_stack_idx + 1
        /\ i' = [i EXCEPT ![c] = j + 1]
    BY <1>7 DEF Push, At
  <1>i. i'[c] = j + 1 /\ \A d \in Clients \ {c} : i'[d] = i[d]
    BY <1>2, <1>8 DEF Typed
  <1>9. /\ Active' = {c} /\ pc'[c] = "push" /\ pc' \in [Clients -> Places]
        /\ \A d \in Clients \ {c} : Place(d)'
    BY <1>2, <1>8, <1>i, ActiveOne, OthersStay DEF Outside, Places, Requesting
  <1>10. Typed'
    <2>1. pm_stack' = [s \in DOMAIN pm_stack' |-> pm_stack'[s]]
      BY <1>8
    <2> QED
      BY <1>1, <1>2, <1>8, <1>9, <2>1 DEF Typed
  <1>11. Place(c)'
    BY <1>1, <1>2, <1>9, <1>i DEF CallInv, Place, Requesting
  <1>12. Inside(c)' /\ pages'[c] = k /\ ptr'[c] = p
    BY <1>1, <1>9, <1>10 DEF Inside, Typed, Counts
  <1>13. Shown(c)'
    BY <1>12, CallViewNext
  <1>14. /\ EndIdx' = pm_stack_idx + 1 + (k - (j + 1))
         /\ EndStack' = IF k - (j + 1) > 0
                        THEN Run(pm_stack', pm_stack_idx + 1, p + (j + 1), k - (j + 1))
                        ELSE pm_stack'
         /\ EndFree' = EndFree /\ EndUsed' = EndUsed /\ EndHeld' = EndHeld
    BY <1>1, <1>6, <1>8, <1>9, <1>i, <1>12, <1>13 DEF Shown
  <1>15. k - (j + 1) = k - j - 1 /\ p + (j + 1) = p + j + 1 /\ k - j \in Nat \ {0}
         /\ p + j \in Nat /\ pm_stack_idx \in Nat
    BY <1>1, <1>2 DEF Typed
  <1>16. EndIdx' = EndIdx
    BY <1>2, <1>6, <1>14, <1>15
  <1>17. EndStack' = EndStack
    <2> PICK m : m = k - j
      OBVIOUS
    <2> PICK q : q = p + j
      OBVIOUS
    <2>1. m \in Nat \ {0} /\ q \in Nat /\ IsArray(pm_stack)
      BY <1>2, <1>15 DEF Typed, IsArray
    <2>2. pm_stack' = Written(pm_stack, pm_stack_idx, q)
      BY <1>8 DEF Written
    <2>3. Run(pm_stack, pm_stack_idx, q, m)
            = IF m - 1 > 0 THEN Run(pm_stack', pm_stack_idx + 1, q + 1, m - 1) ELSE pm_stack'
      BY <1>15, <2>1, <2>2, RunUnrolls
    <2> QED
      BY <1>6, <1>14, <1>15, <2>3
  <1>18. Abstract
    BY <1>1, <1>14, <1>16, <1>17, Unseen
  <1> QED
    BY <1>9, <1>10, <1>11, <1>18 DEF CallInv

LEMMA UncountFreeStep ==
  ASSUME OneLock, StepInv, NEW c \in Clients, UncountFree(c)
  PROVE  CallInv' /\ Abstract
  <1>1. /\ pc[c] = "push" /\ pc' = [pc EXCEPT ![c] = "unuse"] /\ i[c] = pages[c]
        /\ pm_free_pages' = pm_free_pages + pages[c]
        /\ UNCHANGED <<owner, pages, ptr, i, held, phase, bootmap, memmap, pm_stack_base,
                      pm_total_pages, ent, off, pm_stack, pm_stack_idx, pm_used_pages>>
    BY DEF UncountFree, At, pmm_memory, pmm_loops
  <1>2. CallInv /\ AloneIn(c) /\ pages[c] \in Nat /\ Typed
    BY <1>1, LockHolderIsAlone DEF StepInv, CallInv, Typed
  <1>3. /\ Active = {c} /\ Active' = {c} /\ pc'[c] = "unuse" /\ pc' \in [Clients -> Places]
        /\ \A d \in Clients \ {c} : Place(d)'
    BY <1>1, <1>2, ActiveOne, OthersStay DEF Outside, Places, Requesting
  <1>4. Typed'
    BY <1>1, <1>2, <1>3 DEF Typed
  <1>5. Place(c)'
    BY <1>1, <1>2, <1>3 DEF CallInv, Place, Requesting
  <1>6. Inside(c) /\ Inside(c)'
    BY <1>1, <1>2, <1>3, <1>4 DEF Inside, Typed, Counts
  <1>7. Shown(c) /\ Shown(c)'
    BY <1>6, CallView, CallViewNext
  <1>8. /\ EndStack = pm_stack /\ EndIdx = pm_stack_idx
        /\ EndFree = pm_free_pages + pages[c] /\ EndUsed = pm_used_pages - pages[c]
        /\ EndHeld = held
    <2>1. pages[c] - i[c] = 0 /\ ~(0 > 0) /\ pm_stack_idx + 0 = pm_stack_idx
      BY <1>1, <1>2 DEF Typed
    <2> QED
      BY <1>1, <1>7, <2>1 DEF Shown
  <1>9. Abstract
    BY <1>1, <1>3, <1>7, <1>8, Unseen DEF Shown
  <1> QED
    BY <1>3, <1>4, <1>5, <1>9 DEF CallInv

LEMMA UncountUsedStep ==
  ASSUME OneLock, StepInv, NEW c \in Clients, UncountUsed(c)
  PROVE  CallInv' /\ Abstract
  <1>1. /\ pc[c] = "unuse" /\ pc' = [pc EXCEPT ![c] = "release"]
        /\ pm_used_pages' = pm_used_pages - pages[c]
        /\ UNCHANGED <<owner, pages, ptr, i, held, phase, bootmap, memmap, pm_stack_base,
                      pm_total_pages, ent, off, pm_stack, pm_stack_idx, pm_free_pages>>
    BY DEF UncountUsed, At, pmm_memory, pmm_loops
  <1>2. CallInv /\ AloneIn(c) /\ pages[c] \in Nat /\ Typed
    BY <1>1, LockHolderIsAlone DEF StepInv, CallInv, Typed
  <1>3. /\ Active = {c} /\ Active' = {} /\ pc'[c] = "release" /\ pc' \in [Clients -> Places]
        /\ \A d \in Clients \ {c} : Place(d)'
    BY <1>1, <1>2, ActiveOne, OthersStay DEF Outside, Places, Requesting
  <1>4. Typed'
    BY <1>1, <1>2, <1>3 DEF Typed
  <1>5. Place(c)'
    BY <1>1, <1>2, <1>3 DEF CallInv, Place, Requesting
  <1>6. Inside(c) /\ AtRest'
    BY <1>2, <1>3, <1>4, RestViewNext, TypedCounts DEF Inside, Typed, Counts
  <1>7. Shown(c)
    BY <1>6, CallView
  <1>8. Abstract
    BY <1>1, <1>3, <1>6, <1>7, Unseen DEF Shown, AtRest
  <1> QED
    BY <1>3, <1>4, <1>5, <1>8 DEF CallInv

(* pmm_init runs before any call, so Atomic shows it as it is.             *)
LEMMA BootNobodyIn ==
  ASSUME CallInv, Boot
  PROVE  /\ \A c \in Clients : pc[c] = "idle"
         /\ Typed' /\ \A c \in Clients : Place(c)'
  <1>1. phase \in {"count", "locate", "push"} /\ UNCHANGED <<held, owner, pc, pages, ptr, i>>
    BY DEF Boot, pmm_init, CountEntry, CountDone, PlaceStack, SkipEntry, NoPlace, PushPage,
           NextEntry, PushDone, call_vars
  <1>2. \A c \in Clients : pc[c] = "idle"
    BY <1>1 DEF CallInv, Place
  <1>3. /\ pm_stack_idx' \in Nat /\ pm_free_pages' \in Int /\ pm_used_pages' \in Int
    BY DEF CallInv, Typed, Boot, pmm_init, CountEntry, CountDone, PlaceStack, SkipEntry, NoPlace,
           PushPage, NextEntry, PushDone, pmm_counts
  <1>4. pm_stack' = [s \in DOMAIN pm_stack' |-> pm_stack'[s]]
    <2>1. CASE PlaceStack
      BY <2>1 DEF PlaceStack
    <2>2. CASE PushPage
      <3>1. \/ pm_stack' = [pm_stack EXCEPT ![pm_stack_idx] = memmap[ent].base + off]
            \/ pm_stack' = pm_stack
        BY <2>2 DEF PushPage
      <3> QED
        BY <3>1 DEF CallInv, Typed
    <2>3. CASE ~PlaceStack /\ ~PushPage
      <3>1. pm_stack' = pm_stack
        BY <2>3 DEF Boot, pmm_init, CountEntry, CountDone, SkipEntry, NoPlace, NextEntry, PushDone
      <3> QED
        BY <3>1 DEF CallInv, Typed
    <2> QED
      BY <2>1, <2>2, <2>3
  <1>5. Typed'
    BY <1>1, <1>3, <1>4 DEF CallInv, Typed
  <1>6. \A c \in Clients : Place(c)'
    BY <1>1, <1>2 DEF CallInv, Place, Requesting
  <1> QED
    BY <1>2, <1>5, <1>6

LEMMA BootStep ==
  ASSUME StepInv, Boot
  PROVE  CallInv' /\ Abstract
  <1>1. /\ \A c \in Clients : pc[c] = "idle"
        /\ Typed' /\ (\A c \in Clients : Place(c)') /\ CallInv /\ Typed
        /\ UNCHANGED <<pc, held>>
    BY BootNobodyIn DEF StepInv, CallInv, Boot, call_vars
  <1>2. Active = {} /\ (Active = {})'
    BY <1>1 DEF Active
  <1>3. AtRest
    BY <1>1, <1>2, RestView, TypedCounts
  <1>4. Counts'
    BY <1>1 DEF Typed, Counts
  <1>5. AtRest'
    BY <1>2, <1>4, RestViewNext
  <1>6. Proofs!pm_stack_size = pm_stack_size
    BY DEF Proofs!pm_stack_size, pm_stack_size
  <1> USE <1>3, <1>5, <1>6 DEF AtRest, Proofs!pmm_memory, Proofs!pmm_loops, Proofs!pmm_counts,
                               pmm_memory, pmm_loops, pmm_counts, Proofs!NULL, NULL
  <1>7. CountEntry => Proofs!CountEntry
    BY DEF CountEntry, Proofs!CountEntry, IsUsable, Proofs!IsUsable
  <1>8. CountDone => Proofs!CountDone
    BY DEF CountDone, Proofs!CountDone
  <1>9. PlaceStack => Proofs!PlaceStack
    BY DEF PlaceStack, Proofs!PlaceStack, CanHold, Proofs!CanHold, IsUsable, Proofs!IsUsable,
           Shortened, Proofs!Shortened
  <1>10. SkipEntry => Proofs!SkipEntry
    BY DEF SkipEntry, Proofs!SkipEntry, CanHold, Proofs!CanHold, IsUsable, Proofs!IsUsable
  <1>11. NoPlace => Proofs!NoPlace
    BY DEF NoPlace, Proofs!NoPlace
  <1>12. PushPage => Proofs!PushPage
    BY DEF PushPage, Proofs!PushPage, IsUsable, Proofs!IsUsable
  <1>13. NextEntry => Proofs!NextEntry
    BY DEF NextEntry, Proofs!NextEntry, IsUsable, Proofs!IsUsable
  <1>14. PushDone => Proofs!PushDone
    BY DEF PushDone, Proofs!PushDone
  <1>15. Proofs!Boot
    BY <1>1, <1>7, <1>8, <1>9, <1>10, <1>11, <1>12, <1>13, <1>14
       DEF Boot, pmm_init, Proofs!Boot, Proofs!pmm_init
  <1> QED
    BY <1>1, <1>15 DEF Abstract, Proofs!Next, CallInv

-----------------------------------------------------------------------------
LEMMA NextStep ==
  ASSUME OneLock, StepInv, [Next]_vars
  PROVE  StepInv' /\ Abstract
  <1>1. CallInv' /\ Abstract
    <2>1. CASE UNCHANGED vars
      <3>1. UNCHANGED <<phase, bootmap, memmap, ent, off, pm_stack, pm_stack_base, pm_stack_idx,
                        pm_total_pages, pm_free_pages, pm_used_pages, held, owner, pc, pages,
                        ptr, i>>
        BY <2>1 DEF vars, pmm_vars, pmm_memory, pmm_loops, pmm_counts, call_vars
      <3>2. CallInv'
        BY <3>1 DEF StepInv, CallInv, Typed, Place, CanGrant
      <3>3. UNCHANGED <<EndStack, EndIdx, EndFree, EndUsed, EndHeld>>
        BY <3>1 DEF EndStack, EndIdx, EndFree, EndUsed, EndHeld, EndGrant, Left, Asked, Within,
                    Active, Caller, PushRun, Pages
      <3> QED
        BY <3>1, <3>2, <3>3, Unseen
    <2>2. ASSUME NEW c \in Clients, Call(c) PROVE CallInv' /\ Abstract
      BY <2>2, CheckStep, TakeStep, ReadSlotStep, CountUsedStep, CountFreeStep, PushStep,
         UncountFreeStep, UncountUsedStep, ReleaseStep DEF Call
    <2> QED
      BY <2>1, <2>2, BootStep, BeginRequestStep, BeginFreeStep DEF Next
  <1>2. Proofs!CounterInv' /\ Proofs!ValidInv'
    BY <1>1, AtomicNext DEF StepInv, Abstract
  <1> QED
    BY <1>1, <1>2 DEF StepInv

LEMMA InitStep ==
  ASSUME Init
  PROVE  StepInv /\ Proofs!Init
  <1>1. CallInv
    BY LocksAssumption DEF Init, PMMInit, CallInv, Typed, Place, Places, Requesting, NoGrant, NULL
  <1>2. Active = {}
    BY DEF Init, Active
  <1>3. AtRest
    BY <1>1, <1>2, RestView, TypedCounts DEF CallInv
  <1>4. Proofs!Init
    BY <1>3 DEF Init, PMMInit, Proofs!Init, Proofs!PMMInit, AtRest, NoGrant, Proofs!NoGrant, NULL,
                Proofs!NULL
  <1> QED
    BY <1>1, <1>4, AtomicInit DEF StepInv

(* Proofs and Atomic show the same: what PMMProofs extends is PMMClients.  *)
LEMMA SameInit == Proofs!Init => Atomic!Init
  BY DEF Proofs!Init, Atomic!Init, Proofs!PMMInit, Atomic!PMMInit, Proofs!NoGrant, Atomic!NoGrant,
         Proofs!NULL, Atomic!NULL

LEMMA SameBoot == Proofs!Boot => Atomic!Boot
  <1> USE DEF Proofs!pmm_memory, Atomic!pmm_memory, Proofs!pmm_loops, Atomic!pmm_loops,
              Proofs!pmm_counts, Atomic!pmm_counts, Proofs!NULL, Atomic!NULL,
              Proofs!IsUsable, Atomic!IsUsable
  <1>1. Proofs!pm_stack_size = Atomic!pm_stack_size
    BY DEF Proofs!pm_stack_size, Atomic!pm_stack_size
  <1>2. \A e : Proofs!CanHold(e) <=> Atomic!CanHold(e)
    BY <1>1 DEF Proofs!CanHold, Atomic!CanHold
  <1>3. /\ Proofs!CountEntry => Atomic!CountEntry
        /\ Proofs!CountDone => Atomic!CountDone
    BY DEF Proofs!CountEntry, Atomic!CountEntry, Proofs!CountDone, Atomic!CountDone
  <1>4. Proofs!PlaceStack => Atomic!PlaceStack
    BY <1>1, <1>2 DEF Proofs!PlaceStack, Atomic!PlaceStack, Proofs!Shortened, Atomic!Shortened
  <1>5. /\ Proofs!SkipEntry => Atomic!SkipEntry
        /\ Proofs!NoPlace => Atomic!NoPlace
    BY <1>2 DEF Proofs!SkipEntry, Atomic!SkipEntry, Proofs!NoPlace, Atomic!NoPlace
  <1>6. /\ Proofs!PushPage => Atomic!PushPage
        /\ Proofs!NextEntry => Atomic!NextEntry
        /\ Proofs!PushDone => Atomic!PushDone
    BY DEF Proofs!PushPage, Atomic!PushPage, Proofs!NextEntry, Atomic!NextEntry,
           Proofs!PushDone, Atomic!PushDone
  <1> QED
    BY <1>3, <1>4, <1>5, <1>6 DEF Proofs!Boot, Atomic!Boot, Proofs!pmm_init, Atomic!pmm_init

LEMMA SameStep == Abstract => [Atomic!Next]_(Atomic!vars)
  <1> USE DEF Proofs!pmm_memory, Atomic!pmm_memory, Proofs!pmm_loops, Atomic!pmm_loops,
              Proofs!pmm_counts, Atomic!pmm_counts, Proofs!NULL, Atomic!NULL,
              Proofs!NoGrant, Atomic!NoGrant
  <1>1. ASSUME NEW c \in Clients, NEW n \in Runs, Proofs!Request(c, n) PROVE Atomic!Request(c, n)
    BY <1>1 DEF Proofs!Request, Atomic!Request, Proofs!pmm_request_pages,
                Atomic!pmm_request_pages, Proofs!CanGrant, Atomic!CanGrant, Proofs!Granted,
                Atomic!Granted
  <1>2. ASSUME NEW c \in Clients, Proofs!Free(c) PROVE Atomic!Free(c)
    <2>1. \A p, k : Proofs!PushRun(p, k) = Atomic!PushRun(p, k)
      BY DEF Proofs!PushRun, Atomic!PushRun, Proofs!Pages, Atomic!Pages
    <2> QED
      BY <1>2, <2>1 DEF Proofs!Free, Atomic!Free, Proofs!pmm_free_pages, Atomic!pmm_free_pages
  <1>3. Proofs!vars = Atomic!vars /\ Proofs!vars' = Atomic!vars'
    BY DEF Proofs!vars, Atomic!vars, Proofs!pmm_vars, Atomic!pmm_vars
  <1> QED
    BY <1>1, <1>2, <1>3, SameBoot DEF Abstract, Proofs!Next, Atomic!Next

LEMMA SameAccounting == Proofs!Accounting => Atomic!Accounting
  <1>1. \A S : Proofs!Cardinality(S) = Atomic!Cardinality(S)
    BY DEF Proofs!Cardinality, Atomic!Cardinality
  <1>2. Proofs!HeldCount = Atomic!HeldCount
    BY <1>1 DEF Proofs!HeldCount, Atomic!HeldCount, Proofs!PagesOf, Atomic!PagesOf
  <1>3. Proofs!UsablePages(bootmap) = Atomic!UsablePages(bootmap)
    BY DEF Proofs!UsablePages, Atomic!UsablePages, Proofs!EntryPages, Atomic!EntryPages,
           Proofs!Pages, Atomic!Pages, Proofs!IsUsable, Atomic!IsUsable
  <1>4. Proofs!pm_stack_size = Atomic!pm_stack_size
    BY DEF Proofs!pm_stack_size, Atomic!pm_stack_size
  <1> QED
    BY <1>1, <1>2, <1>3, <1>4 DEF Proofs!Accounting, Atomic!Accounting

(* pmm.c:107-147: callers that share a lock can take each call for a       *)
(* single step, for every memory map, number of clients and request size:  *)
(* nobody gets a slot that another call is about to take or to fill.       *)
THEOREM PMMStepsImplementClients ==
  ASSUME OneLock
  PROVE  Spec => ImplementsPMMClients
  <1>1. Init => StepInv /\ Atomic!Init
    BY InitStep, SameInit
  <1>2. StepInv /\ [Next]_vars => StepInv' /\ [Atomic!Next]_(Atomic!vars)
    BY NextStep, SameStep
  <1> QED
    BY <1>1, <1>2, PTL DEF Spec, ImplementsPMMClients, Atomic!Spec

(* pmm.c:120 and pmm.c:143: between the calls the counters and the index   *)
(* agree, so no call takes the overflow return or wraps a counter.         *)
THEOREM PMMStepsCount ==
  ASSUME OneLock
  PROVE  Spec => []CountersAtRest
  <1>1. Init => StepInv
    BY InitStep
  <1>2. StepInv /\ [Next]_vars => StepInv'
    BY NextStep
  <1>3. StepInv => CountersAtRest
    BY SameAccounting DEF StepInv, Proofs!CounterInv, CountersAtRest
  <1> QED
    BY <1>1, <1>2, <1>3, PTL DEF Spec

(* With single-page requests, as vmm.c makes them, interleaved statement by *)
(* statement, no page is lost and none is in two grants, at any time and   *)
(* for any number of callers under one lock.                               *)
THEOREM PMMStepsPartition ==
  ASSUME OneLock, Runs \subseteq {0, 1}
  PROVE  Spec => []Atomic!Partition
  <1>1. Init => StepInv /\ Proofs!Init
    BY InitStep
  <1>2. StepInv /\ [Next]_vars => StepInv' /\ [Proofs!Next]_(Proofs!vars)
    BY NextStep DEF Abstract
  <1>3. Spec => Proofs!Spec
    BY <1>1, <1>2, PTL DEF Spec, Proofs!Spec
  <1>4. Proofs!Spec => []Proofs!Partition
    BY Proofs!PMMPartition, MemMapsAssumption, EntriesPerPageAssumption, ClientsAssumption,
       RunsAssumption
       DEF Proofs!Entry, Entry, Proofs!EntryTypes, EntryTypes, Proofs!IsUsable, IsUsable,
           Proofs!Pages, Pages, Proofs!NULL, NULL, Proofs!IsFiniteSet, IsFiniteSet
  <1>5. Proofs!Partition => Atomic!Partition
    BY DEF Proofs!Partition, Atomic!Partition, Proofs!FreeSlots, Atomic!FreeSlots,
           Proofs!FreePages, Atomic!FreePages, Proofs!RunOf, Atomic!RunOf, Proofs!Pages,
           Atomic!Pages, Proofs!UsablePages, Atomic!UsablePages, Proofs!EntryPages,
           Atomic!EntryPages, Proofs!IsUsable, Atomic!IsUsable, Proofs!StackPages,
           Atomic!StackPages, Proofs!NULL, Atomic!NULL, Proofs!pm_stack_size,
           Atomic!pm_stack_size
  <1> QED
    BY <1>3, <1>4, <1>5, PTL

=============================================================================
