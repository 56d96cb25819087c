--------------------------- MODULE PageAllocator ---------------------------
(***************************************************************************)
(* What a physical page allocator promises to its clients: a grant of n    *)
(* pages at base is the run base .. base+n-1, taken whole out of the pool, *)
(* and goes back whole.  PMMClients is shown to implement this when every  *)
(* request is for a single page.                                           *)
(***************************************************************************)
EXTENDS Integers, TLAPS

CONSTANTS
  Clients,  \* who holds grants
  Runs      \* the numbers of pages a client may ask for

VARIABLES
  open,     \* has the allocator been initialised?
  pool,     \* the free pages
  held      \* the grant each client holds

NoGrant == [base |-> 0, n |-> 0]

RunOf(g) == g.base .. g.base + g.n - 1

Init ==
  /\ open = FALSE
  /\ pool = {}
  /\ held = [c \in Clients |-> NoGrant]

(* Initialisation puts any set of pages but page 0 into the pool. *)
Open ==
  /\ ~open
  /\ open' = TRUE
  /\ pool' \subseteq Nat \ {0}
  /\ UNCHANGED held

Grant(c, g) ==
  /\ open
  /\ held[c] = NoGrant
  /\ RunOf(g) \subseteq pool
  /\ pool' = pool \ RunOf(g)
  /\ held' = [held EXCEPT ![c] = g]
  /\ UNCHANGED open

Return(c) ==
  /\ open
  /\ held[c] # NoGrant
  /\ pool' = pool \cup RunOf(held[c])
  /\ held' = [held EXCEPT ![c] = NoGrant]
  /\ UNCHANGED open

Next ==
  \/ Open
  \/ \E c \in Clients, b \in pool, n \in Runs \ {0} : Grant(c, [base |-> b, n |-> n])
  \/ \E c \in Clients : Return(c)

vars == <<open, pool, held>>

Spec == Init /\ [][Next]_vars

-----------------------------------------------------------------------------
TypeOK ==
  /\ open \in BOOLEAN
  /\ pool \subseteq Nat \ {0}
  /\ held \in [Clients -> [base : Nat, n : Nat]]

(* The promise, whatever the sizes of the requests: no page is granted     *)
(* twice, and no granted page is still in the pool.                        *)
Exclusive ==
  /\ \A c \in Clients : RunOf(held[c]) \cap pool = {}
  /\ \A c, d \in Clients : c # d => RunOf(held[c]) \cap RunOf(held[d]) = {}

-----------------------------------------------------------------------------
(* The promise holds of the abstract allocator, and so of pmm.c wherever   *)
(* pmm.c implements it.                                                    *)
GrantsAreReal == \A c \in Clients : RunOf(held[c]) \subseteq Nat \ {0}

Closed == ~open => \A c \in Clients : held[c] = NoGrant

ExclusiveInv == TypeOK /\ Exclusive /\ GrantsAreReal /\ Closed

THEOREM PageAllocatorExclusive ==
  ASSUME Runs \subseteq Nat
  PROVE  Spec => []Exclusive
  <1>1. Init => ExclusiveInv
    <2> SUFFICES ASSUME Init PROVE ExclusiveInv
      OBVIOUS
    <2>1. RunOf(NoGrant) = {} /\ NoGrant \in [base : Nat, n : Nat]
      BY DEF RunOf, NoGrant
    <2>2. \A c \in Clients : held[c] = NoGrant
      BY DEF Init
    <2>3. QED
      BY <2>1, <2>2 DEF Init, ExclusiveInv, TypeOK, Exclusive, GrantsAreReal, Closed
  <1>2. ExclusiveInv /\ [Next]_vars => ExclusiveInv'
    <2> SUFFICES ASSUME ExclusiveInv, [Next]_vars PROVE ExclusiveInv'
      OBVIOUS
    <2> USE DEF ExclusiveInv, TypeOK, Exclusive, GrantsAreReal, Closed
    <2>0. RunOf(NoGrant) = {} /\ NoGrant \in [base : Nat, n : Nat]
      BY DEF RunOf, NoGrant
    <2>1. CASE Open
      BY <2>0, <2>1 DEF Open
    <2>2. ASSUME NEW c \in Clients, NEW b \in pool, NEW n \in Runs \ {0},
                 Grant(c, [base |-> b, n |-> n])
          PROVE  ExclusiveInv'
      <3> DEFINE g == [base |-> b, n |-> n]
      <3>1. g \in [base : Nat, n : Nat]
        OBVIOUS
      <3>2. /\ RunOf(g) \subseteq pool /\ pool' = pool \ RunOf(g)
            /\ held' = [held EXCEPT ![c] = g] /\ UNCHANGED open
        BY <2>2 DEF Grant
      <3>3. held'[c] = g /\ \A d \in Clients \ {c} : held'[d] = held[d]
        BY <3>2
      <3> HIDE DEF g
      <3>4. held' \in [Clients -> [base : Nat, n : Nat]]
        BY <3>1, <3>2
      <3>5. \A d \in Clients : d # c => RunOf(held'[d]) \cap RunOf(g) = {}
        BY <3>2, <3>3
      <3>6. Exclusive'
        BY <3>2, <3>3, <3>5
      <3>7. open'
        BY <2>2, <3>2 DEF Grant
      <3>9. RunOf(held'[c]) \subseteq Nat \ {0}
        BY <3>2, <3>3
      <3>10. GrantsAreReal' /\ Closed'
        BY <3>3, <3>7, <3>9
      <3>11. QED
        BY <3>2, <3>4, <3>6, <3>10
    <2>3. ASSUME NEW c \in Clients, Return(c) PROVE ExclusiveInv'
      <3>1. /\ pool' = pool \cup RunOf(held[c])
            /\ held' = [held EXCEPT ![c] = NoGrant] /\ UNCHANGED open
            /\ held[c] # NoGrant
        BY <2>3 DEF Return
      <3>2. held'[c] = NoGrant /\ \A d \in Clients \ {c} : held'[d] = held[d]
        BY <3>1
      <3> QED
        BY <2>0, <3>1, <3>2
    <2>4. CASE UNCHANGED vars
      BY <2>4 DEF vars
    <2> QED
      BY <2>1, <2>2, <2>3, <2>4 DEF Next
  <1>3. ExclusiveInv => Exclusive
    BY DEF ExclusiveInv
  <1> QED
    BY <1>1, <1>2, <1>3, PTL DEF Spec

=============================================================================
