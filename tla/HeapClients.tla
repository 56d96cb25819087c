---------------------------- MODULE HeapClients -----------------------------
(***************************************************************************)
(* The heap of Liballoc.tla over the page source that liballoc.c relies    *)
(* on: it returns the address of as many pages as it was asked for, which  *)
(* nothing else uses, or NULL.                                             *)
(***************************************************************************)
EXTENDS Liballoc

CONSTANTS
  Sites,    \* the addresses at which the page source may place a major
  Products  \* the byte counts they ask of kcalloc: not all, as it is mostly a kmalloc

ASSUME ProductsAssumption == Products \subseteq Requests

ASSUME SitesAssumption == \A a \in Sites : a \in Nat \ {0} /\ a % l_pageSize = 0

MajorEnd(m) == m + major[m].size

(* The answers of liballoc_alloc to a request for a block of `size` bytes.  *)
Answers(size) ==
  {NULL} \cup
  {a \in Sites : \A m \in DOMAIN major :
     a + PagesFor(size) * l_pageSize <= m \/ MajorEnd(m) <= a}

MallocStep(t) ==
  \/ StartWalk(t) \/ VisitMajor(t) \/ Place(t) \/ VisitMinor(t) \/ NextMajor(t)
  \/ \E a \in Answers(Size(t)) : CreateRoot(t, a) \/ Grow(t, a)

ReallocStep(t) == ReallocAcquire(t) \/ Copy(t) \/ Drop(t)

Next ==
  \E t \in Threads :
    \/ \E n \in Requests : Malloc(t, "malloc", n)
    \/ \E n \in Products : Malloc(t, "calloc", n)
    \/ \E r \in own[t] : Free(t, r)
    \/ \E ptr \in DOMAIN info : FreeAgain(t, ptr)
    \/ \E r \in own[t], n \in Requests : Realloc(t, r, n)
    \/ MallocStep(t)
    \/ ReallocStep(t)

Spec == Init /\ [][Next]_vars

(* A thread that holds the lock runs on: the scheduler has nothing else to *)
(* run on its CPU.  Spinning on the lock gets no such promise.             *)
FairSpec == Spec /\ \A t \in Threads : WF_vars(MallocStep(t))

-----------------------------------------------------------------------------
(* The blocks in use, and those of one major. *)
Live == {h \in DOMAIN minor : minor[h].magic = "MAGIC"}

BlocksOf(m) == {h \in Live : minor[h].block = m}

TypeOK ==
  /\ heap_lock \in Threads \cup {Nobody}
  /\ \A m \in DOMAIN major :
       /\ major[m].prev \in DOMAIN major \cup {NULL}
       /\ major[m].next \in DOMAIN major \cup {NULL}
       /\ major[m].first \in DOMAIN minor \cup {NULL}
       /\ major[m].usage \in MajorHeader .. major[m].size
  /\ \A h \in Live :
       /\ minor[h].prev \in DOMAIN minor \cup {NULL}
       /\ minor[h].next \in DOMAIN minor \cup {NULL}
       /\ minor[h].block \in DOMAIN major
  /\ l_memRoot \in DOMAIN major \cup {NULL}
  /\ l_allocated \in Nat
  /\ l_inuse \in Nat
  /\ \A t \in Threads :
       /\ pc[t] \in {"idle", "root", "major", "place", "minor", "next", "grow1", "grow5",
                     "acquire", "copy", "drop", "fault"}
       /\ pc[t] \in {"root", "major", "place", "minor", "next", "grow1", "grow5"}
            => heap_lock = t

(* The list of a major is the list of its blocks by address: each block    *)
(* ends before the next begins, the last one inside the major, and the     *)
(* links agree in both directions.                                         *)
BlocksAreInOrder ==
  \A m \in DOMAIN major :
    LET B == BlocksOf(m)
        After(h)  == {x \in B : x > h}
        Before(h) == {x \in B : x < h}
    IN /\ major[m].first \in B \cup {NULL}
       /\ \A h \in B :
            /\ h >= m + MajorHeader /\ EndOf(h) <= MajorEnd(m)
            /\ (major[m].first = h) = (Before(h) = {})
            /\ IF After(h) = {} THEN minor[h].next = NULL
               ELSE /\ minor[h].next \in After(h)
                    /\ \A x \in After(h) : EndOf(h) <= x /\ minor[h].next <= x
            /\ IF Before(h) = {} THEN minor[h].prev = NULL
               ELSE /\ minor[h].prev \in Before(h)
                    /\ \A x \in Before(h) : x <= minor[h].prev

(* The majors form one list from l_memRoot, linked in both directions:     *)
(* whatever holds the root and all that next leads to holds them all.  And *)
(* l_bestBet points into it: no search follows a pointer into pages that   *)
(* were given back.                                                        *)
ClosedUnderNext(S) == \A m \in S \ {NULL} : major[m].next \in S

MajorsFormAList ==
  LET links == DOMAIN major \cup {NULL}
  IN /\ l_memRoot \in links /\ l_bestBet \in links
     /\ \A m \in DOMAIN major :
          /\ major[m].next \in links /\ major[m].prev \in links
          /\ (major[m].prev = NULL) = (m = l_memRoot)
          /\ major[m].prev # NULL => major[major[m].prev].next = m
          /\ major[m].next # NULL => major[major[m].next].prev = m
     /\ \A S \in SUBSET links :
          l_memRoot \in S /\ ClosedUnderNext(S) => DOMAIN major \subseteq S

(* The counters, which the search trusts, are exact, and whenever the lock *)
(* is free every major holds a block: an idle heap keeps no pages.         *)
CountersAreExact ==
  /\ \A m \in DOMAIN major :
       major[m].usage =
         MajorHeader + SumFunction([h \in BlocksOf(m) |-> minor[h].size + MinorHeader])
  /\ l_inuse = SumFunction([h \in Live |-> minor[h].size])
  /\ l_allocated = SumFunction([m \in DOMAIN major |-> major[m].size])
  /\ heap_lock = Nobody => \A m \in DOMAIN major : BlocksOf(m) # {}

(* What the callers own are the blocks of the heap, each one of them once, *)
(* as long as they asked, and UNALIGN finds its header.                    *)
Regions ==
  (UNION {own[t] : t \in Threads})
    \cup {[ptr |-> call[t].new, n |-> call[t].n] : t \in {u \in Threads : call[u].new # NULL}}

OwnersHaveTheirBlocks ==
  /\ \A t, u \in Threads : t # u => own[t] \cap own[u] = {}
  /\ Cardinality({r.ptr : r \in Regions}) = Cardinality(Live)
  /\ \A r \in Regions :
       LET h == HeaderOf(r.ptr)
       IN /\ h \in Live
          /\ minor[h].req_size = r.n
          /\ h + MinorHeader + ALIGN_INFO <= r.ptr
          /\ r.ptr + r.n <= EndOf(h)

(* krealloc gives up the lock with the old block in hand: until its copy   *)
(* is made the block stays in the heap and its own, and the bytes that it  *)
(* set out to copy fit into both blocks.                                   *)
Holds(ptr, n) ==
  /\ ptr \in DOMAIN info
  /\ HeaderOf(ptr) \in Live
  /\ minor[HeaderOf(ptr)].req_size >= n

CopyStaysInside ==
  \A t \in Threads :
    pc[t] \in {"acquire", "copy", "drop"} =>
      /\ \E r \in own[t] : r.ptr = call[t].old
      /\ Holds(call[t].old, call[t].len)
      /\ call[t].new # NULL => Holds(call[t].new, call[t].len)

(* Pages are only asked for when no gap fits: wherever the search started, *)
(* it has been everywhere.                                                 *)
GrowsOnlyWhenFull ==
  [][\A t \in Threads :
       /\ pc[t] \in {"major", "next"}
       /\ pc'[t] \in {"grow1", "grow5"}
       => \A m \in DOMAIN major :
            /\ BlocksOf(m) # {}
            /\ major[m].first - m - MajorHeader < Need(t)
            /\ \A h \in BlocksOf(m) : GapBehind(h) < Need(t)]_vars

(* Every kmalloc gives the lock back: its search ends. *)
LockIsReleased == [](heap_lock # Nobody => <>(heap_lock = Nobody))

(* The heap implements the regions that its callers think in. *)
Abstract == INSTANCE HeapRegions WITH live <- Regions

ImplementsHeapRegions == Abstract!Spec

=============================================================================
