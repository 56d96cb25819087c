------------------------------ MODULE Liballoc ------------------------------
(***************************************************************************)
(* The kernel heap, olive/src/mm/liballoc/liballoc.c.  A "major" is a run  *)
(* of pages that starts with a header; the blocks in it, the "minors",     *)
(* are headers followed by their bytes, in the order of their addresses.   *)
(* Both are kept here as functions from the address of the header.         *)
(*                                                                         *)
(* kmalloc holds the heap's lock over a search that is modelled one loop   *)
(* iteration per action.  The critical sections of kfree and krealloc are  *)
(* straight-line code and one action each; krealloc gives the lock up      *)
(* between them.                                                           *)
(*                                                                         *)
(* The page source, liballoc_alloc, is a parameter a of the actions that   *)
(* call it: the address it returns, or NULL.  HeapClients gives it the     *)
(* contract that liballoc.c relies on, OliveHeap the kernel's wrappers.    *)
(* Definitions named Bad are faulty variants, as in PMM.tla.               *)
(***************************************************************************)
EXTENDS Integers, FiniteSets, Functions

CONSTANTS
  Threads,      \* the callers
  Requests,     \* the byte counts they ask for
  MaxBlocks,    \* bound: blocks that one caller holds at a time
  Careless,     \* may a caller hand in a pointer that it freed before?
  MajorHeader,  \* sizeof(struct liballoc_major)
  MinorHeader,  \* sizeof(struct liballoc_minor)
  ALIGNMENT,
  ALIGN_INFO,
  l_pageSize,
  l_pageCount

ASSUME RequestsAssumption == Requests \subseteq Nat

ASSUME SizesAssumption ==
  /\ MajorHeader \in Nat \ {0}
  /\ MinorHeader \in Nat \ {0}
  /\ ALIGNMENT \in Nat \ {0}
  /\ ALIGN_INFO \in Nat \ {0}
  /\ l_pageSize \in Nat \ {0}
  /\ l_pageCount \in Nat \ {0}

VARIABLES
  heap_lock,    \* the thread that holds the lock, or Nobody
  major, minor, \* the headers in memory, by address
  info,         \* the byte that ALIGN leaves in front of a returned pointer
  l_memRoot, l_bestBet,
  l_allocated, l_inuse,
  pc,           \* where each thread stands
  call,         \* the kmalloc that it is in, and the krealloc around it
  walk,         \* the locals of the search, which only the lock's holder has
  own           \* client: the blocks each thread holds, records [ptr, n]

totals == <<l_allocated, l_inuse>>
blocks == <<minor, info, l_inuse>>
heap   == <<major, blocks, l_memRoot, l_bestBet, l_allocated>>
vars   == <<heap_lock, heap, pc, call, walk, own>>

NULL   == 0
Nobody == "nobody"

ASSUME ThreadsAssumption == Nobody \notin Threads

NoCall == [op |-> "none", n |-> 0, old |-> NULL, len |-> 0, new |-> NULL]
NoWalk == [maj |-> NULL, min |-> NULL, bestSize |-> 0, startedBet |-> FALSE]

Init ==
  /\ heap_lock = Nobody
  /\ major = <<>>
  /\ minor = <<>>
  /\ info = <<>>
  /\ l_memRoot = NULL
  /\ l_bestBet = NULL
  /\ l_allocated = 0
  /\ l_inuse = 0
  /\ pc = [t \in Threads |-> "idle"]
  /\ call = [t \in Threads |-> NoCall]
  /\ walk = NoWalk
  /\ own = [t \in Threads |-> {}]

-----------------------------------------------------------------------------
(* Memory, sizes and addresses. *)

(* A store to an address of which nothing was known, or of which this was. *)
Stored(memory, a, x) == [b \in DOMAIN memory \cup {a} |-> IF b = a THEN x ELSE memory[b]]

(* What ALIGN adds to a pointer: room for the info byte, then the rest of  *)
(* the way to an aligned address.                                          *)
Diff(p) == ALIGN_INFO + ((-(p + ALIGN_INFO)) % ALIGNMENT)

(* The pointer that kmalloc returns for the block at h. *)
Payload(h) == h + MinorHeader + Diff(h + MinorHeader)

(* UNALIGN, and the header in front of the result. *)
HeaderOf(ptr) == ptr - info[ptr] - MinorHeader

(* `size`: the request and the room that ALIGN may need. *)
BadBytes(n) == n + ALIGN_INFO
Bytes(n) == n + ALIGNMENT + ALIGN_INFO

Room(m) == major[m].size - major[m].usage

EndOf(h) == h + MinorHeader + minor[h].size

\* allocate_new_page: the pages for a first block of `size` bytes.
BadPagesFor(size) ==
  LET st == (size + MajorHeader + MinorHeader) \div l_pageSize
  IN  IF st < l_pageCount THEN l_pageCount ELSE st
PagesFor(size) ==
  LET bytes == size + MajorHeader + MinorHeader
      st    == IF bytes % l_pageSize = 0
               THEN bytes \div l_pageSize
               ELSE bytes \div l_pageSize + 1
  IN  IF st < l_pageCount THEN l_pageCount ELSE st

NewMajor(size, before) ==
  [prev |-> before, next |-> NULL, pages |-> PagesFor(size),
   size |-> PagesFor(size) * l_pageSize, usage |-> MajorHeader, first |-> NULL]

-----------------------------------------------------------------------------
(* Entering and leaving kmalloc. *)
Goto(t, l) == pc' = [pc EXCEPT ![t] = l]

(* A wild access in one thread takes the kernel down: isr_handler halts.   *)
Running == \A t \in Threads : pc[t] # "fault"

Acquire(t) == Running /\ heap_lock = Nobody /\ heap_lock' = t

(* kmalloc, kcalloc with a product of n, and krealloc(NULL, n). *)
Malloc(t, op, n) ==
  /\ pc[t] = "idle"
  /\ Cardinality(own[t]) < MaxBlocks
  /\ Acquire(t)
  /\ Goto(t, "root")
  /\ call' = [call EXCEPT ![t] = [NoCall EXCEPT !.op = op, !.n = n]]
  /\ UNCHANGED <<heap, walk, own>>

Size(t) == Bytes(call[t].n)
Need(t) == Size(t) + MinorHeader

(* kmalloc returns ptr, and its caller goes on: kcalloc clears the block,  *)
(* which faults at NULL, and krealloc has its copy to make.                *)
Return(t, ptr) ==
  LET kcallocFaults == call[t].op = "calloc" /\ ptr = NULL /\ call[t].n > 0
  IN /\ heap_lock' = Nobody
     /\ walk' = NoWalk
     /\ Goto(t, IF call[t].op = "realloc" THEN "copy"
                ELSE IF kcallocFaults THEN "fault" ELSE "idle")
     /\ call' = [call EXCEPT ![t] = IF call[t].op = "realloc"
                                    THEN [@ EXCEPT !.new = ptr]
                                    ELSE NoCall]
     /\ own' = IF ptr = NULL \/ call[t].op = "realloc" THEN own
               ELSE [own EXCEPT ![t] = @ \cup {[ptr |-> ptr, n |-> call[t].n]}]

-----------------------------------------------------------------------------
(* The search of kmalloc.  When it starts there is a list to search.       *)
CreateRoot(t, a) ==
  /\ pc[t] = "root"
  /\ l_memRoot = NULL
  /\ IF a = NULL
     THEN Return(t, NULL) /\ UNCHANGED <<major, l_memRoot, l_allocated>>
     ELSE /\ major' = Stored(major, a, NewMajor(Size(t), NULL))
          /\ l_memRoot' = a
          /\ l_allocated' = l_allocated + major'[a].size
          /\ UNCHANGED <<heap_lock, pc, call, walk, own>>
  /\ UNCHANGED <<blocks, l_bestBet>>

StartWalk(t) ==
  LET best == IF l_bestBet = NULL THEN 0 ELSE Room(l_bestBet)
      bet  == l_bestBet # NULL /\ best > Need(t)
  IN /\ pc[t] = "root"
     /\ l_memRoot # NULL
     /\ walk' = [maj        |-> IF bet THEN l_bestBet ELSE l_memRoot,
                 min        |-> NULL,
                 bestSize   |-> best,
                 startedBet |-> bet]
     /\ Goto(t, "major")
     /\ UNCHANGED <<heap_lock, heap, call, own>>

(* Past the last major: once more from the root when the search began at   *)
(* the best bet, else a new major.                                         *)
BadPastTheEnd(t, w, grow) ==
  IF w.startedBet
  THEN /\ Goto(t, "major")
       /\ walk' = [w EXCEPT !.maj = l_memRoot]
  ELSE Goto(t, grow) /\ walk' = w

PastTheEnd(t, w, grow) ==
  IF w.startedBet
  THEN /\ Goto(t, "major")
       /\ walk' = [w EXCEPT !.maj = l_memRoot, !.startedBet = FALSE]
  ELSE Goto(t, grow) /\ walk' = w

(* Case 1 skips a major that has not enough room in total.                 *)
VisitMajor(t) ==
  LET m      == walk.maj
      better == walk.bestSize < Room(m)
      w      == [walk EXCEPT !.bestSize = IF better THEN Room(m) ELSE @]
  IN /\ pc[t] = "major"
     /\ l_bestBet' = IF better THEN m ELSE l_bestBet
     /\ \/ /\ Room(m) >= Need(t)
           /\ Goto(t, "place")
           /\ walk' = w
        \/ /\ Room(m) < Need(t)
           /\ major[m].next # NULL
           /\ walk' = [w EXCEPT !.maj = major[m].next]
           /\ UNCHANGED pc
        \/ /\ Room(m) < Need(t)
           /\ major[m].next = NULL
           /\ PastTheEnd(t, w, "grow1")
     /\ UNCHANGED <<heap_lock, major, blocks, l_memRoot, l_allocated, call, own>>

(* Cases 1 and 5 append a major.  Case 1 uses it at once, case 5 visits it *)
(* like any other.                                                         *)
Grow(t, a) ==
  /\ pc[t] \in {"grow1", "grow5"}
  /\ IF a = NULL
     THEN Return(t, NULL) /\ UNCHANGED <<major, l_allocated>>
     ELSE /\ major' = Stored([major EXCEPT ![walk.maj].next = a], a,
                             NewMajor(Size(t), walk.maj))
          /\ l_allocated' = l_allocated + major'[a].size
          /\ walk' = [walk EXCEPT !.maj = a]
          /\ Goto(t, IF pc[t] = "grow1" THEN "place" ELSE "major")
          /\ UNCHANGED <<heap_lock, call, own>>
  /\ UNCHANGED <<blocks, l_memRoot, l_bestBet>>

(* A block at h, between the neighbours pr and nx.  Its bytes overwrite    *)
(* the headers of freed blocks that were still legible there.              *)
Legible(h, size) ==
  {x \in DOMAIN minor : \/ minor[x].magic = "MAGIC"
                        \/ Payload(x) <= h
                        \/ h + MinorHeader + size <= x}

Insert(t, h, pr, nx) ==
  LET m    == walk.maj
      ptr  == Payload(h)
      kept == Legible(h, Size(t)) \ {h}
      new  == [prev |-> pr, next |-> nx, block |-> m, magic |-> "MAGIC",
               size |-> Size(t), req_size |-> call[t].n]
  IN /\ minor' = [x \in kept \cup {h} |->
                    CASE x = h  -> new
                      [] x = pr -> [minor[x] EXCEPT !.next = h]
                      [] x = nx -> [minor[x] EXCEPT !.prev = h]
                      [] OTHER  -> minor[x]]
     /\ info' = Stored(Restrict(info, {p \in DOMAIN info : HeaderOf(p) \in kept}), ptr,
                       Diff(h + MinorHeader))
     /\ major' = [major EXCEPT ![m].usage = @ + Need(t),
                               ![m].first = IF pr = NULL THEN h ELSE @]
     /\ l_inuse' = l_inuse + Size(t)
     /\ Return(t, ptr)
     /\ UNCHANGED <<l_memRoot, l_bestBet, l_allocated>>

(* Case 2, an empty major; case 3, in front of its first block; else case  *)
(* 4 starts with that block.                                               *)
BadPlace(t) ==
  LET m == walk.maj
  IN /\ pc[t] = "place"
     /\ IF major[m].first = NULL
        THEN Insert(t, m + MajorHeader, NULL, NULL)
        ELSE /\ walk' = [walk EXCEPT !.min = major[m].first]
             /\ Goto(t, "minor")
             /\ UNCHANGED <<heap_lock, heap, call, own>>

Place(t) ==
  LET m     == walk.maj
      first == major[m].first
  IN /\ pc[t] = "place"
     /\ IF first = NULL \/ first - m - MajorHeader >= Need(t)
        THEN Insert(t, m + MajorHeader, NULL, first)
        ELSE /\ walk' = [walk EXCEPT !.min = first]
             /\ Goto(t, "minor")
             /\ UNCHANGED <<heap_lock, heap, call, own>>

(* Case 4: the gap behind a block, up to the next block or the major's end. *)
BadGapBehind(h) ==
  LET m == minor[h].block
  IN (IF minor[h].next = NULL THEN m + major[m].size ELSE minor[h].next)
       - h - minor[h].size
GapBehind(h) ==
  LET m == minor[h].block
  IN (IF minor[h].next = NULL THEN m + major[m].size ELSE minor[h].next) - EndOf(h)

VisitMinor(t) ==
  LET h == walk.min
  IN /\ pc[t] = "minor"
     /\ IF GapBehind(h) >= Need(t)
        THEN Insert(t, EndOf(h), h, minor[h].next)
        ELSE /\ walk' = [walk EXCEPT !.min = minor[h].next]
             /\ Goto(t, IF minor[h].next = NULL THEN "next" ELSE "minor")
             /\ UNCHANGED <<heap_lock, heap, call, own>>

(* Case 5: no gap in this major fits. *)
NextMajor(t) ==
  /\ pc[t] = "next"
  /\ IF major[walk.maj].next = NULL
     THEN PastTheEnd(t, walk, "grow5")
     ELSE /\ walk' = [walk EXCEPT !.maj = major[walk.maj].next]
          /\ Goto(t, "major")
  /\ UNCHANGED <<heap_lock, heap, call, own>>

-----------------------------------------------------------------------------
(* kfree's critical section.  An illegible or dead header only counts as   *)
(* an error.  A major without blocks leaves the list, and goes back to the *)
(* page source.                                                            *)
WithoutMinor(h) ==
  LET b == minor[h]
  IN [x \in DOMAIN minor |->
        CASE x = h      -> [b EXCEPT !.magic = "DEAD"]
          [] x = b.next -> [minor[x] EXCEPT !.prev = b.prev]
          [] x = b.prev -> [minor[x] EXCEPT !.next = b.next]
          [] OTHER      -> minor[x]]

\* Headers that nothing can read any more are not kept.
Readable(minors, majors) ==
  {x \in DOMAIN minors : /\ minors[x].block \in majors
                         /\ minors[x].magic = "MAGIC" \/ Careless}

WithoutMajor(m) ==
  [x \in DOMAIN major \ {m} |->
     CASE x = major[m].prev -> [major[x] EXCEPT !.next = major[m].next]
       [] x = major[m].next -> [major[x] EXCEPT !.prev = major[m].prev]
       [] OTHER             -> major[x]]

Unused(h) ==
  LET b == minor[h]
  IN [major[b.block] EXCEPT !.usage = @ - (b.size + MinorHeader),
                            !.first = IF b.prev = NULL THEN b.next ELSE @]

Empties(h) == Unused(h).first = NULL

BadForgetBet(m) == l_bestBet
ForgetBet(m) == IF l_bestBet = m THEN NULL ELSE l_bestBet

Unlink(h) ==
  LET m == minor[h].block
      freed == [major EXCEPT ![m] = Unused(h)]
  IN /\ l_inuse' = l_inuse - minor[h].size
     /\ IF Empties(h)
        THEN /\ major' = WithoutMajor(m)
             /\ l_memRoot' = IF l_memRoot = m THEN major[m].next ELSE l_memRoot
             /\ l_bestBet' = ForgetBet(m)
             /\ l_allocated' = l_allocated - major[m].size
        ELSE /\ major' = freed
             /\ l_bestBet' = IF /\ l_bestBet # NULL
                                /\ freed[m].size - freed[m].usage
                                     > freed[l_bestBet].size - freed[l_bestBet].usage
                             THEN m ELSE l_bestBet
             /\ UNCHANGED <<l_memRoot, l_allocated>>
     /\ LET left == WithoutMinor(h)
            kept == Readable(left, DOMAIN major')
        IN /\ minor' = Restrict(left, kept)
           /\ info' = Restrict(info, {p \in DOMAIN info : HeaderOf(p) \in kept})

BadFreeBlock(ptr) == Unlink(HeaderOf(ptr))
FreeBlock(ptr) ==
  IF minor[HeaderOf(ptr)].magic = "MAGIC" THEN Unlink(HeaderOf(ptr)) ELSE UNCHANGED heap

(* kfree, and krealloc(ptr, 0). *)
Free(t, r) ==
  /\ pc[t] = "idle"
  /\ Running /\ heap_lock = Nobody
  /\ r \in own[t]
  /\ FreeBlock(r.ptr)
  /\ own' = [own EXCEPT ![t] = @ \ {r}]
  /\ UNCHANGED <<heap_lock, pc, call, walk>>

(* kfree or krealloc of a pointer that was freed before, while its header  *)
(* still says so.                                                          *)
FreeAgain(t, ptr) ==
  /\ Careless
  /\ pc[t] = "idle"
  /\ Running /\ heap_lock = Nobody
  /\ minor[HeaderOf(ptr)].magic = "DEAD"
  /\ FreeBlock(ptr)
  /\ UNCHANGED <<heap_lock, pc, call, walk, own>>

-----------------------------------------------------------------------------
(* krealloc(r.ptr, n), first critical section: a block that was asked for  *)
(* with n bytes or more stays where it is.                                 *)
BadRealloc(t, r, n) ==
  /\ pc[t] = "idle"
  /\ Running /\ heap_lock = Nobody
  /\ r \in own[t]
  /\ n > r.n
  /\ FreeBlock(r.ptr)
  /\ call' = [call EXCEPT ![t] = [op |-> "realloc", n |-> n, old |-> r.ptr,
                                   len |-> r.n, new |-> NULL]]
  /\ Goto(t, "acquire")
  /\ UNCHANGED <<heap_lock, walk, own>>

Realloc(t, r, n) ==
  LET h == HeaderOf(r.ptr)
  IN /\ pc[t] = "idle"
     /\ Running /\ heap_lock = Nobody
     /\ r \in own[t]
     /\ n > 0
     /\ IF minor[h].req_size >= n
        THEN /\ minor' = [minor EXCEPT ![h].req_size = n]
             /\ own' = [own EXCEPT ![t] = (@ \ {r}) \cup {[ptr |-> r.ptr, n |-> n]}]
             /\ UNCHANGED <<pc, call>>
        ELSE /\ call' = [call EXCEPT ![t] = [op |-> "realloc", n |-> n, old |-> r.ptr,
                                             len |-> minor[h].req_size, new |-> NULL]]
             /\ Goto(t, "acquire")
             /\ UNCHANGED <<minor, own>>
     /\ UNCHANGED <<heap_lock, major, info, l_inuse, l_memRoot, l_bestBet, l_allocated, walk>>

(* Its kmalloc. *)
ReallocAcquire(t) ==
  /\ pc[t] = "acquire"
  /\ Acquire(t)
  /\ Goto(t, "root")
  /\ UNCHANGED <<heap, call, walk, own>>

(* Its memcpy, into a block that it did not check for NULL.                *)
Copy(t) ==
  /\ pc[t] = "copy"
  /\ Running
  /\ IF call[t].new = NULL /\ call[t].len > 0
     THEN Goto(t, "fault") /\ UNCHANGED own
     ELSE /\ Goto(t, "drop")
          /\ own' = IF call[t].new = NULL THEN own
                    ELSE [own EXCEPT ![t] =
                            @ \cup {[ptr |-> call[t].new, n |-> call[t].n]}]
  /\ UNCHANGED <<heap_lock, heap, call, walk>>

(* Its kfree of the old block. *)
Drop(t) ==
  /\ pc[t] = "drop"
  /\ Running /\ heap_lock = Nobody
  /\ FreeBlock(call[t].old)
  /\ own' = [own EXCEPT ![t] = {r \in @ : r.ptr # call[t].old}]
  /\ call' = [call EXCEPT ![t] = NoCall]
  /\ Goto(t, "idle")
  /\ UNCHANGED <<heap_lock, walk>>

=============================================================================
