----------------------------- MODULE HeapProofs -----------------------------
(***************************************************************************)
(* Proofs about the kernel heap over the page source that it relies on,    *)
(* for every number of callers, every sizes of headers, pages and          *)
(* requests, and every place that the page source may give to a major.     *)
(***************************************************************************)
EXTENDS HeapClients, FiniteSetTheorems, WellFoundedInduction, TLAPS

-----------------------------------------------------------------------------
(* The inductive invariant.  First the headers in memory. *)
Major == [prev : Nat, next : Nat, pages : Nat, size : Nat, usage : Int, first : Nat]

Minor == [prev : Nat, next : Nat, block : Nat, magic : {"MAGIC", "DEAD"},
          size : Nat, req_size : Nat]

HeaderTypes ==
  /\ DOMAIN major \subseteq Nat \ {NULL} /\ IsFiniteSet(DOMAIN major)
  /\ major \in [DOMAIN major -> Major]
  /\ DOMAIN minor \subseteq Nat \ {NULL} /\ IsFiniteSet(DOMAIN minor)
  /\ minor \in [DOMAIN minor -> Minor]
  /\ DOMAIN info \subseteq Nat

MajorsApart ==
  /\ \A m \in DOMAIN major : MajorHeader <= major[m].size
  /\ \A m, k \in DOMAIN major : m # k => MajorEnd(m) <= k \/ MajorEnd(k) <= m

(* The blocks of a major are a list in the order of their addresses, said  *)
(* of each block and its neighbours.                                       *)
FirstInv(m) ==
  /\ major[m].first \in BlocksOf(m) \cup {NULL}
  /\ major[m].first = NULL => major[m].usage = MajorHeader
  /\ \A h \in BlocksOf(m) : major[m].first # NULL /\ major[m].first <= h

InsideInv(h) ==
  /\ minor[h].block \in DOMAIN major
  /\ minor[h].block + MajorHeader <= h
  /\ EndOf(h) <= MajorEnd(minor[h].block)
  /\ Bytes(minor[h].req_size) <= minor[h].size

NextInv(h) ==
  LET n == minor[h].next
      B == BlocksOf(minor[h].block)
  IN \/ n = NULL /\ \A x \in B : x <= h
     \/ /\ n \in B /\ n # NULL /\ minor[n].prev = h /\ EndOf(h) <= n
        /\ \A x \in B : x <= h \/ n <= x

PrevInv(h) ==
  LET p == minor[h].prev
  IN \/ p = NULL /\ major[minor[h].block].first = h
     \/ p \in BlocksOf(minor[h].block) /\ p # NULL /\ minor[p].next = h

BlockInv ==
  /\ \A m \in DOMAIN major : FirstInv(m)
  /\ \A h \in Live : InsideInv(h) /\ NextInv(h) /\ PrevInv(h)

(* The byte that UNALIGN reads leads from a pointer back to its header.    *)
InfoInv ==
  /\ \A p \in DOMAIN info : HeaderOf(p) \in DOMAIN minor /\ info[p] = Diff(HeaderOf(p) + MinorHeader)
  /\ \A h \in Live : Payload(h) \in DOMAIN info /\ info[Payload(h)] = Diff(h + MinorHeader)

HeapInv == HeaderTypes /\ MajorsApart /\ MajorsFormAList /\ BlockInv /\ InfoInv

(* Where each call stands. *)
Search == {"root", "major", "place", "minor", "next", "grow1", "grow5"}

Calls == [op : {"none", "malloc", "calloc", "realloc"}, n : Nat, old : Nat, len : Nat, new : Nat]

Walks == [maj : Nat, min : Nat, bestSize : Int, startedBet : BOOLEAN]

LockInv ==
  /\ heap_lock \in Threads \cup {Nobody}
  /\ pc \in [Threads -> Search \cup {"idle", "acquire", "copy", "drop", "fault"}]
  /\ \A t \in Threads : pc[t] \in Search <=> heap_lock = t

WalkInv ==
  /\ walk \in Walks
  /\ \A t \in Threads :
       /\ pc[t] \in Search \ {"root"} => walk.maj \in DOMAIN major
       /\ pc[t] = "place" /\ major[walk.maj].first = NULL =>
            MajorHeader + Need(t) <= major[walk.maj].size
       /\ pc[t] = "minor" => walk.min \in BlocksOf(walk.maj)
       /\ pc[t] \in {"grow1", "grow5"} => major[walk.maj].next = NULL

CallInv ==
  /\ call \in [Threads -> Calls]
  /\ \A t \in Threads :
       /\ pc[t] = "idle" => call[t] = NoCall
       /\ pc[t] \in Search => call[t].op # "none"
       /\ pc[t] \in {"acquire", "copy", "drop"} => call[t].op = "realloc"
       /\ call[t].new # NULL => pc[t] \in {"copy", "drop"}
       /\ call[t].op = "realloc" =>
            /\ [ptr |-> call[t].old, n |-> call[t].len] \in own[t]
            /\ call[t].len < call[t].n

(* The owners of the blocks. *)
Region == [ptr : Nat \ {NULL}, n : Nat]

New(t) == [ptr |-> call[t].new, n |-> call[t].n]

HasBlock(r) ==
  /\ r.ptr \in DOMAIN info
  /\ HeaderOf(r.ptr) \in Live
  /\ minor[HeaderOf(r.ptr)].req_size = r.n

OwnInv ==
  /\ own \in [Threads -> SUBSET Region]
  /\ \A t \in Threads : \A r \in own[t] :
       /\ HasBlock(r)
       /\ \A u \in Threads : \A s \in own[u] : r.ptr = s.ptr => r = s /\ t = u

NewInv ==
  \A t \in Threads : call[t].new # NULL =>
    /\ HasBlock(New(t))
    /\ \A u \in Threads : call[u].new = call[t].new => u = t
    /\ \/ pc[t] = "drop" /\ New(t) \in own[t] /\ call[t].new # call[t].old
       \/ pc[t] = "copy" /\ \A u \in Threads : \A r \in own[u] : r.ptr # call[t].new

EachHasOwner == \A h \in Live : \E r \in Regions : HeaderOf(r.ptr) = h

OwnerInv == OwnInv /\ NewInv /\ EachHasOwner

HeapOK == HeapInv /\ LockInv /\ WalkInv /\ CallInv /\ OwnerInv

-----------------------------------------------------------------------------
(* Arithmetic: ALIGN, and the pages of a new major. *)
LEMMA RoundedUp ==
  ASSUME NEW a \in Nat \ {0}, NEW y \in Int
  PROVE  (y + ((-y) % a)) % a = 0
  <1> DEFINE r == (-y) % a
             q == (-y) \div a
  <1>1. -y = a * q + r /\ q \in Int /\ r \in Int
    OBVIOUS
  <1>2. y + r = a * (-q)
    BY <1>1
  <1>3. \A k \in Int : (a * k) % a = 0
    OBVIOUS
  <1> QED
    BY <1>1, <1>2, <1>3

LEMMA DiffType ==
  ASSUME NEW p \in Nat
  PROVE  /\ Diff(p) \in Nat /\ ALIGN_INFO <= Diff(p) /\ Diff(p) < ALIGN_INFO + ALIGNMENT
         /\ (p + Diff(p)) % ALIGNMENT = 0
  <1>1. /\ Diff(p) \in Nat /\ ALIGN_INFO <= Diff(p) /\ Diff(p) < ALIGN_INFO + ALIGNMENT
    BY SizesAssumption DEF Diff
  <1> DEFINE y == p + ALIGN_INFO
  <1>2. y \in Int /\ p + Diff(p) = y + ((-y) % ALIGNMENT)
    BY SizesAssumption DEF Diff
  <1> HIDE DEF y
  <1>3. (y + ((-y) % ALIGNMENT)) % ALIGNMENT = 0
    BY <1>2, RoundedUp, SizesAssumption
  <1> QED
    BY <1>1, <1>2, <1>3

LEMMA PayloadType ==
  ASSUME NEW h \in Nat
  PROVE  /\ Payload(h) \in Nat /\ Payload(h) % ALIGNMENT = 0
         /\ h + MinorHeader + ALIGN_INFO <= Payload(h)
         /\ Payload(h) < h + MinorHeader + ALIGN_INFO + ALIGNMENT
         /\ h < Payload(h)
  <1> DEFINE q == h + MinorHeader
             d == Diff(q)
  <1>1. q \in Nat /\ h \in Nat /\ q = h + MinorHeader /\ Payload(h) = q + d
    BY SizesAssumption DEF Payload
  <1>2. d \in Nat /\ ALIGN_INFO <= d /\ d < ALIGN_INFO + ALIGNMENT /\ (q + d) % ALIGNMENT = 0
    BY <1>1, DiffType
  <1> HIDE DEF q, d
  <1>3. Payload(h) % ALIGNMENT = 0
    BY <1>1, <1>2
  <1> QED
    BY <1>1, <1>2, <1>3, SizesAssumption

LEMMA SizeType ==
  ASSUME NEW n \in Nat
  PROVE  Bytes(n) \in Nat /\ n + ALIGNMENT + ALIGN_INFO = Bytes(n)
  BY SizesAssumption DEF Bytes

LEMMA NewMajorType ==
  ASSUME NEW size \in Nat, NEW before \in Nat
  PROVE  /\ NewMajor(size, before) \in Major
         /\ NewMajor(size, before).size = PagesFor(size) * l_pageSize
         /\ size + MajorHeader + MinorHeader <= PagesFor(size) * l_pageSize
  <1>1. PagesFor(size) \in Nat /\ size + MajorHeader + MinorHeader <= PagesFor(size) * l_pageSize
    BY SizesAssumption DEF PagesFor
  <1>2. PagesFor(size) * l_pageSize \in Nat
    BY <1>1, SizesAssumption
  <1> QED
    BY <1>1, <1>2, SizesAssumption DEF NewMajor, Major, NULL

-----------------------------------------------------------------------------
(* What the invariant says of headers. *)
LEMMA MajorTypes ==
  ASSUME HeaderTypes, NEW m \in DOMAIN major
  PROVE  /\ m \in Nat \ {0} /\ major[m] \in Major
         /\ major[m].prev \in Nat /\ major[m].next \in Nat /\ major[m].pages \in Nat
         /\ major[m].size \in Nat /\ major[m].usage \in Int /\ major[m].first \in Nat
         /\ MajorEnd(m) \in Nat /\ m <= MajorEnd(m)
  BY DEF HeaderTypes, Major, MajorEnd, NULL

LEMMA MinorTypes ==
  ASSUME HeaderTypes, NEW h \in DOMAIN minor
  PROVE  /\ h \in Nat \ {0} /\ minor[h] \in Minor
         /\ minor[h].prev \in Nat /\ minor[h].next \in Nat /\ minor[h].block \in Nat
         /\ minor[h].magic \in {"MAGIC", "DEAD"}
         /\ minor[h].size \in Nat /\ minor[h].req_size \in Nat
         /\ EndOf(h) \in Nat /\ h + MinorHeader + minor[h].size = EndOf(h) /\ h < EndOf(h)
  BY SizesAssumption DEF HeaderTypes, Minor, EndOf, NULL

LEMMA LiveFacts ==
  ASSUME HeapInv, NEW h \in Live
  PROVE  /\ h \in DOMAIN minor /\ h \in BlocksOf(minor[h].block)
         /\ InsideInv(h) /\ NextInv(h) /\ PrevInv(h)
         /\ HeaderOf(Payload(h)) = h /\ Payload(h) \in DOMAIN info
         /\ Payload(h) < EndOf(h)
  <1>1. h \in DOMAIN minor /\ h \in BlocksOf(minor[h].block)
        /\ InsideInv(h) /\ NextInv(h) /\ PrevInv(h)
    BY DEF HeapInv, BlockInv, Live, BlocksOf
  <1>2. h \in Nat /\ minor[h].req_size \in Nat /\ minor[h].size \in Nat
        /\ EndOf(h) = h + MinorHeader + minor[h].size
    BY <1>1, MinorTypes DEF HeapInv
  <1>3. Payload(h) \in DOMAIN info /\ info[Payload(h)] = Diff(h + MinorHeader)
    BY DEF HeapInv, InfoInv
  <1> DEFINE d == Diff(h + MinorHeader)
  <1>4. /\ h + MinorHeader \in Nat /\ Payload(h) = h + MinorHeader + d
        /\ HeaderOf(Payload(h)) = Payload(h) - d - MinorHeader
    BY <1>2, <1>3, SizesAssumption DEF HeaderOf, Payload
  <1>5. HeaderOf(Payload(h)) = h
    <2>1. d \in Nat
      BY <1>4, DiffType
    <2> HIDE DEF d
    <2> QED
      BY <1>2, <1>4, <2>1, SizesAssumption
  <1>6. Payload(h) < EndOf(h)
    <2>1. Payload(h) \in Nat /\ Payload(h) < h + MinorHeader + ALIGN_INFO + ALIGNMENT
      BY <1>2, PayloadType
    <2>2. minor[h].req_size + ALIGNMENT + ALIGN_INFO <= minor[h].size
      BY <1>1, <1>2, SizeType DEF InsideInv
    <2> QED
      BY <1>2, <2>1, <2>2, SizesAssumption
  <1> QED
    BY <1>1, <1>3, <1>5, <1>6

(* The blocks of one major lie apart, and so do those of any two.          *)
LEMMA BlocksApart ==
  ASSUME HeapInv, NEW m \in DOMAIN major, NEW h \in BlocksOf(m), NEW x \in BlocksOf(m), h < x
  PROVE  EndOf(h) <= x
  <1>1. h \in Live /\ x \in Live /\ minor[h].block = m
    BY DEF BlocksOf
  <1>2. h \in Nat /\ x \in Nat /\ EndOf(h) \in Nat /\ minor[h].next \in Nat
    BY <1>1, LiveFacts, MinorTypes DEF HeapInv
  <1>3. minor[h].next # NULL /\ EndOf(h) <= minor[h].next /\ minor[h].next <= x
    BY <1>1, <1>2, LiveFacts DEF NextInv
  <1> QED
    BY <1>2, <1>3

LEMMA LiveApart ==
  ASSUME HeapInv, NEW h \in Live, NEW x \in Live, h # x
  PROVE  EndOf(h) <= x \/ EndOf(x) <= h
  <1>1. /\ h \in Nat /\ x \in Nat /\ EndOf(h) \in Nat /\ EndOf(x) \in Nat
        /\ h < EndOf(h) /\ x < EndOf(x)
    BY LiveFacts, MinorTypes DEF HeapInv
  <1> DEFINE m == minor[h].block
             k == minor[x].block
  <1>2. h \in BlocksOf(m) /\ x \in BlocksOf(k) /\ m \in DOMAIN major /\ k \in DOMAIN major
    BY LiveFacts DEF InsideInv
  <1>3. CASE m = k
    BY <1>1, <1>2, <1>3, BlocksApart
  <1>4. CASE m # k
    <2>1. MajorEnd(m) <= k \/ MajorEnd(k) <= m
      BY <1>2, <1>4 DEF HeapInv, MajorsApart
    <2>2. /\ m + MajorHeader <= h /\ EndOf(h) <= MajorEnd(m)
          /\ k + MajorHeader <= x /\ EndOf(x) <= MajorEnd(k)
      BY LiveFacts DEF InsideInv
    <2>3. m \in Nat /\ k \in Nat /\ MajorEnd(m) \in Nat /\ MajorEnd(k) \in Nat
      BY <1>2, MajorTypes DEF HeapInv
    <2> HIDE DEF m, k
    <2> QED
      BY <1>1, <2>1, <2>2, <2>3, SizesAssumption
  <1> QED
    BY <1>3, <1>4

-----------------------------------------------------------------------------
(* A new block.  Where the search puts one there is a gap of m's.           *)
IsGap(t, h, pr, nx) ==
  LET m == walk.maj
      B == BlocksOf(m)
  IN /\ m \in DOMAIN major
     /\ m + MajorHeader <= h /\ h + Need(t) <= MajorEnd(m)
     /\ pr \in B \cup {NULL} /\ nx \in B \cup {NULL}
     /\ \/ pr = NULL /\ major[m].first = nx
        \/ pr # NULL /\ pr < h /\ minor[pr].next = nx
     /\ nx # NULL => h + Need(t) <= nx
     /\ \A x \in B : \/ x < h /\ EndOf(x) <= h /\ pr # NULL /\ x <= pr
                     \/ h + Need(t) <= x /\ nx # NULL /\ nx <= x

LEMMA NeedType ==
  ASSUME CallInv, NEW t \in Threads
  PROVE  /\ call[t].n \in Nat /\ Size(t) \in Nat /\ Need(t) \in Nat /\ Size(t) = Bytes(call[t].n)
         /\ Need(t) = Size(t) + MinorHeader
         /\ Size(t) = call[t].n + ALIGNMENT + ALIGN_INFO
  BY SizeType, SizesAssumption DEF CallInv, Calls, Size, Need, Bytes

LEMMA InsertMajors ==
  ASSUME HeapInv, CallInv, NEW t \in Threads, NEW h \in Nat \ {NULL}, NEW pr, NEW nx,
         IsGap(t, h, pr, nx), Insert(t, h, pr, nx)
  PROVE  /\ DOMAIN major' = DOMAIN major /\ major' \in [DOMAIN major' -> Major]
         /\ \A m \in DOMAIN major :
              /\ major'[m].prev = major[m].prev /\ major'[m].next = major[m].next
              /\ major'[m].size = major[m].size /\ MajorEnd(m)' = MajorEnd(m)
              /\ major'[m].first = IF m = walk.maj /\ pr = NULL THEN h ELSE major[m].first
              /\ major'[m].usage = IF m = walk.maj THEN major[m].usage + Need(t)
                                                   ELSE major[m].usage
         /\ UNCHANGED <<l_memRoot, l_bestBet>>
  <1>1. major' = [major EXCEPT ![walk.maj].usage = @ + Need(t),
                               ![walk.maj].first = IF pr = NULL THEN h ELSE @]
        /\ UNCHANGED <<l_memRoot, l_bestBet>>
    BY DEF Insert
  <1>2. walk.maj \in DOMAIN major /\ major \in [DOMAIN major -> Major] /\ Need(t) \in Nat
    BY NeedType DEF IsGap, HeapInv, HeaderTypes
  <1>3. /\ DOMAIN major' = DOMAIN major
        /\ \A m \in DOMAIN major :
              /\ major'[m].prev = major[m].prev /\ major'[m].next = major[m].next
              /\ major'[m].size = major[m].size /\ major'[m].pages = major[m].pages
              /\ major'[m].first = IF m = walk.maj /\ pr = NULL THEN h ELSE major[m].first
              /\ major'[m].usage = IF m = walk.maj THEN major[m].usage + Need(t)
                                                   ELSE major[m].usage
    BY <1>1, <1>2 DEF Major
  <1>4. major' \in [DOMAIN major' -> Major]
    BY <1>1, <1>2 DEF Major
  <1> QED
    BY <1>1, <1>3, <1>4 DEF MajorEnd

LEMMA GapIsFree ==
  ASSUME HeapInv, CallInv, NEW t \in Threads, NEW h \in Nat \ {NULL}, NEW pr, NEW nx,
         IsGap(t, h, pr, nx)
  PROVE  /\ h \notin Live
         /\ \A x \in Live : EndOf(x) <= h \/ h + Need(t) <= x
  <1>1. SUFFICES ASSUME NEW x \in Live
                 PROVE  EndOf(x) <= h \/ h + Need(t) <= x
    <2>1. h \in Live => h < EndOf(h) /\ EndOf(h) \in Nat
      BY MinorTypes, LiveFacts DEF HeapInv
    <2>2. Need(t) \in Nat \ {0}
      BY NeedType, SizesAssumption
    <2> QED
      BY <1>1, <2>1, <2>2
  <1> DEFINE m == walk.maj
             k == minor[x].block
  <1>2. /\ x \in Nat /\ EndOf(x) \in Nat /\ m \in DOMAIN major /\ k \in DOMAIN major
        /\ x \in BlocksOf(k) /\ k + MajorHeader <= x /\ EndOf(x) <= MajorEnd(k)
        /\ m \in Nat /\ k \in Nat /\ MajorEnd(m) \in Nat /\ MajorEnd(k) \in Nat
    BY LiveFacts, MinorTypes, MajorTypes DEF HeapInv, InsideInv, IsGap
  <1>3. CASE m = k
    BY <1>2, <1>3 DEF IsGap
  <1>4. CASE m # k
    <2>1. MajorEnd(m) <= k \/ MajorEnd(k) <= m
      BY <1>2, <1>4 DEF HeapInv, MajorsApart
    <2>2. m + MajorHeader <= h /\ h + Need(t) <= MajorEnd(m) /\ Need(t) \in Nat
      BY NeedType DEF IsGap
    <2> HIDE DEF m, k
    <2> QED
      BY <1>2, <2>1, <2>2, SizesAssumption
  <1> QED
    BY <1>3, <1>4

(* What Insert does to the headers of blocks. *)
MinorsInserted(t, h, pr, nx) ==
  /\ h \notin Live /\ h \in DOMAIN minor' /\ Live' = Live \cup {h}
  /\ DOMAIN minor' \subseteq DOMAIN minor \cup {h} /\ minor' \in [DOMAIN minor' -> Minor]
  /\ minor'[h].prev = pr /\ minor'[h].next = nx /\ minor'[h].block = walk.maj
  /\ minor'[h].size = Size(t) /\ minor'[h].req_size = call[t].n
  /\ \A x \in Live :
       /\ x # h /\ x \in DOMAIN minor' /\ EndOf(x)' = EndOf(x)
       /\ minor'[x].block = minor[x].block
       /\ minor'[x].size = minor[x].size /\ minor'[x].req_size = minor[x].req_size
       /\ minor'[x].next = IF x = pr THEN h ELSE minor[x].next
       /\ minor'[x].prev = IF x = nx THEN h ELSE minor[x].prev
  /\ DOMAIN minor' = (Legible(h, Size(t)) \ {h}) \cup {h}

LEMMA InsertMinors ==
  ASSUME HeapInv, CallInv, NEW t \in Threads, NEW h \in Nat \ {NULL}, NEW pr, NEW nx,
         IsGap(t, h, pr, nx), Insert(t, h, pr, nx)
  PROVE  MinorsInserted(t, h, pr, nx)
  <1> DEFINE kept == Legible(h, Size(t)) \ {h}
             new == [prev |-> pr, next |-> nx, block |-> walk.maj, magic |-> "MAGIC",
                     size |-> Size(t), req_size |-> call[t].n]
  <1>1. minor' = [x \in kept \cup {h} |->
                    CASE x = h  -> new
                      [] x = pr -> [minor[x] EXCEPT !.next = h]
                      [] x = nx -> [minor[x] EXCEPT !.prev = h]
                      [] OTHER  -> minor[x]]
    BY DEF Insert
  <1>2. h \notin Live /\ \A x \in Live : EndOf(x) <= h \/ h + Need(t) <= x
    BY GapIsFree
  <1>3. Live \subseteq kept /\ kept \subseteq DOMAIN minor /\ h \notin kept
    BY <1>2 DEF Live, Legible
  <1>4. /\ pr # h /\ nx # h /\ (pr = nx => pr = NULL)
        /\ pr \in Nat /\ nx \in Nat /\ walk.maj \in Nat /\ Size(t) \in Nat /\ call[t].n \in Nat
    <2>1. pr \in Live \cup {NULL} /\ nx \in Live \cup {NULL} /\ walk.maj \in Nat
      BY MajorTypes DEF IsGap, BlocksOf, HeapInv
    <2>2. pr \in Nat /\ nx \in Nat
      BY <2>1, LiveFacts, MinorTypes DEF HeapInv, NULL
    <2>3. pr # NULL => pr < h
      BY <2>1 DEF IsGap
    <2>4. nx # NULL => h + Need(t) <= nx
      BY DEF IsGap
    <2>5. Need(t) \in Nat \ {0} /\ Size(t) \in Nat /\ call[t].n \in Nat
      BY NeedType, SizesAssumption
    <2>6. pr # h /\ (nx # NULL => h < nx)
      BY <2>2, <2>3, <2>4, <2>5
    <2>7. pr = nx => pr = NULL
      BY <2>2, <2>3, <2>6
    <2>8. nx # h
      BY <2>2, <2>6
    <2> QED
      BY <2>1, <2>2, <2>5, <2>6, <2>7, <2>8
  <1>5. new \in Minor
    BY <1>4 DEF Minor
  <1>6. \A x \in DOMAIN minor : minor[x] \in Minor
    BY DEF HeapInv, HeaderTypes
  <1> HIDE DEF kept, new
  <1>7. DOMAIN minor' = kept \cup {h} /\ minor'[h] = new
    <2>1. DOMAIN minor' = kept \cup {h}
      BY <1>1, Zenon
    <2>2. h \in kept \cup {h}
      OBVIOUS
    <2>3. minor'[h] = CASE h = h  -> new
                      [] h = pr -> [minor[h] EXCEPT !.next = h]
                      [] h = nx -> [minor[h] EXCEPT !.prev = h]
                      [] OTHER  -> minor[h]
      BY <1>1, <2>2, Zenon
    <2> QED
      BY <1>4, <2>1, <2>3
  <1>8. \A x \in kept :
          minor'[x] = CASE x = pr -> [minor[x] EXCEPT !.next = h]
                        [] x = nx -> [minor[x] EXCEPT !.prev = h]
                        [] OTHER  -> minor[x]
    BY <1>1, <1>3
  <1>9. \A x \in kept :
          /\ minor'[x].block = minor[x].block /\ minor'[x].magic = minor[x].magic
          /\ minor'[x].size = minor[x].size /\ minor'[x].req_size = minor[x].req_size
          /\ minor'[x].next = IF x = pr THEN h ELSE minor[x].next
          /\ minor'[x].prev = IF x = nx THEN h ELSE minor[x].prev
          /\ minor'[x] \in Minor
    <2> SUFFICES ASSUME NEW x \in kept
                 PROVE  /\ minor'[x].block = minor[x].block /\ minor'[x].magic = minor[x].magic
                        /\ minor'[x].size = minor[x].size /\ minor'[x].req_size = minor[x].req_size
                        /\ minor'[x].next = IF x = pr THEN h ELSE minor[x].next
                        /\ minor'[x].prev = IF x = nx THEN h ELSE minor[x].prev
                        /\ minor'[x] \in Minor
      OBVIOUS
    <2>1. minor[x] \in Minor /\ x \in DOMAIN minor /\ x # NULL
      BY <1>3, <1>6 DEF HeapInv, HeaderTypes
    <2>2. CASE x = pr
      <3>1. minor'[x] = [minor[x] EXCEPT !.next = h] /\ x # nx
        BY <1>4, <1>8, <2>1, <2>2
      <3> QED
        BY <2>1, <2>2, <3>1 DEF Minor
    <2>3. CASE x = nx
      <3>1. minor'[x] = [minor[x] EXCEPT !.prev = h] /\ x # pr
        BY <1>4, <1>8, <2>1, <2>3
      <3> QED
        BY <2>1, <2>3, <3>1 DEF Minor
    <2>4. CASE x # pr /\ x # nx
      <3>1. minor'[x] = minor[x]
        BY <1>8, <2>4
      <3> QED
        BY <2>1, <2>4, <3>1
    <2> QED
      BY <2>2, <2>3, <2>4
  <1>10. Live' = Live \cup {h}
    <2>1. new.magic = "MAGIC"
      BY DEF new
    <2> QED
      BY <1>3, <1>7, <1>9, <2>1 DEF Live
  <1>11. minor' \in [DOMAIN minor' -> Minor]
    <2>1. \A x \in DOMAIN minor' : minor'[x] \in Minor
      BY <1>5, <1>7, <1>9
    <2> QED
      BY <1>1, <1>7, <2>1
  <1>12. \A x \in Live : EndOf(x)' = EndOf(x)
    BY <1>3, <1>9 DEF EndOf
  <1> QED
    BY <1>2, <1>3, <1>7, <1>9, <1>10, <1>11, <1>12 DEF new, kept, MinorsInserted


(* A pointer leads to its header, and the header back to its pointer.      *)
LEMMA PointerOfHeader ==
  ASSUME HeapInv, NEW p \in DOMAIN info
  PROVE  HeaderOf(p) \in DOMAIN minor /\ p = Payload(HeaderOf(p))
  <1>1. HeaderOf(p) \in DOMAIN minor /\ info[p] = Diff(HeaderOf(p) + MinorHeader) /\ p \in Nat
    BY DEF HeapInv, InfoInv, HeaderTypes
  <1>2. HeaderOf(p) \in Nat
    BY <1>1, MinorTypes DEF HeapInv
  <1> DEFINE d == info[p]
  <1>3. HeaderOf(p) = p - d - MinorHeader /\ Payload(HeaderOf(p)) = HeaderOf(p) + MinorHeader + d
    BY <1>1 DEF HeaderOf, Payload
  <1>4. d \in Nat
    <2>1. HeaderOf(p) + MinorHeader \in Nat
      BY <1>2, SizesAssumption
    <2> QED
      BY <1>1, <2>1, DiffType
  <1> HIDE DEF d
  <1> QED
    BY <1>1, <1>2, <1>3, <1>4, SizesAssumption

LEMMA InsertInfo ==
  ASSUME HeapInv, CallInv, NEW t \in Threads, NEW h \in Nat \ {NULL}, NEW pr, NEW nx,
         IsGap(t, h, pr, nx), Insert(t, h, pr, nx)
  PROVE  /\ InfoInv' /\ DOMAIN info' \subseteq Nat
         /\ HeaderOf(Payload(h))' = h /\ Payload(h) \in DOMAIN info'
         /\ \A p \in DOMAIN info : HeaderOf(p) \in Live =>
              p # Payload(h) /\ p \in DOMAIN info' /\ HeaderOf(p)' = HeaderOf(p)
  <1> DEFINE kept == Legible(h, Size(t)) \ {h}
             ptr  == Payload(h)
             d    == Diff(h + MinorHeader)
             old  == {p \in DOMAIN info : HeaderOf(p) \in kept}
  <1>1. info' = Stored(Restrict(info, old), ptr, d)
    BY DEF Insert
  <1>2. /\ DOMAIN info' = old \cup {ptr} /\ info'[ptr] = d
        /\ \A p \in old : p # ptr => info'[p] = info[p]
    BY <1>1 DEF Stored, Restrict
  <1>3. /\ ptr \in Nat /\ ptr = h + MinorHeader + d /\ d \in Nat
        /\ h < ptr /\ ptr < h + MinorHeader + ALIGN_INFO + ALIGNMENT
    <2>1. h + MinorHeader \in Nat
      BY SizesAssumption
    <2> QED
      BY <2>1, PayloadType, DiffType DEF Payload
  <1>4. DOMAIN minor' = kept \cup {h} /\ Live \subseteq kept /\ h \notin kept /\ Live' = Live \cup {h}
    <2>0. MinorsInserted(t, h, pr, nx)
      BY InsertMinors
    <2>1. DOMAIN minor' = kept \cup {h} /\ Live' = Live \cup {h}
      BY <2>0 DEF MinorsInserted
    <2>2. \A x \in Live : x \in DOMAIN minor' /\ x # h
      BY <2>0 DEF MinorsInserted
    <2> QED
      BY <2>1, <2>2
  <1>5. DOMAIN info \subseteq Nat
    BY DEF HeapInv, HeaderTypes
  <1>6. \A p \in DOMAIN info : HeaderOf(p) \in Live => p # ptr /\ p \in old
    <2> SUFFICES ASSUME NEW p \in DOMAIN info, HeaderOf(p) \in Live
                 PROVE  p # ptr
      BY <1>4
    <2>1. p = Payload(HeaderOf(p)) /\ p < EndOf(HeaderOf(p)) /\ HeaderOf(p) < p
          /\ p \in Nat /\ HeaderOf(p) \in Nat /\ EndOf(HeaderOf(p)) \in Nat
      BY <1>5, PointerOfHeader, LiveFacts, MinorTypes, PayloadType DEF HeapInv
    <2>2. EndOf(HeaderOf(p)) <= h \/ h + Need(t) <= HeaderOf(p)
      BY GapIsFree
    <2>3. ptr < h + Need(t) /\ Need(t) \in Nat
      BY <1>3, NeedType, SizesAssumption
    <2> HIDE DEF ptr
    <2> QED
      BY <1>3, <2>1, <2>2, <2>3
  <1>7. HeaderOf(ptr)' = h
    BY <1>2, <1>3, SizesAssumption DEF HeaderOf
  <1>8. \A p \in old : p # ptr => HeaderOf(p)' = HeaderOf(p)
    BY <1>2 DEF HeaderOf
  <1>9. InfoInv'
    <2>1. \A p \in DOMAIN info' : /\ HeaderOf(p)' \in DOMAIN minor'
                                  /\ info'[p] = Diff(HeaderOf(p)' + MinorHeader)
      <3> SUFFICES ASSUME NEW p \in DOMAIN info'
                   PROVE  HeaderOf(p)' \in DOMAIN minor' /\ info'[p] = Diff(HeaderOf(p)' + MinorHeader)
        OBVIOUS
      <3>1. CASE p = ptr
        BY <1>2, <1>4, <1>7, <3>1
      <3>2. CASE p # ptr
        <4>1. p \in old /\ p \in DOMAIN info
          BY <1>2, <3>2
        <4>2. info[p] = Diff(HeaderOf(p) + MinorHeader)
          BY <4>1 DEF HeapInv, InfoInv
        <4> QED
          BY <1>2, <1>4, <1>8, <3>2, <4>1, <4>2
      <3> QED
        BY <3>1, <3>2
    <2>2. \A x \in Live' : Payload(x) \in DOMAIN info' /\ info'[Payload(x)] = Diff(x + MinorHeader)
      <3> SUFFICES ASSUME NEW x \in Live'
                   PROVE  Payload(x) \in DOMAIN info' /\ info'[Payload(x)] = Diff(x + MinorHeader)
        OBVIOUS
      <3>1. CASE x = h
        BY <1>2, <3>1
      <3>2. CASE x # h
        <4>1. x \in Live
          BY <1>4, <3>2
        <4>2. Payload(x) \in DOMAIN info /\ info[Payload(x)] = Diff(x + MinorHeader)
          BY <4>1 DEF HeapInv, InfoInv
        <4>3. HeaderOf(Payload(x)) = x
          BY <4>1, LiveFacts
        <4>4. Payload(x) # ptr /\ Payload(x) \in old
          BY <1>6, <4>1, <4>2, <4>3
        <4> QED
          BY <1>2, <4>2, <4>4
      <3> QED
        BY <3>1, <3>2
    <2>3. \A x : Payload(x)' = Payload(x) /\ Diff(x)' = Diff(x)
      BY DEF Payload, Diff
    <2> QED
      BY <2>1, <2>2, <2>3 DEF InfoInv
  <1>10. DOMAIN info' \subseteq Nat
    BY <1>2, <1>3, <1>5
  <1> QED
    BY <1>2, <1>6, <1>7, <1>8, <1>9, <1>10

LEMMA GapNeighbours ==
  ASSUME HeapInv, CallInv, NEW t \in Threads, NEW h \in Nat \ {NULL}, NEW pr, NEW nx,
         IsGap(t, h, pr, nx)
  PROVE  nx # NULL => nx \in BlocksOf(walk.maj) /\ minor[nx].prev = pr
  <1> DEFINE m == walk.maj
             B == BlocksOf(m)
  <1>1. SUFFICES ASSUME nx # NULL
                 PROVE  minor[nx].prev = pr
    BY DEF IsGap
  <1>2. m \in DOMAIN major /\ nx \in B /\ nx \in Live /\ minor[nx].block = m
    BY <1>1 DEF IsGap, BlocksOf
  <1>3. CASE pr = NULL
    <2> DEFINE p == minor[nx].prev
    <2>1. major[m].first = nx
      BY <1>3 DEF IsGap
    <2>2. SUFFICES ASSUME p # NULL
                   PROVE  FALSE
      BY <1>3
    <2>3. p \in B /\ minor[p].next = nx /\ p \in Live
      BY <1>2, <2>2, LiveFacts DEF PrevInv, BlocksOf
    <2>4. EndOf(p) <= nx /\ p < EndOf(p) /\ EndOf(p) \in Nat /\ p \in Nat /\ nx \in Nat
      BY <1>1, <1>2, <2>3, LiveFacts, MinorTypes DEF NextInv, HeapInv
    <2>5. nx <= p
      BY <1>2, <2>1, <2>3 DEF HeapInv, BlockInv, FirstInv
    <2> QED
      BY <2>4, <2>5
  <1>4. CASE pr # NULL
    <2>1. pr \in B /\ pr \in Live /\ minor[pr].next = nx
      BY <1>4 DEF IsGap, BlocksOf
    <2> QED
      BY <1>1, <2>1, LiveFacts DEF NextInv
  <1> QED
    BY <1>3, <1>4

LEMMA InsertBlocks ==
  ASSUME HeapInv, CallInv, NEW t \in Threads, NEW h \in Nat \ {NULL}, NEW pr, NEW nx,
         IsGap(t, h, pr, nx), Insert(t, h, pr, nx)
  PROVE  BlockInv'
  <1> PICK m : m = walk.maj
    OBVIOUS
  <1> DEFINE B == BlocksOf(m)
  <1>1. /\ h \notin Live /\ Live' = Live \cup {h} /\ m \in DOMAIN major /\ DOMAIN major' = DOMAIN major
        /\ minor'[h].prev = pr /\ minor'[h].next = nx /\ minor'[h].block = m
        /\ minor'[h].size = Size(t) /\ minor'[h].req_size = call[t].n
        /\ \A x \in Live :
             /\ x # h /\ EndOf(x)' = EndOf(x) /\ minor'[x].block = minor[x].block
             /\ minor'[x].size = minor[x].size /\ minor'[x].req_size = minor[x].req_size
             /\ minor'[x].next = IF x = pr THEN h ELSE minor[x].next
             /\ minor'[x].prev = IF x = nx THEN h ELSE minor[x].prev
        /\ \A k \in DOMAIN major :
             /\ major'[k].first = IF k = m /\ pr = NULL THEN h ELSE major[k].first
             /\ k # m => major'[k].usage = major[k].usage
             /\ MajorEnd(k)' = MajorEnd(k)
    <2>0. MinorsInserted(t, h, pr, nx)
      BY InsertMinors
    <2>1. /\ minor'[h].prev = pr /\ minor'[h].next = nx /\ minor'[h].block = m
          /\ minor'[h].size = Size(t) /\ minor'[h].req_size = call[t].n
      BY <2>0 DEF MinorsInserted
    <2>2. h \notin Live /\ Live' = Live \cup {h}
      BY <2>0 DEF MinorsInserted
    <2>3. \A x \in Live :
             /\ x # h /\ EndOf(x)' = EndOf(x) /\ minor'[x].block = minor[x].block
             /\ minor'[x].size = minor[x].size /\ minor'[x].req_size = minor[x].req_size
             /\ minor'[x].next = IF x = pr THEN h ELSE minor[x].next
             /\ minor'[x].prev = IF x = nx THEN h ELSE minor[x].prev
      BY <2>0 DEF MinorsInserted
    <2>4. /\ DOMAIN major' = DOMAIN major
          /\ \A k \in DOMAIN major :
             /\ major'[k].first = IF k = m /\ pr = NULL THEN h ELSE major[k].first
             /\ k # m => major'[k].usage = major[k].usage
             /\ MajorEnd(k)' = MajorEnd(k)
      BY InsertMajors
    <2>5. m \in DOMAIN major
      BY DEF IsGap
    <2> QED
      BY <2>1, <2>2, <2>3, <2>4, <2>5
  <1>2. \A k \in DOMAIN major : BlocksOf(k)' = IF k = m THEN BlocksOf(k) \cup {h} ELSE BlocksOf(k)
    BY <1>1 DEF BlocksOf
  <1>3. /\ \A x \in Live : /\ x \in Nat \ {0} /\ EndOf(x) \in Nat /\ x < EndOf(x)
                           /\ minor[x].next \in Nat /\ minor[x].prev \in Nat
        /\ h \in Nat \ {0} /\ Need(t) \in Nat \ {0} /\ Need(t) = Size(t) + MinorHeader
        /\ Size(t) \in Nat
        /\ \A k \in DOMAIN major : MajorEnd(k) \in Nat /\ major[k].first \in Nat
    BY LiveFacts, MinorTypes, MajorTypes, NeedType, SizesAssumption DEF HeapInv, NULL
  <1>4. B \subseteq Live /\ \A k : \A x \in BlocksOf(k) : x \in Live /\ minor[x].block = k
    BY DEF BlocksOf
  <1>5. \A k \in DOMAIN major : FirstInv(k)'
    <2> SUFFICES ASSUME NEW k \in DOMAIN major
                 PROVE  FirstInv(k)'
      OBVIOUS
    <2>1. FirstInv(k)
      BY DEF HeapInv, BlockInv
    <2>2. CASE k # m
      BY <1>1, <1>2, <2>1, <2>2 DEF FirstInv
    <2>3. CASE k = m /\ pr = NULL
      <3>1. major'[m].first = h /\ BlocksOf(m)' = B \cup {h}
        BY <1>1, <1>2, <2>3
      <3>2. \A x \in B : h + Need(t) <= x
        BY <2>3 DEF IsGap
      <3>3. \A x \in B \cup {h} : h # NULL /\ h <= x
        BY <1>3, <1>4, <3>2
      <3> QED
        BY <2>3, <3>1, <3>3 DEF FirstInv
    <2>4. CASE k = m /\ pr # NULL
      <3>1. major'[m].first = major[m].first /\ BlocksOf(m)' = B \cup {h}
        BY <1>1, <1>2, <2>4
      <3>2. pr \in B /\ pr < h /\ pr \in Nat
        BY <1>3, <1>4, <2>4 DEF IsGap
      <3>3. major[m].first # NULL /\ major[m].first <= pr /\ major[m].first \in Nat
        BY <1>1, <1>3, <2>1, <2>4, <3>2 DEF FirstInv
      <3>4. major[m].first <= h
        BY <1>3, <3>2, <3>3
      <3> QED
        BY <2>1, <2>4, <3>1, <3>3, <3>4 DEF FirstInv
    <2> QED
      BY <2>2, <2>3, <2>4
  <1>6. \A x \in Live' : InsideInv(x)'
    <2> SUFFICES ASSUME NEW x \in Live'
                 PROVE  InsideInv(x)'
      OBVIOUS
    <2>1. CASE x = h
      <3>1. EndOf(h)' = h + Need(t) /\ MajorEnd(m)' = MajorEnd(m)
        BY <1>1, <1>3, SizesAssumption DEF EndOf
      <3>2. m + MajorHeader <= h /\ h + Need(t) <= MajorEnd(m)
        BY DEF IsGap
      <3>3. Size(t) = Bytes(call[t].n) /\ Bytes(call[t].n)' = Bytes(call'[t].n)
        BY DEF Size, Bytes
      <3>4. Bytes(minor[h].req_size)' = Size(t)
        BY <1>1, <3>3 DEF Bytes
      <3> QED
        BY <1>1, <1>3, <2>1, <3>1, <3>2, <3>4 DEF InsideInv
    <2>2. CASE x \in Live
      <3>1. InsideInv(x)
        BY <2>2, LiveFacts
      <3>2. Bytes(minor[x].req_size)' = Bytes(minor[x].req_size)
        BY <1>1, <2>2 DEF Bytes
      <3>3. EndOf(x)' = EndOf(x) /\ minor'[x].block = minor[x].block
            /\ minor'[x].size = minor[x].size /\ MajorEnd(minor[x].block)' = MajorEnd(minor[x].block)
        BY <1>1, <2>2, <3>1 DEF InsideInv
      <3> QED
        BY <1>1, <3>1, <3>2, <3>3 DEF InsideInv
    <2> QED
      BY <1>1, <2>1, <2>2
  <1>7. \A x \in Live' : NextInv(x)'
    <2> SUFFICES ASSUME NEW x \in Live'
                 PROVE  NextInv(x)'
      OBVIOUS
    <2>1. CASE x = h
      <3>1. NextInv(h)' = \/ nx = NULL /\ \A y \in B \cup {h} : y <= h
                          \/ /\ nx \in B \cup {h} /\ nx # NULL /\ minor'[nx].prev = h
                             /\ EndOf(h)' <= nx
                             /\ \A y \in B \cup {h} : y <= h \/ nx <= y
        <4>1. BlocksOf(minor[h].block)' = B \cup {h} /\ minor'[h].next = nx
          BY <1>1, <1>2
        <4> QED
          BY <4>1 DEF NextInv
      <3>2. EndOf(h)' = h + Need(t)
        BY <1>1, <1>3, SizesAssumption DEF EndOf
      <3>3. \A y \in B : y <= h \/ (nx # NULL /\ nx <= y)
        BY <1>3, <1>4 DEF IsGap
      <3>4. nx # NULL => nx \in B /\ h + Need(t) <= nx /\ minor'[nx].prev = h
        BY <1>1, <1>4 DEF IsGap
      <3> QED
        BY <1>3, <2>1, <3>1, <3>2, <3>3, <3>4
    <2>2. CASE x \in Live /\ minor[x].block # m
      <3> PICK k : k = minor[x].block
        OBVIOUS
      <3>1. NextInv(x) /\ k \in DOMAIN major /\ pr \in B \cup {NULL} /\ nx \in B \cup {NULL}
        BY <2>2, LiveFacts DEF InsideInv, IsGap
      <3>2. x # pr /\ \A y \in BlocksOf(k) : y # nx
        BY <1>3, <1>4, <2>2, <3>1 DEF NULL
      <3>3. minor'[x].next = minor[x].next /\ minor'[x].block = k /\ BlocksOf(k)' = BlocksOf(k)
            /\ EndOf(x)' = EndOf(x) /\ \A y \in BlocksOf(k) : minor'[y].prev = minor[y].prev
        BY <1>1, <1>2, <1>4, <2>2, <3>1, <3>2
      <3> QED
        BY <3>1, <3>3 DEF NextInv
    <2>3. CASE x \in Live /\ minor[x].block = m /\ x = pr
      <3>1. NextInv(x)' = \/ h = NULL /\ \A y \in B \cup {h} : y <= x
                          \/ /\ h \in B \cup {h} /\ h # NULL /\ minor'[h].prev = x
                             /\ EndOf(x) <= h
                             /\ \A y \in B \cup {h} : y <= x \/ h <= y
        BY <1>1, <1>2, <2>3 DEF NextInv
      <3>2. x \in B /\ x # NULL /\ x < h
        BY <1>3, <2>3 DEF IsGap, BlocksOf, NULL
      <3>3. EndOf(x) <= h
        BY <1>3, <2>3, <3>2 DEF IsGap
      <3>4. \A y \in B : y <= x \/ h <= y
        BY <1>3, <1>4, <2>3 DEF IsGap
      <3> QED
        BY <1>1, <1>3, <2>3, <3>1, <3>3, <3>4
    <2>4. CASE x \in Live /\ minor[x].block = m /\ x # pr
      <3> DEFINE n == minor[x].next
      <3>1. x \in B /\ NextInv(x)
        BY <2>4, LiveFacts
      <3>2. NextInv(x)' = \/ n = NULL /\ \A y \in B \cup {h} : y <= x
                          \/ /\ n \in B \cup {h} /\ n # NULL /\ minor'[n].prev = x
                             /\ EndOf(x) <= n
                             /\ \A y \in B \cup {h} : y <= x \/ n <= y
        BY <1>1, <1>2, <2>4 DEF NextInv
      <3>3. x < h => pr \in B /\ x < pr /\ pr < h
        BY <1>3, <1>4, <2>4, <3>1 DEF IsGap
      <3>4. CASE n = NULL
        <4>1. \A y \in B : y <= x
          BY <2>4, <3>1, <3>4 DEF NextInv
        <4>2. h <= x
          BY <1>3, <1>4, <3>1, <3>3, <4>1
        <4> QED
          BY <3>2, <3>4, <4>1, <4>2
      <3>5. CASE n # NULL
        <4>1. n \in B /\ minor[n].prev = x /\ EndOf(x) <= n /\ \A y \in B : y <= x \/ n <= y
          BY <2>4, <3>1, <3>5 DEF NextInv
        <4>2. n # nx
          BY <2>4, <3>5, <4>1, GapNeighbours
        <4>3. minor'[n].prev = x
          BY <1>1, <1>4, <4>1, <4>2
        <4>4. h <= x \/ n <= h
          BY <1>3, <1>4, <3>1, <3>3, <4>1
        <4> QED
          BY <3>2, <3>5, <4>1, <4>3, <4>4
      <3> QED
        BY <3>4, <3>5
    <2> QED
      BY <1>1, <2>1, <2>2, <2>3, <2>4
  <1>8. \A x \in Live' : PrevInv(x)'
    <2> SUFFICES ASSUME NEW x \in Live'
                 PROVE  PrevInv(x)'
      OBVIOUS
    <2>1. CASE x = h
      <3>1. pr # NULL => pr \in B /\ minor'[pr].next = h
        BY <1>1, <1>4 DEF IsGap
      <3> QED
        BY <1>1, <1>2, <2>1, <3>1 DEF PrevInv
    <2>2. CASE x \in Live /\ x = nx
      <3>1. nx \in B /\ minor[x].block = m
        BY <1>3, <1>4, <2>2 DEF IsGap, NULL
      <3>2. minor'[x].prev = h /\ minor'[x].block = m /\ minor'[h].next = x /\ h \in BlocksOf(m)'
        BY <1>1, <1>2, <2>2, <3>1
      <3> QED
        BY <1>3, <3>2 DEF PrevInv
    <2>3. CASE x \in Live /\ x # nx
      <3> PICK k : k = minor[x].block
        OBVIOUS
      <3> DEFINE p == minor[x].prev
      <3>1. PrevInv(x) /\ k \in DOMAIN major
        BY <2>3, LiveFacts DEF InsideInv
      <3>2. minor'[x].prev = p /\ minor'[x].block = k
        BY <1>1, <2>3
      <3>3. CASE p = NULL
        <4>1. major[k].first = x
          BY <3>1, <3>3, <2>3, <1>3 DEF PrevInv, BlocksOf, NULL
        <4>2. ~(k = m /\ pr = NULL)
          BY <2>3, <4>1 DEF IsGap
        <4>3. major'[k].first = x
          BY <1>1, <3>1, <4>1, <4>2
        <4> QED
          BY <3>2, <3>3, <4>3 DEF PrevInv
      <3>4. CASE p # NULL
        <4>1. p \in BlocksOf(k) /\ minor[p].next = x /\ p \in Live
          BY <1>4, <3>1, <3>4 DEF PrevInv
        <4>2. p # pr
          BY <2>3, <3>4, <4>1 DEF IsGap
        <4>3. minor'[p].next = x /\ p \in BlocksOf(k)'
          BY <1>1, <1>2, <3>1, <4>1, <4>2
        <4> QED
          BY <3>2, <3>4, <4>3 DEF PrevInv
      <3> QED
        BY <3>3, <3>4
    <2> QED
      BY <1>1, <2>1, <2>2, <2>3
  <1> QED
    BY <1>1, <1>5, <1>6, <1>7, <1>8 DEF BlockInv

LEMMA SameListOfMajors ==
  ASSUME MajorsFormAList, DOMAIN major' = DOMAIN major, UNCHANGED l_memRoot,
         l_bestBet' \in DOMAIN major \cup {NULL},
         \A m \in DOMAIN major :
           major'[m].prev = major[m].prev /\ major'[m].next = major[m].next
  PROVE  MajorsFormAList'
  <1> DEFINE links == DOMAIN major \cup {NULL}
  <1>1. /\ l_memRoot' \in links /\ l_bestBet' \in links
        /\ \A m \in DOMAIN major' :
             /\ major'[m].next \in links /\ major'[m].prev \in links
             /\ (major'[m].prev = NULL) = (m = l_memRoot')
             /\ major'[m].prev # NULL => major'[major'[m].prev].next = m
             /\ major'[m].next # NULL => major'[major'[m].next].prev = m
    BY DEF MajorsFormAList
  <1>2. ASSUME NEW S \in SUBSET links, l_memRoot' \in S, ClosedUnderNext(S)'
        PROVE  DOMAIN major' \subseteq S
    <2>1. ClosedUnderNext(S)
      BY <1>2 DEF ClosedUnderNext
    <2> QED
      BY <1>2, <2>1 DEF MajorsFormAList
  <1> QED
    BY <1>1, <1>2 DEF MajorsFormAList

LEMMA InsertKeepsHeap ==
  ASSUME HeapInv, CallInv, NEW t \in Threads, NEW h \in Nat \ {NULL}, NEW pr, NEW nx,
         IsGap(t, h, pr, nx), Insert(t, h, pr, nx)
  PROVE  HeapInv'
  <1>1. /\ DOMAIN major' = DOMAIN major /\ major' \in [DOMAIN major' -> Major]
        /\ \A m \in DOMAIN major :
             /\ major'[m].prev = major[m].prev /\ major'[m].next = major[m].next
             /\ major'[m].size = major[m].size /\ MajorEnd(m)' = MajorEnd(m)
        /\ UNCHANGED <<l_memRoot, l_bestBet>>
    BY InsertMajors
  <1>2. MajorsFormAList'
    <2>1. l_bestBet \in DOMAIN major \cup {NULL}
      BY DEF HeapInv, MajorsFormAList
    <2> QED
      BY <1>1, <2>1, SameListOfMajors DEF HeapInv
  <1>3. HeaderTypes'
    <2>1. DOMAIN minor' \subseteq DOMAIN minor \cup {h} /\ minor' \in [DOMAIN minor' -> Minor]
      BY InsertMinors DEF MinorsInserted
    <2>2. IsFiniteSet(DOMAIN minor')
      <3>1. IsFiniteSet(DOMAIN minor \cup {h})
        BY FS_AddElement DEF HeapInv, HeaderTypes
      <3> QED
        BY <2>1, <3>1, FS_Subset
    <2>3. DOMAIN info' \subseteq Nat
      BY InsertInfo
    <2> QED
      BY <1>1, <2>1, <2>2, <2>3 DEF HeapInv, HeaderTypes
  <1>4. MajorsApart'
    BY <1>1 DEF HeapInv, MajorsApart
  <1> QED
    BY <1>2, <1>3, <1>4, InsertBlocks, InsertInfo DEF HeapInv

-----------------------------------------------------------------------------
(* A new major: its pages lie apart from the others, and it has no block.  *)
LEMMA AnswerIsApart ==
  ASSUME HeapInv, NEW size \in Nat, NEW a \in Answers(size), a # NULL
  PROVE  /\ a \in Nat \ {0} /\ a \notin DOMAIN major
         /\ \A m \in DOMAIN major : a + PagesFor(size) * l_pageSize <= m \/ MajorEnd(m) <= a
  <1>1. a \in Sites /\ \A m \in DOMAIN major : a + PagesFor(size) * l_pageSize <= m \/ MajorEnd(m) <= a
    BY DEF Answers
  <1>2. a \in Nat \ {0}
    BY <1>1, SitesAssumption
  <1> DEFINE bytes == PagesFor(size) * l_pageSize
  <1>3. bytes \in Nat /\ MajorHeader <= bytes
    <2>1. NewMajor(size, NULL) \in Major /\ NewMajor(size, NULL).size = bytes
          /\ size + MajorHeader + MinorHeader <= bytes
      BY NewMajorType DEF NULL
    <2>2. bytes \in Nat
      BY <2>1 DEF Major
    <2> QED
      BY <2>1, <2>2, SizesAssumption
  <1> HIDE DEF bytes
  <1>4. ASSUME a \in DOMAIN major
        PROVE  FALSE
    <2>1. MajorHeader <= major[a].size /\ major[a].size \in Nat /\ MajorEnd(a) = a + major[a].size
      BY <1>4, MajorTypes DEF HeapInv, MajorsApart, MajorEnd
    <2>2. a + bytes <= a \/ MajorEnd(a) <= a
      BY <1>1, <1>4 DEF bytes
    <2> QED
      BY <1>2, <1>3, <2>1, <2>2, SizesAssumption
  <1> QED
    BY <1>1, <1>2, <1>4

(* What CreateRoot and Grow do to the headers of majors, the links aside.  *)
MajorAdded(a, size) ==
  /\ a \notin DOMAIN major /\ DOMAIN major' = DOMAIN major \cup {a}
  /\ major' \in [DOMAIN major' -> Major]
  /\ major'[a].size = PagesFor(size) * l_pageSize /\ major'[a].usage = MajorHeader
  /\ major'[a].first = NULL
  /\ \A m \in DOMAIN major :
       major'[m].first = major[m].first /\ major'[m].usage = major[m].usage
         /\ major'[m].size = major[m].size
  /\ UNCHANGED blocks

LEMMA MajorAddedKeepsBlocks ==
  ASSUME HeapInv, NEW size \in Nat, NEW a \in Answers(size), a # NULL, MajorAdded(a, size)
  PROVE  /\ HeaderTypes' /\ MajorsApart' /\ BlockInv' /\ InfoInv'
         /\ BlocksOf(a)' = {}
         /\ \A m \in DOMAIN major : BlocksOf(m)' = BlocksOf(m) /\ m # a
         /\ size + MajorHeader + MinorHeader <= major'[a].size
  <1>1. /\ a \in Nat \ {0} /\ a \notin DOMAIN major /\ DOMAIN major' = DOMAIN major \cup {a}
        /\ \A m \in DOMAIN major : a + PagesFor(size) * l_pageSize <= m \/ MajorEnd(m) <= a
    BY AnswerIsApart DEF MajorAdded
  <1>2. \A h \in Live : minor[h].block \in DOMAIN major
    BY LiveFacts DEF InsideInv
  <1>3. Live' = Live /\ minor' = minor /\ info' = info
    BY DEF MajorAdded, Live, blocks
  <1>4. BlocksOf(a)' = {} /\ \A m \in DOMAIN major : BlocksOf(m)' = BlocksOf(m) /\ m # a
    BY <1>1, <1>2, <1>3 DEF BlocksOf
  <1>5. \A m \in DOMAIN major : MajorEnd(m)' = MajorEnd(m)
    BY DEF MajorAdded, MajorEnd
  <1>6. /\ MajorEnd(a)' = a + PagesFor(size) * l_pageSize
        /\ size + MajorHeader + MinorHeader <= major'[a].size
        /\ major'[a].size \in Nat
    <2>1. /\ size + MajorHeader + MinorHeader <= PagesFor(size) * l_pageSize
      BY NewMajorType DEF NULL
    <2>2. major'[a] \in Major /\ major'[a].size = PagesFor(size) * l_pageSize
      BY <1>1 DEF MajorAdded
    <2> QED
      BY <2>1, <2>2 DEF MajorEnd, Major
  <1>7. HeaderTypes'
    <2>1. IsFiniteSet(DOMAIN major')
      BY <1>1, FS_AddElement DEF HeapInv, HeaderTypes
    <2>2. DOMAIN major' \subseteq Nat \ {NULL}
      BY <1>1 DEF HeapInv, HeaderTypes, NULL
    <2> QED
      BY <1>3, <2>1, <2>2 DEF HeapInv, HeaderTypes, MajorAdded
  <1>8. MajorsApart'
    <2>1. \A m \in DOMAIN major' : MajorHeader <= major'[m].size
      <3>1. MajorHeader <= major'[a].size
        BY <1>6, SizesAssumption
      <3> QED
        BY <1>1, <3>1 DEF HeapInv, MajorsApart, MajorAdded
    <2>2. ASSUME NEW m \in DOMAIN major', NEW k \in DOMAIN major', m # k
          PROVE  MajorEnd(m)' <= k \/ MajorEnd(k)' <= m
      BY <1>1, <1>5, <1>6, <2>2 DEF HeapInv, MajorsApart
    <2> QED
      BY <2>1, <2>2 DEF MajorsApart
  <1>9. BlockInv'
    <2>1. FirstInv(a)'
      BY <1>4 DEF FirstInv, MajorAdded
    <2>2. \A m \in DOMAIN major : FirstInv(m)'
      BY <1>4 DEF FirstInv, MajorAdded, HeapInv, BlockInv
    <2>3. ASSUME NEW h \in Live
          PROVE  InsideInv(h)' /\ NextInv(h)' /\ PrevInv(h)'
      <3>1. InsideInv(h) /\ NextInv(h) /\ PrevInv(h)
        BY LiveFacts
      <3> PICK k : k = minor[h].block
        OBVIOUS
      <3>2. k \in DOMAIN major /\ BlocksOf(k)' = BlocksOf(k) /\ MajorEnd(k)' = MajorEnd(k)
            /\ major'[k].first = major[k].first
        BY <1>2, <1>4, <1>5 DEF MajorAdded
      <3>3. EndOf(h)' = EndOf(h) /\ Bytes(minor[h].req_size)' = Bytes(minor[h].req_size)
        BY <1>3 DEF EndOf, Bytes
      <3>4. minor'[h].block = k
        BY <1>3
      <3>5. InsideInv(h)'
        BY <1>1, <1>3, <3>1, <3>2, <3>3, <3>4 DEF InsideInv
      <3>6. NextInv(h)'
        BY <1>3, <3>1, <3>2, <3>3, <3>4 DEF NextInv
      <3>7. PrevInv(h)'
        BY <1>3, <3>1, <3>2, <3>4 DEF PrevInv
      <3> QED
        BY <3>5, <3>6, <3>7
    <2> QED
      BY <1>1, <1>3, <2>1, <2>2, <2>3 DEF BlockInv
  <1>10. InfoInv'
    BY <1>3 DEF InfoInv, HeapInv, HeaderOf, Diff, Payload
  <1> QED
    BY <1>4, <1>6, <1>7, <1>8, <1>9, <1>10

LEMMA CreateRootKeepsHeap ==
  ASSUME HeapInv, CallInv, NEW t \in Threads, NEW a \in Answers(Size(t)), a # NULL, CreateRoot(t, a)
  PROVE  HeapInv' /\ MajorAdded(a, Size(t)) /\ DOMAIN major = {} /\ l_bestBet = NULL
  <1>1. /\ l_memRoot = NULL /\ l_memRoot' = a /\ l_bestBet' = l_bestBet /\ UNCHANGED blocks
        /\ major' = Stored(major, a, NewMajor(Size(t), NULL))
    BY DEF CreateRoot, NULL
  <1>2. Size(t) \in Nat
    BY NeedType
  <1>3. a \in Nat \ {0} /\ a \notin DOMAIN major
    BY <1>2, AnswerIsApart
  <1>4. DOMAIN major = {}
    <2> DEFINE S == {NULL}
    <2>1. S \in SUBSET (DOMAIN major \cup {NULL}) /\ l_memRoot \in S /\ ClosedUnderNext(S)
      BY <1>1 DEF ClosedUnderNext
    <2>2. DOMAIN major \subseteq S
      BY <2>1 DEF HeapInv, MajorsFormAList
    <2> QED
      BY <2>2 DEF HeapInv, HeaderTypes
  <1> DEFINE n == NewMajor(Size(t), NULL)
  <1>5. n \in Major /\ n.size = PagesFor(Size(t)) * l_pageSize
    BY <1>2, NewMajorType DEF NULL
  <1>6. n.prev = NULL /\ n.next = NULL /\ n.usage = MajorHeader /\ n.first = NULL
    BY DEF NewMajor
  <1> HIDE DEF n
  <1>7. DOMAIN major' = {a} /\ major'[a] = n
    BY <1>1, <1>4 DEF Stored, n
  <1>8. major' \in [DOMAIN major' -> Major]
    BY <1>1, <1>4, <1>5 DEF Stored, n
  <1>9. MajorAdded(a, Size(t))
    BY <1>1, <1>3, <1>4, <1>5, <1>6, <1>7, <1>8 DEF MajorAdded
  <1>10. MajorsFormAList'
    <2>1. l_bestBet = NULL
      BY <1>4 DEF HeapInv, MajorsFormAList
    <2>2. \A S : a \in S => {a} \subseteq S
      OBVIOUS
    <2> QED
      BY <1>1, <1>3, <1>6, <1>7, <2>1, <2>2 DEF MajorsFormAList, NULL
  <1> QED
    BY <1>2, <1>4, <1>9, <1>10, MajorAddedKeepsBlocks DEF HeapInv, MajorsFormAList

LEMMA GrowKeepsHeap ==
  ASSUME HeapInv, CallInv, WalkInv, NEW t \in Threads, NEW a \in Answers(Size(t)), a # NULL,
         Grow(t, a)
  PROVE  /\ HeapInv' /\ MajorAdded(a, Size(t)) /\ major'[a].next = NULL
         /\ \A m \in DOMAIN major : major'[m].next = IF m = walk.maj THEN a ELSE major[m].next
  <1> PICK w : w = walk.maj
    OBVIOUS
  <1>1. /\ UNCHANGED <<l_memRoot, l_bestBet>> /\ UNCHANGED blocks
        /\ major' = Stored([major EXCEPT ![w].next = a], a, NewMajor(Size(t), w))
    BY DEF Grow, NULL
  <1>2. Size(t) \in Nat
    BY NeedType
  <1>3. a \in Nat \ {0} /\ a \notin DOMAIN major
    BY <1>2, AnswerIsApart
  <1>4. w \in DOMAIN major /\ major[w].next = NULL /\ w \in Nat \ {0}
    <2>1. pc[t] \in {"grow1", "grow5"}
      BY DEF Grow
    <2>2. w \in DOMAIN major /\ major[w].next = NULL
      BY <2>1 DEF WalkInv, Search
    <2> QED
      BY <2>2, MajorTypes DEF HeapInv
  <1> DEFINE n == NewMajor(Size(t), w)
  <1>5. n \in Major /\ n.size = PagesFor(Size(t)) * l_pageSize
    BY <1>2, <1>4, NewMajorType
  <1>6. n.prev = w /\ n.next = NULL /\ n.usage = MajorHeader /\ n.first = NULL
    BY DEF NewMajor
  <1>7. n = NewMajor(Size(t), w)
    OBVIOUS
  <1> HIDE DEF n
  <1>8. /\ DOMAIN major' = DOMAIN major \cup {a} /\ major'[a] = n
        /\ \A m \in DOMAIN major : major'[m] = [major EXCEPT ![w].next = a][m]
    BY <1>1, <1>3, <1>7 DEF Stored
  <1>9. \A m \in DOMAIN major :
          /\ major'[m] \in Major
          /\ major'[m].prev = major[m].prev /\ major'[m].size = major[m].size
          /\ major'[m].first = major[m].first /\ major'[m].usage = major[m].usage
          /\ major'[m].next = IF m = w THEN a ELSE major[m].next
    <2>1. \A m \in DOMAIN major : major[m] \in Major
      BY DEF HeapInv, HeaderTypes
    <2>2. \A m \in DOMAIN major : m # w => major'[m] = major[m]
      BY <1>8
    <2>3. major'[w] = [major[w] EXCEPT !.next = a]
      BY <1>4, <1>8
    <2> QED
      BY <1>3, <1>4, <2>1, <2>2, <2>3 DEF Major
  <1>10. major' \in [DOMAIN major' -> Major]
    <2>1. \A m \in DOMAIN major' : major'[m] \in Major
      BY <1>5, <1>8, <1>9
    <2> QED
      BY <1>1, <1>8, <2>1 DEF Stored
  <1>11. MajorAdded(a, Size(t))
    BY <1>1, <1>3, <1>5, <1>6, <1>8, <1>9, <1>10 DEF MajorAdded
  <1>12. MajorsFormAList'
    <2> DEFINE links == DOMAIN major \cup {NULL}
    <2>1. /\ l_memRoot' \in links /\ l_bestBet' \in links /\ a \notin links
          /\ DOMAIN major' \cup {NULL} = links \cup {a}
      BY <1>1, <1>3, <1>8 DEF HeapInv, MajorsFormAList, NULL
    <2>2. ASSUME NEW m \in DOMAIN major'
          PROVE  /\ major'[m].next \in links \cup {a} /\ major'[m].prev \in links \cup {a}
                 /\ (major'[m].prev = NULL) = (m = l_memRoot')
                 /\ major'[m].prev # NULL => major'[major'[m].prev].next = m
                 /\ major'[m].next # NULL => major'[major'[m].next].prev = m
      <3>1. CASE m = a
        BY <1>3, <1>4, <1>6, <1>8, <1>9, <2>1, <3>1 DEF NULL
      <3>2. CASE m = w
        <4>1. /\ (major[w].prev = NULL) = (w = l_memRoot) /\ major[w].prev \in links
              /\ major[w].prev # NULL => major[major[w].prev].next = w
          BY <1>4 DEF HeapInv, MajorsFormAList
        <4>2. major[w].prev # NULL => major'[major[w].prev].next = w
          BY <1>4, <1>9, <4>1 DEF NULL
        <4> QED
          BY <1>1, <1>4, <1>6, <1>8, <1>9, <2>1, <3>2, <4>1, <4>2
      <3>3. CASE m # a /\ m # w
        <4>1. /\ m \in DOMAIN major
              /\ (major[m].prev = NULL) = (m = l_memRoot) /\ major[m].prev \in links
              /\ major[m].next \in links
              /\ major[m].prev # NULL => major[major[m].prev].next = m
              /\ major[m].next # NULL => major[major[m].next].prev = m
          BY <1>8, <3>3 DEF HeapInv, MajorsFormAList
        <4>2. m # NULL
          BY <4>1 DEF HeapInv, HeaderTypes
        <4>3. major[m].prev # NULL => major'[major[m].prev].next = m
          BY <1>4, <1>9, <4>1, <4>2
        <4>4. major[m].next # NULL => major'[major[m].next].prev = m
          BY <1>9, <4>1
        <4> QED
          BY <1>1, <1>9, <3>3, <4>1, <4>3, <4>4
      <3> QED
        BY <3>1, <3>2, <3>3
    <2>3. ASSUME NEW S \in SUBSET (links \cup {a}), l_memRoot' \in S, ClosedUnderNext(S)'
          PROVE  DOMAIN major' \subseteq S
      <3> DEFINE U == (S \ {a}) \cup {NULL}
      <3>1. U \in SUBSET links /\ l_memRoot \in U
        BY <1>1, <2>1, <2>3
      <3>2. \A m \in S \ {NULL} : major'[m].next \in S
        BY <2>3 DEF ClosedUnderNext
      <3>3. ClosedUnderNext(U)
        <4>1. ASSUME NEW m \in U \ {NULL}
              PROVE  major[m].next \in U
          <5>1. m \in DOMAIN major /\ m \in S
            BY <3>1
          <5>2. major'[m].next \in S /\ major[m].next \in links
            BY <3>2, <5>1 DEF HeapInv, MajorsFormAList
          <5> QED
            BY <1>4, <1>9, <2>1, <5>1, <5>2
        <4> QED
          BY <4>1 DEF ClosedUnderNext
      <3>4. DOMAIN major \subseteq U
        BY <3>1, <3>3 DEF HeapInv, MajorsFormAList
      <3>5. DOMAIN major \subseteq S
        BY <3>4, <1>3 DEF HeapInv, HeaderTypes
      <3>6. a \in S
        <4>1. w \in S \ {NULL}
          BY <1>4, <3>5 DEF NULL
        <4> QED
          BY <1>4, <1>9, <3>2, <4>1
      <3> QED
        BY <1>8, <3>5, <3>6
    <2> QED
      BY <2>1, <2>2, <2>3 DEF MajorsFormAList
  <1> QED
    BY <1>2, <1>6, <1>8, <1>9, <1>11, <1>12, MajorAddedKeepsBlocks DEF HeapInv

-----------------------------------------------------------------------------
(* A freed block: what Unlink does to the header of its major, and to the  *)
(* list of majors when it was the last.                                    *)
MajorsUnlinked(h) ==
  LET m == minor[h].block
  IN /\ DOMAIN major' = IF Empties(h) THEN DOMAIN major \ {m} ELSE DOMAIN major
     /\ major' \in [DOMAIN major' -> Major]
     /\ \A k \in DOMAIN major' :
          /\ major'[k].size = major[k].size
          /\ k # m => major'[k].first = major[k].first /\ major'[k].usage = major[k].usage
          /\ k = m => /\ major'[k].first # NULL
                      /\ major'[k].first = IF minor[h].prev = NULL THEN minor[h].next
                                           ELSE major[k].first

LEMMA NoShortCycle ==
  ASSUME HeapInv, NEW m \in DOMAIN major
  PROVE  /\ major[m].next # m /\ major[m].prev # m
         /\ major[m].prev = major[m].next => major[m].prev = NULL
  <1> DEFINE links == DOMAIN major \cup {NULL}
  <1>1. /\ l_memRoot \in links /\ NULL \notin DOMAIN major
        /\ \A k \in DOMAIN major :
             /\ major[k].next \in links /\ major[k].prev \in links
             /\ (major[k].prev = NULL) = (k = l_memRoot)
             /\ major[k].prev # NULL => major[major[k].prev].next = k
             /\ major[k].next # NULL => major[major[k].next].prev = k
        /\ \A S \in SUBSET links :
             l_memRoot \in S /\ ClosedUnderNext(S) => DOMAIN major \subseteq S
    BY DEF HeapInv, MajorsFormAList, HeaderTypes
  <1>2. ASSUME NEW p \in DOMAIN major,
               major[m].next = p /\ major[m].prev = p /\ major[p].next = m /\ major[p].prev = m
        PROVE  FALSE
    <2> DEFINE S == links \ {p, m}
    <2>1. l_memRoot \in S
      BY <1>1, <1>2
    <2>2. ClosedUnderNext(S)
      <3>1. ASSUME NEW k \in S \ {NULL}
            PROVE  major[k].next \in S
        <4>1. k \in DOMAIN major /\ k # p /\ k # m
          OBVIOUS
        <4> QED
          BY <1>1, <1>2, <4>1
      <3> QED
        BY <3>1 DEF ClosedUnderNext
    <2> QED
      BY <1>1, <2>1, <2>2
  <1>3. major[m].next = m => major[m].prev = m
    BY <1>1
  <1>4. major[m].prev = m => major[m].next = m
    BY <1>1
  <1>5. major[m].next # m /\ major[m].prev # m
    BY <1>2, <1>3, <1>4
  <1>6. ASSUME major[m].prev = major[m].next, major[m].prev # NULL
        PROVE  FALSE
    <2>1. major[m].prev \in DOMAIN major
      BY <1>1, <1>6
    <2>2. major[major[m].prev].next = m /\ major[major[m].prev].prev = m
      BY <1>1, <1>6
    <2> QED
      BY <1>2, <1>6, <2>1, <2>2
  <1> QED
    BY <1>5, <1>6

LEMMA WithoutMajorFacts ==
  ASSUME HeapInv, NEW m \in DOMAIN major, major' = WithoutMajor(m)
  PROVE  /\ DOMAIN major' = DOMAIN major \ {m} /\ major' \in [DOMAIN major' -> Major]
         /\ \A x \in DOMAIN major' :
              /\ major'[x].size = major[x].size /\ major'[x].usage = major[x].usage
              /\ major'[x].first = major[x].first
              /\ major'[x].next = IF x = major[m].prev THEN major[m].next ELSE major[x].next
              /\ major'[x].prev = IF x = major[m].next THEN major[m].prev ELSE major[x].prev
  <1> DEFINE p == major[m].prev
             n == major[m].next
  <1>1. major' = [x \in DOMAIN major \ {m} |-> CASE x = p -> [major[x] EXCEPT !.next = n]
                                                 [] x = n -> [major[x] EXCEPT !.prev = p]
                                                 [] OTHER -> major[x]]
    BY DEF WithoutMajor
  <1>2. (p = n => p = NULL) /\ p \in Nat /\ n \in Nat /\ NULL \notin DOMAIN major
    BY NoShortCycle, MajorTypes DEF HeapInv, HeaderTypes
  <1> HIDE DEF p, n
  <1>3. ASSUME NEW x \in DOMAIN major \ {m}
        PROVE  /\ major'[x] \in Major
               /\ major'[x].size = major[x].size /\ major'[x].usage = major[x].usage
               /\ major'[x].first = major[x].first
               /\ major'[x].next = IF x = p THEN n ELSE major[x].next
               /\ major'[x].prev = IF x = n THEN p ELSE major[x].prev
    <2>1. major[x] \in Major
      BY DEF HeapInv, HeaderTypes
    <2>2. CASE x = p
      <3>1. x # n /\ major'[x] = [major[x] EXCEPT !.next = n]
        BY <1>1, <1>2, <2>2
      <3> QED
        BY <1>2, <2>1, <2>2, <3>1 DEF Major
    <2>3. CASE x = n
      <3>1. x # p /\ major'[x] = [major[x] EXCEPT !.prev = p]
        BY <1>1, <1>2, <2>3
      <3> QED
        BY <1>2, <2>1, <2>3, <3>1 DEF Major
    <2>4. CASE x # p /\ x # n
      <3>1. major'[x] = major[x]
        BY <1>1, <2>4
      <3> QED
        BY <2>1, <2>4, <3>1
    <2> QED
      BY <2>2, <2>3, <2>4
  <1>4. DOMAIN major' = DOMAIN major \ {m}
    BY <1>1
  <1>5. major' \in [DOMAIN major' -> Major]
    <2>1. \A x \in DOMAIN major' : major'[x] \in Major
      BY <1>3, <1>4
    <2> QED
      BY <1>1, <1>4, <2>1
  <1> QED
    BY <1>3, <1>4, <1>5 DEF p, n

LEMMA WithoutMajorKeepsTheList ==
  ASSUME HeapInv, NEW m \in DOMAIN major, major' = WithoutMajor(m),
         l_memRoot' = (IF l_memRoot = m THEN major[m].next ELSE l_memRoot),
         l_bestBet' = ForgetBet(m)
  PROVE  MajorsFormAList'
  <1> DEFINE p == major[m].prev
             n == major[m].next
             links == DOMAIN major \cup {NULL}
             left == links \ {m}
  <1>1. /\ l_memRoot \in links /\ l_bestBet \in links /\ NULL \notin DOMAIN major
        /\ \A k \in DOMAIN major :
             /\ major[k].next \in links /\ major[k].prev \in links
             /\ (major[k].prev = NULL) = (k = l_memRoot)
             /\ major[k].prev # NULL => major[major[k].prev].next = k
             /\ major[k].next # NULL => major[major[k].next].prev = k
        /\ \A S \in SUBSET links :
             l_memRoot \in S /\ ClosedUnderNext(S) => DOMAIN major \subseteq S
    BY DEF HeapInv, MajorsFormAList, HeaderTypes
  <1>2. p # m /\ n # m /\ m # NULL /\ p \in left /\ n \in left
    <2>1. p # m /\ n # m
      BY NoShortCycle
    <2>2. p \in links /\ n \in links /\ m # NULL
      BY <1>1
    <2> QED
      BY <2>1, <2>2
  <1>3. /\ DOMAIN major' = DOMAIN major \ {m}
        /\ \A x \in DOMAIN major \ {m} :
              /\ major'[x].next = IF x = p THEN n ELSE major[x].next
              /\ major'[x].prev = IF x = n THEN p ELSE major[x].prev
    <2>1. DOMAIN major' = DOMAIN major \ {m}
      BY WithoutMajorFacts
    <2>2. \A x \in DOMAIN major' :
              /\ major'[x].next = IF x = p THEN n ELSE major[x].next
              /\ major'[x].prev = IF x = n THEN p ELSE major[x].prev
      BY WithoutMajorFacts
    <2> QED
      BY <2>1, <2>2
  <1>4. p # NULL => major[p].next = m
    BY <1>1
  <1>5. n # NULL => major[n].prev = m
    BY <1>1
  <1>6. (p = NULL) = (m = l_memRoot)
    BY <1>1
  <1>7. l_memRoot' = IF l_memRoot = m THEN n ELSE l_memRoot
    OBVIOUS
  <1> HIDE DEF p, n
  <1>8. l_memRoot' \in left /\ l_bestBet' \in left
    BY <1>1, <1>2, <1>7 DEF ForgetBet
  <1>9. ASSUME NEW x \in DOMAIN major'
        PROVE  /\ major'[x].next \in left /\ major'[x].prev \in left
               /\ (major'[x].prev = NULL) = (x = l_memRoot')
               /\ major'[x].prev # NULL => major'[major'[x].prev].next = x
               /\ major'[x].next # NULL => major'[major'[x].next].prev = x
    <2>1. /\ x \in DOMAIN major /\ x # m
          /\ major[x].next \in links /\ major[x].prev \in links
          /\ (major[x].prev = NULL) = (x = l_memRoot)
          /\ major[x].prev # NULL => major[major[x].prev].next = x
          /\ major[x].next # NULL => major[major[x].next].prev = x
      BY <1>1, <1>3
    <2>2. x # n => major[x].prev # m
      BY <1>1, <2>1 DEF n
    <2>3. x # p => major[x].next # m
      BY <1>1, <2>1 DEF p
    <2>4. major'[x].next \in left /\ major'[x].prev \in left
      BY <1>2, <1>3, <2>1, <2>2, <2>3
    <2>5. (major'[x].prev = NULL) = (x = l_memRoot')
      <3>1. CASE x = n
        <4>1. major'[x].prev = p /\ major[x].prev = m
          BY <1>1, <1>3, <1>5, <2>1, <3>1
        <4> QED
          BY <1>2, <1>6, <1>7, <2>1, <3>1, <4>1
      <3>2. CASE x # n
        BY <1>3, <1>7, <2>1, <3>2
      <3> QED
        BY <3>1, <3>2
    <2>6. ASSUME major'[x].prev # NULL
          PROVE  major'[major'[x].prev].next = x
      <3>1. CASE x = n
        BY <1>1, <1>2, <1>3, <2>1, <2>6, <3>1
      <3>2. CASE x # n
        <4> DEFINE q == major[x].prev
        <4>1. major'[x].prev = q /\ q \in DOMAIN major \ {m} /\ major[q].next = x
          BY <1>3, <2>1, <2>2, <2>6, <3>2
        <4>2. q # p
          BY <1>1, <1>4, <2>1, <4>1
        <4> QED
          BY <1>3, <4>1, <4>2
      <3> QED
        BY <3>1, <3>2
    <2>7. ASSUME major'[x].next # NULL
          PROVE  major'[major'[x].next].prev = x
      <3>1. CASE x = p
        BY <1>1, <1>2, <1>3, <2>1, <2>7, <3>1
      <3>2. CASE x # p
        <4> DEFINE q == major[x].next
        <4>1. major'[x].next = q /\ q \in DOMAIN major \ {m} /\ major[q].prev = x
          BY <1>3, <2>1, <2>3, <2>7, <3>2
        <4>2. q # n
          BY <1>1, <1>5, <2>1, <4>1
        <4> QED
          BY <1>3, <4>1, <4>2
      <3> QED
        BY <3>1, <3>2
    <2> QED
      BY <2>4, <2>5, <2>6, <2>7
  <1>10. ASSUME NEW S \in SUBSET left, l_memRoot' \in S, ClosedUnderNext(S)'
         PROVE  DOMAIN major' \subseteq S
    <2>1. \A x \in S \ {NULL} : major'[x].next \in S
      BY <1>10 DEF ClosedUnderNext
    <2>2. CASE p \in S \/ p = NULL
      <3> DEFINE U == S \cup {m}
      <3>1. U \in SUBSET links /\ l_memRoot \in U
        BY <1>7, <1>10
      <3>2. n \in S
        BY <1>2, <1>3, <1>6, <1>7, <1>10, <2>1, <2>2
      <3>3. ASSUME NEW x \in U \ {NULL}
            PROVE  major[x].next \in U
        BY <1>2, <1>3, <1>4, <2>1, <3>2, <3>3 DEF n
      <3>4. ClosedUnderNext(U)
        BY <3>3 DEF ClosedUnderNext
      <3> QED
        BY <1>1, <1>3, <3>1, <3>4
    <2>3. CASE p \notin S /\ p # NULL
      <3>1. l_memRoot \in S /\ S \in SUBSET links
        BY <1>6, <1>7, <1>10, <2>3
      <3>2. ASSUME NEW x \in S \ {NULL}
            PROVE  major[x].next \in S
        BY <1>3, <2>1, <2>3
      <3>3. ClosedUnderNext(S)
        BY <3>2 DEF ClosedUnderNext
      <3> QED
        BY <1>1, <1>3, <3>1, <3>3
    <2> QED
      BY <2>2, <2>3
  <1>11. DOMAIN major' \cup {NULL} = left
    BY <1>1, <1>3
  <1> QED
    BY <1>8, <1>9, <1>10, <1>11 DEF MajorsFormAList

(* What Unlink does to the headers of blocks.                              *)
MinorsUnlinked(h) ==
  /\ Live' = Live \ {h} /\ DOMAIN minor' \subseteq DOMAIN minor
  /\ minor' \in [DOMAIN minor' -> Minor]
  /\ \A x \in Live \ {h} :
       /\ EndOf(x)' = EndOf(x) /\ minor'[x].block = minor[x].block
       /\ minor'[x].size = minor[x].size /\ minor'[x].req_size = minor[x].req_size
       /\ minor'[x].next = IF x = minor[h].prev THEN minor[h].next ELSE minor[x].next
       /\ minor'[x].prev = IF x = minor[h].next THEN minor[h].prev ELSE minor[x].prev
  /\ \A p \in DOMAIN info : HeaderOf(p) \in Live \ {h} =>
       p \in DOMAIN info' /\ HeaderOf(p)' = HeaderOf(p)

(* The neighbours of a block are blocks on either side of it.              *)
LEMMA Neighbours ==
  ASSUME HeapInv, NEW h \in Live
  PROVE  LET p == minor[h].prev
             n == minor[h].next
             B == BlocksOf(minor[h].block)
         IN /\ h \in Nat \ {0} /\ p \in Nat /\ n \in Nat /\ B \subseteq Live /\ h \in B
            /\ minor[h].block \in DOMAIN major
            /\ p # NULL => p \in B /\ p < h /\ EndOf(p) <= h /\ minor[p].next = h
            /\ n # NULL => n \in B /\ h < n /\ EndOf(h) <= n /\ minor[n].prev = h
            /\ p # h /\ n # h /\ (p = n => p = NULL)
            /\ p = NULL => major[minor[h].block].first = h
  <1> DEFINE p == minor[h].prev
             n == minor[h].next
             B == BlocksOf(minor[h].block)
  <1>1. /\ h \in Nat \ {0} /\ p \in Nat /\ n \in Nat /\ B \subseteq Live /\ h \in B
        /\ minor[h].block \in DOMAIN major /\ NextInv(h) /\ PrevInv(h)
    BY LiveFacts, MinorTypes DEF HeapInv, BlocksOf, InsideInv
  <1>2. \A x \in Live : x \in Nat /\ EndOf(x) \in Nat /\ x < EndOf(x)
    BY LiveFacts, MinorTypes DEF HeapInv
  <1>3. p # NULL => p \in B /\ p < h /\ EndOf(p) <= h /\ minor[p].next = h
    <2> SUFFICES ASSUME p # NULL
                 PROVE  p \in B /\ p < h /\ EndOf(p) <= h /\ minor[p].next = h
      OBVIOUS
    <2>1. p \in B /\ minor[p].next = h /\ p \in Live
      BY <1>1 DEF PrevInv
    <2>2. EndOf(p) <= h
      BY <1>1, <2>1, LiveFacts DEF NextInv, NULL
    <2> QED
      BY <1>1, <1>2, <2>1, <2>2
  <1>4. n # NULL => n \in B /\ h < n /\ EndOf(h) <= n /\ minor[n].prev = h
    BY <1>1, <1>2 DEF NextInv
  <1>5. p = NULL => major[minor[h].block].first = h
    BY <1>1 DEF PrevInv
  <1>6. p # h /\ n # h /\ (p = n => p = NULL)
    BY <1>1, <1>3, <1>4 DEF NULL
  <1> QED
    BY <1>1, <1>3, <1>4, <1>5, <1>6

LEMMA EmptiesTheMajor ==
  ASSUME HeapInv, NEW h \in Live
  PROVE  /\ Empties(h) => BlocksOf(minor[h].block) = {h}
         /\ ~Empties(h) => \/ minor[h].prev # NULL /\ major[minor[h].block].first # NULL
                           \/ minor[h].prev = NULL /\ minor[h].next # NULL
  <1> DEFINE m == minor[h].block
             B == BlocksOf(m)
  <1>1. m \in DOMAIN major /\ h \in B /\ h \in Nat /\ NextInv(h) /\ PrevInv(h)
    BY LiveFacts, Neighbours DEF InsideInv
  <1>2. major[m] \in Major
    BY <1>1 DEF HeapInv, HeaderTypes
  <1>3. Empties(h) = ((IF minor[h].prev = NULL THEN minor[h].next ELSE major[m].first) = NULL)
    BY <1>2 DEF Empties, Unused, Major
  <1>4. FirstInv(m)
    BY <1>1 DEF HeapInv, BlockInv
  <1>5. \A x \in B : x \in Nat
    BY LiveFacts, MinorTypes DEF HeapInv, BlocksOf
  <1>6. ASSUME Empties(h)
        PROVE  B = {h}
    <2>1. minor[h].prev = NULL /\ minor[h].next = NULL
      BY <1>1, <1>3, <1>4, <1>6 DEF FirstInv
    <2>2. major[m].first = h /\ \A x \in B : x <= h /\ h <= x
      BY <1>1, <1>4, <2>1 DEF PrevInv, NextInv, FirstInv
    <2> QED
      BY <1>1, <1>5, <2>2
  <1> QED
    BY <1>3, <1>6

LEMMA UnlinkMajors ==
  ASSUME HeapInv, NEW h \in Live, Unlink(h)
  PROVE  MajorsUnlinked(h) /\ MajorsFormAList'
  <1> PICK m : m = minor[h].block
    OBVIOUS
  <1>1. m \in DOMAIN major
    BY Neighbours
  <1>2. CASE Empties(h)
    <2>1. /\ major' = WithoutMajor(m)
          /\ l_memRoot' = (IF l_memRoot = m THEN major[m].next ELSE l_memRoot)
          /\ l_bestBet' = ForgetBet(m)
      BY <1>2 DEF Unlink
    <2>2. MajorsFormAList'
      BY <1>1, <2>1, WithoutMajorKeepsTheList
    <2>3. /\ DOMAIN major' = DOMAIN major \ {m} /\ major' \in [DOMAIN major' -> Major]
          /\ \A x \in DOMAIN major' :
              /\ major'[x].size = major[x].size /\ major'[x].usage = major[x].usage
              /\ major'[x].first = major[x].first
      BY <1>1, <2>1, WithoutMajorFacts
    <2> QED
      BY <1>2, <2>2, <2>3 DEF MajorsUnlinked
  <1>3. CASE ~Empties(h)
    <2> DEFINE u == Unused(h)
    <2>1. /\ major' = [major EXCEPT ![m] = u] /\ l_memRoot' = l_memRoot
          /\ l_bestBet' \in {m, l_bestBet}
      BY <1>3 DEF Unlink
    <2>2. /\ major[m] \in Major /\ minor[h].size \in Nat /\ minor[h].prev \in Nat
          /\ minor[h].next \in Nat
      BY <1>1, LiveFacts, MinorTypes DEF HeapInv, HeaderTypes
    <2>3. /\ u \in Major /\ u.prev = major[m].prev /\ u.next = major[m].next
          /\ u.size = major[m].size
          /\ u.first = IF minor[h].prev = NULL THEN minor[h].next ELSE major[m].first
      <3> PICK s : s = minor[h].size + MinorHeader
        OBVIOUS
      <3>1. s \in Int
        BY <2>2, SizesAssumption
      <3>2. u = [major[m] EXCEPT !.usage = @ - s,
                                 !.first = IF minor[h].prev = NULL THEN minor[h].next ELSE @]
        BY DEF Unused
      <3> HIDE DEF u
      <3> DEFINE v == [major[m] EXCEPT !.usage = @ - s]
      <3>3. v \in Major /\ v.prev = major[m].prev /\ v.next = major[m].next
            /\ v.size = major[m].size /\ v.first = major[m].first
        BY <2>2, <3>1 DEF Major
      <3>4. u = [v EXCEPT !.first = IF minor[h].prev = NULL THEN minor[h].next ELSE @]
        BY <2>2, <3>2 DEF Major
      <3> HIDE DEF v
      <3>5. u.prev = v.prev /\ u.next = v.next /\ u.size = v.size
            /\ u.first = IF minor[h].prev = NULL THEN minor[h].next ELSE v.first
        BY <3>3, <3>4 DEF Major
      <3>6. u \in Major
        BY <2>2, <3>3, <3>4 DEF Major
      <3> QED
        BY <3>3, <3>5, <3>6
    <2>4. u.first # NULL
      BY <1>3 DEF Empties
    <2> HIDE DEF u
    <2>5. DOMAIN major' = DOMAIN major /\ major'[m] = u
          /\ \A k \in DOMAIN major : k # m => major'[k] = major[k]
      BY <1>1, <2>1
    <2>6. major' \in [DOMAIN major' -> Major]
      <3>1. \A k \in DOMAIN major' : major'[k] \in Major
        BY <2>3, <2>5 DEF HeapInv, HeaderTypes
      <3> QED
        BY <2>1, <2>5, <3>1
    <2>7. \A k \in DOMAIN major : /\ major'[k].prev = major[k].prev /\ major'[k].next = major[k].next
                                  /\ major'[k].size = major[k].size
      BY <2>3, <2>5
    <2>8. MajorsFormAList'
      <3>1. l_bestBet \in DOMAIN major \cup {NULL}
        BY DEF HeapInv, MajorsFormAList
      <3> QED
        BY <1>1, <2>1, <2>5, <2>7, <3>1, SameListOfMajors DEF HeapInv
    <2>9. MajorsUnlinked(h)
      BY <1>3, <2>3, <2>4, <2>5, <2>6, <2>7 DEF MajorsUnlinked
    <2> QED
      BY <2>8, <2>9
  <1> QED
    BY <1>2, <1>3

LEMMA UnlinkMinors ==
  ASSUME HeapInv, NEW h \in Live, Unlink(h)
  PROVE  MinorsUnlinked(h) /\ InfoInv' /\ DOMAIN info' \subseteq Nat
  <1> PICK m, p, n : m = minor[h].block /\ p = minor[h].prev /\ n = minor[h].next
    <2>1. \E m, p, n : m = minor[h].block /\ p = minor[h].prev /\ n = minor[h].next
      OBVIOUS
    <2> QED
      BY <2>1
  <1> PICK left : left = WithoutMinor(h)
    OBVIOUS
  <1> DEFINE kept == Readable(left, DOMAIN major')
  <1>1. /\ minor' = Restrict(left, kept)
        /\ info' = Restrict(info, {q \in DOMAIN info : HeaderOf(q) \in kept})
    BY DEF Unlink
  <1>2. /\ h \in DOMAIN minor /\ p # h /\ n # h /\ (p = n => p = NULL) /\ p \in Nat /\ n \in Nat
        /\ \A x \in DOMAIN minor : minor[x] \in Minor /\ x # NULL
    BY Neighbours, LiveFacts DEF HeapInv, HeaderTypes
  <1>3. /\ DOMAIN left = DOMAIN minor
        /\ left[h] = [minor[h] EXCEPT !.magic = "DEAD"]
        /\ \A x \in DOMAIN minor \ {h} :
             left[x] = CASE x = n -> [minor[x] EXCEPT !.prev = p]
                         [] x = p -> [minor[x] EXCEPT !.next = n]
                         [] OTHER -> minor[x]
    BY <1>2 DEF WithoutMinor
  <1>4. ASSUME NEW x \in DOMAIN minor \ {h}
        PROVE  /\ left[x] \in Minor /\ left[x].magic = minor[x].magic
               /\ left[x].block = minor[x].block /\ left[x].size = minor[x].size
               /\ left[x].req_size = minor[x].req_size
               /\ left[x].next = IF x = p THEN n ELSE minor[x].next
               /\ left[x].prev = IF x = n THEN p ELSE minor[x].prev
    <2>1. minor[x] \in Minor /\ x # NULL
      BY <1>2
    <2>2. CASE x = n
      <3>1. x # p /\ left[x] = [minor[x] EXCEPT !.prev = p]
        BY <1>2, <1>3, <2>1, <2>2
      <3> QED
        BY <1>2, <2>1, <2>2, <3>1 DEF Minor
    <2>3. CASE x = p
      <3>1. x # n /\ left[x] = [minor[x] EXCEPT !.next = n]
        BY <1>2, <1>3, <2>1, <2>3
      <3> QED
        BY <1>2, <2>1, <2>3, <3>1 DEF Minor
    <2>4. CASE x # p /\ x # n
      <3>1. left[x] = minor[x]
        BY <1>3, <2>4
      <3> QED
        BY <2>1, <2>4, <3>1
    <2> QED
      BY <2>2, <2>3, <2>4
  <1>5. left[h] \in Minor /\ left[h].magic = "DEAD" /\ left[h].block = m
    BY <1>2, <1>3 DEF Minor
  <1>6. Live \ {h} \subseteq kept
    <2> SUFFICES ASSUME NEW x \in Live \ {h}
                 PROVE  x \in kept
      OBVIOUS
    <2>1. x \in DOMAIN minor /\ minor[x].magic = "MAGIC" /\ minor[x].block \in DOMAIN major
          /\ x \in BlocksOf(minor[x].block)
      BY LiveFacts DEF InsideInv, Live
    <2>2. minor[x].block \in DOMAIN major'
      <3>1. MajorsUnlinked(h)
        BY UnlinkMajors
      <3>2. Empties(h) => minor[x].block # m
        BY <2>1, EmptiesTheMajor
      <3> QED
        BY <2>1, <3>1, <3>2 DEF MajorsUnlinked
    <2> QED
      BY <1>3, <1>4, <2>1, <2>2 DEF Readable
  <1>7. kept \subseteq DOMAIN minor
    BY <1>3 DEF Readable
  <1> HIDE DEF kept
  <1>8. DOMAIN minor' = kept /\ \A x \in kept : minor'[x] = left[x]
    BY <1>1 DEF Restrict
  <1>9. minor' \in [DOMAIN minor' -> Minor]
    <2>1. \A x \in DOMAIN minor' : minor'[x] \in Minor
      BY <1>4, <1>5, <1>7, <1>8
    <2> QED
      BY <1>1, <1>8, <2>1 DEF Restrict
  <1>10. \A x \in Live \ {h} :
           /\ minor'[x].block = minor[x].block /\ minor'[x].size = minor[x].size
           /\ minor'[x].req_size = minor[x].req_size
           /\ minor'[x].next = IF x = p THEN n ELSE minor[x].next
           /\ minor'[x].prev = IF x = n THEN p ELSE minor[x].prev
    <2>1. \A x \in Live \ {h} : x \in DOMAIN minor \ {h} /\ x \in kept
      BY <1>6 DEF Live
    <2> QED
      BY <1>4, <1>8, <2>1
  <1>11. Live' = Live \ {h}
    <2>1. \A x \in kept : x \in Live' <=> left[x].magic = "MAGIC"
      BY <1>8 DEF Live
    <2>2. \A x \in kept : left[x].magic = "MAGIC" <=> x \in Live /\ x # h
      BY <1>4, <1>5, <1>7 DEF Live
    <2>3. Live' \subseteq kept
      BY <1>8 DEF Live
    <2> QED
      BY <1>6, <2>1, <2>2, <2>3
  <1>12. \A x \in Live \ {h} : EndOf(x)' = EndOf(x)
    BY <1>10 DEF EndOf
  <1> DEFINE old == {q \in DOMAIN info : HeaderOf(q) \in kept}
  <1>13. DOMAIN info' = old /\ \A q \in old : info'[q] = info[q] /\ HeaderOf(q)' = HeaderOf(q)
    BY <1>1 DEF Restrict, HeaderOf
  <1>14. InfoInv'
    <2>1. \A q \in DOMAIN info' : /\ HeaderOf(q)' \in DOMAIN minor'
                                  /\ info'[q] = Diff(HeaderOf(q)' + MinorHeader)
      BY <1>8, <1>13 DEF HeapInv, InfoInv
    <2>2. ASSUME NEW x \in Live'
          PROVE  Payload(x) \in DOMAIN info' /\ info'[Payload(x)] = Diff(x + MinorHeader)
      <3>1. x \in Live /\ x \in kept
        BY <1>6, <1>11
      <3>2. /\ Payload(x) \in DOMAIN info /\ info[Payload(x)] = Diff(x + MinorHeader)
            /\ HeaderOf(Payload(x)) = x
        BY <3>1, LiveFacts DEF HeapInv, InfoInv
      <3> QED
        BY <1>13, <3>1, <3>2
    <2>3. \A x : Payload(x)' = Payload(x) /\ Diff(x)' = Diff(x)
      BY DEF Payload, Diff
    <2> QED
      BY <2>1, <2>2, <2>3 DEF InfoInv
  <1>15. DOMAIN info' \subseteq Nat
    BY <1>13 DEF HeapInv, HeaderTypes
  <1>16. \A q \in DOMAIN info : HeaderOf(q) \in Live \ {h} =>
           q \in DOMAIN info' /\ HeaderOf(q)' = HeaderOf(q)
    BY <1>6, <1>13
  <1>17. MinorsUnlinked(h)
    BY <1>7, <1>8, <1>9, <1>10, <1>11, <1>12, <1>16 DEF MinorsUnlinked
  <1> QED
    BY <1>14, <1>15, <1>17

LEMMA UnlinkBlocks ==
  ASSUME HeapInv, NEW h \in Live, MajorsUnlinked(h), MinorsUnlinked(h)
  PROVE  BlockInv'
  <1> PICK m : m = minor[h].block
    OBVIOUS
  <1> PICK p : p = minor[h].prev
    OBVIOUS
  <1> PICK n : n = minor[h].next
    OBVIOUS
  <1> DEFINE B == BlocksOf(m)
  <1>1. /\ h \in Nat \ {0} /\ p \in Nat /\ n \in Nat /\ B \subseteq Live /\ h \in B
        /\ m \in DOMAIN major
        /\ p # NULL => p \in B /\ p < h /\ EndOf(p) <= h /\ minor[p].next = h
        /\ n # NULL => n \in B /\ h < n /\ EndOf(h) <= n /\ minor[n].prev = h
        /\ p # h /\ n # h /\ (p = n => p = NULL)
        /\ p = NULL => major[m].first = h
    BY Neighbours
  <1>2. /\ Live' = Live \ {h}
        /\ \A x \in Live \ {h} :
             /\ EndOf(x)' = EndOf(x) /\ minor'[x].block = minor[x].block
             /\ minor'[x].size = minor[x].size /\ minor'[x].req_size = minor[x].req_size
             /\ minor'[x].next = IF x = p THEN n ELSE minor[x].next
             /\ minor'[x].prev = IF x = n THEN p ELSE minor[x].prev
    BY DEF MinorsUnlinked
  <1>3. /\ DOMAIN major' \subseteq DOMAIN major
        /\ \A k \in DOMAIN major : k \notin DOMAIN major' => BlocksOf(k) = {h} /\ k = m
    BY EmptiesTheMajor DEF MajorsUnlinked
  <1>4. \A k \in DOMAIN major' :
          /\ major'[k].size = major[k].size
          /\ k # m => major'[k].first = major[k].first /\ major'[k].usage = major[k].usage
          /\ k = m => /\ major'[k].first # NULL
                      /\ major'[k].first = IF p = NULL THEN n ELSE major[k].first
          /\ MajorEnd(k)' = MajorEnd(k)
    BY DEF MajorsUnlinked, MajorEnd
  <1>5. \A k : BlocksOf(k)' = BlocksOf(k) \ {h} /\ (k # m => BlocksOf(k)' = BlocksOf(k))
    BY <1>2 DEF BlocksOf
  <1>6. \A x \in Live : x \in Nat \ {0} /\ EndOf(x) \in Nat /\ x < EndOf(x) /\ minor[x].block \in DOMAIN major
    BY LiveFacts, MinorTypes DEF HeapInv, InsideInv
  <1>7. \A k : \A x \in BlocksOf(k) : x \in Live /\ minor[x].block = k
    BY DEF BlocksOf
  <1>8. \A k \in DOMAIN major' : FirstInv(k)'
    <2> SUFFICES ASSUME NEW k \in DOMAIN major'
                 PROVE  FirstInv(k)'
      OBVIOUS
    <2>1. FirstInv(k) /\ k \in DOMAIN major
      BY <1>3 DEF HeapInv, BlockInv
    <2>2. CASE k # m
      BY <1>4, <1>5, <2>1, <2>2 DEF FirstInv
    <2>3. CASE k = m /\ p = NULL
      <3>1. n # NULL /\ major'[m].first = n /\ n \in B \ {h} /\ major[m].first = h
        BY <1>1, <1>4, <2>3
      <3>2. NextInv(h)
        BY <1>1, LiveFacts
      <3>3. \A x \in B \ {h} : n <= x
        BY <1>1, <1>6, <2>1, <2>3, <3>1, <3>2 DEF NextInv, FirstInv
      <3> QED
        BY <1>5, <2>3, <3>1, <3>3 DEF FirstInv
    <2>4. CASE k = m /\ p # NULL
      <3>1. major'[m].first = major[m].first /\ major'[m].first # NULL
        BY <1>4, <2>4
      <3>2. major[m].first # h
        BY <1>1, <1>6, <2>1, <2>4 DEF FirstInv
      <3> QED
        BY <1>5, <2>1, <2>4, <3>1, <3>2 DEF FirstInv
    <2> QED
      BY <2>2, <2>3, <2>4
  <1>9. \A x \in Live' : InsideInv(x)'
    <2> SUFFICES ASSUME NEW x \in Live'
                 PROVE  InsideInv(x)'
      OBVIOUS
    <2> PICK k : k = minor[x].block
      OBVIOUS
    <2>1. x \in Live \ {h} /\ InsideInv(x) /\ minor'[x].block = k /\ x \in BlocksOf(k)
      BY <1>2, LiveFacts
    <2>2. k \in DOMAIN major'
      BY <1>3, <1>6, <2>1
    <2>3. Bytes(minor[x].req_size)' = Bytes(minor[x].req_size)
      BY <1>2, <2>1 DEF Bytes
    <2> QED
      BY <1>2, <1>4, <2>1, <2>2, <2>3 DEF InsideInv
  <1>10. \A x \in Live' : NextInv(x)'
    <2> SUFFICES ASSUME NEW x \in Live'
                 PROVE  NextInv(x)'
      OBVIOUS
    <2> PICK k : k = minor[x].block
      OBVIOUS
    <2> DEFINE C == BlocksOf(k)
               y == minor[x].next
    <2>1. x \in Live \ {h} /\ NextInv(x) /\ minor'[x].block = k /\ x \in C /\ EndOf(x)' = EndOf(x)
      BY <1>2, LiveFacts
    <2>2. CASE x = p
      <3>1. p # NULL /\ k = m /\ minor'[x].next = n /\ EndOf(x) <= h
        BY <1>1, <1>2, <1>6, <1>7, <2>1, <2>2 DEF NULL
      <3>2. NextInv(h)
        BY <1>1, LiveFacts
      <3>3. \A z \in B \ {h} : z <= x \/ h < z
        <4>1. minor[x].next = h /\ h # NULL /\ minor[x].block = m
          BY <1>1, <2>2, <3>1 DEF NULL
        <4>2. \A z \in B : z <= x \/ h <= z
          BY <2>1, <4>1 DEF NextInv
        <4>3. \A z \in B : z \in Nat
          BY <1>1, <1>6
        <4> QED
          BY <1>1, <4>2, <4>3
      <3>4. n = NULL => \A z \in B \ {h} : z <= x
        BY <1>1, <1>6, <3>2, <3>3 DEF NextInv
      <3>5. n # NULL => /\ n \in B \ {h} /\ minor'[n].prev = x /\ EndOf(x) <= n
                        /\ \A z \in B \ {h} : z <= x \/ n <= z
        <4> SUFFICES ASSUME n # NULL
                     PROVE  /\ n \in B \ {h} /\ minor'[n].prev = x /\ EndOf(x) <= n
                            /\ \A z \in B \ {h} : z <= x \/ n <= z
          OBVIOUS
        <4>1. n \in B \ {h} /\ h < n /\ n \in Live \ {h}
          BY <1>1
        <4>2. minor'[n].prev = x
          BY <1>2, <2>2, <4>1
        <4>3. EndOf(x) <= n
          <5>1. EndOf(x) \in Nat /\ h \in Nat /\ n \in Nat /\ EndOf(x) <= h
            BY <1>1, <1>6, <2>1, <3>1
          <5> QED
            BY <4>1, <5>1
        <4>4. \A z \in B \ {h} : z <= x \/ n <= z
          BY <1>1, <1>6, <3>2, <3>3, <4>1 DEF NextInv
        <4> QED
          BY <4>1, <4>2, <4>3, <4>4
      <3> QED
        BY <1>5, <2>1, <3>1, <3>4, <3>5 DEF NextInv
    <2>3. CASE x # p
      <3>1. minor'[x].next = y
        BY <1>2, <2>1, <2>3
      <3>2. y # NULL => /\ y \in C /\ minor[y].prev = x /\ EndOf(x) <= y
                        /\ \A z \in C : z <= x \/ y <= z
        BY <2>1 DEF NextInv
      <3>3. y # NULL => y # h /\ y # n
        BY <1>1, <2>1, <2>3, <3>2
      <3>4. y # NULL => y \in Live \ {h} /\ minor'[y].prev = x
        BY <1>2, <1>7, <3>2, <3>3
      <3>5. y = NULL => \A z \in C : z <= x
        BY <2>1 DEF NextInv
      <3> QED
        BY <1>5, <2>1, <3>1, <3>2, <3>3, <3>4, <3>5 DEF NextInv
    <2> QED
      BY <2>2, <2>3
  <1>11. \A x \in Live' : PrevInv(x)'
    <2> SUFFICES ASSUME NEW x \in Live'
                 PROVE  PrevInv(x)'
      OBVIOUS
    <2> PICK k : k = minor[x].block
      OBVIOUS
    <2> DEFINE C == BlocksOf(k)
               y == minor[x].prev
    <2>1. x \in Live \ {h} /\ PrevInv(x) /\ minor'[x].block = k /\ x \in C
      BY <1>2, LiveFacts
    <2>2. k \in DOMAIN major'
      BY <1>3, <1>6, <2>1
    <2>3. CASE x = n
      <3>1. n # NULL /\ k = m /\ minor'[x].prev = p
        BY <1>1, <1>2, <1>6, <1>7, <2>1, <2>3 DEF NULL
      <3>2. p = NULL => major'[k].first = x
        BY <1>4, <2>2, <2>3, <3>1
      <3>3. p # NULL => p \in C \ {h} /\ minor'[p].next = x
        BY <1>1, <1>2, <2>3, <3>1
      <3> QED
        BY <1>5, <2>1, <3>1, <3>2, <3>3 DEF PrevInv
    <2>4. CASE x # n
      <3>1. minor'[x].prev = y
        BY <1>2, <2>1, <2>4
      <3>2. y = NULL => major'[k].first = x
        <4> SUFFICES ASSUME y = NULL
                     PROVE  major'[k].first = x
          OBVIOUS
        <4>1. major[k].first = x
          BY <2>1, <1>6, <1>7 DEF PrevInv, NULL
        <4> QED
          BY <1>1, <1>4, <2>1, <2>2, <4>1
      <3>3. y # NULL => y \in C /\ minor[y].next = x /\ y # h /\ y # p
        BY <1>1, <2>1, <2>4 DEF PrevInv
      <3>4. y # NULL => minor'[y].next = x
        BY <1>2, <1>7, <3>3
      <3> QED
        BY <1>5, <2>1, <3>1, <3>2, <3>3, <3>4 DEF PrevInv
    <2> QED
      BY <2>3, <2>4
  <1> QED
    BY <1>8, <1>9, <1>10, <1>11 DEF BlockInv

LEMMA UnlinkKeepsHeap ==
  ASSUME HeapInv, NEW h \in Live, Unlink(h)
  PROVE  HeapInv' /\ MinorsUnlinked(h)
  <1>1. MajorsUnlinked(h) /\ MajorsFormAList' /\ MinorsUnlinked(h) /\ InfoInv'
        /\ DOMAIN info' \subseteq Nat
    BY UnlinkMajors, UnlinkMinors
  <1>2. /\ DOMAIN major' \subseteq DOMAIN major /\ DOMAIN minor' \subseteq DOMAIN minor
        /\ major' \in [DOMAIN major' -> Major] /\ minor' \in [DOMAIN minor' -> Minor]
        /\ \A k \in DOMAIN major' : major'[k].size = major[k].size
    <2>1. /\ DOMAIN major' \subseteq DOMAIN major /\ major' \in [DOMAIN major' -> Major]
      BY <1>1 DEF MajorsUnlinked
    <2>2. /\ DOMAIN minor' \subseteq DOMAIN minor /\ minor' \in [DOMAIN minor' -> Minor]
      BY <1>1 DEF MinorsUnlinked
    <2>3. \A k \in DOMAIN major' : major'[k].size = major[k].size
      BY <1>1 DEF MajorsUnlinked
    <2> QED
      BY <2>1, <2>2, <2>3
  <1>3. HeaderTypes'
    <2>1. IsFiniteSet(DOMAIN major') /\ IsFiniteSet(DOMAIN minor')
      BY <1>2, FS_Subset DEF HeapInv, HeaderTypes
    <2> QED
      BY <1>1, <1>2, <2>1 DEF HeapInv, HeaderTypes
  <1>4. MajorsApart'
    <2>1. \A k \in DOMAIN major' : k \in DOMAIN major /\ MajorEnd(k)' = MajorEnd(k)
      BY <1>2 DEF MajorEnd
    <2> QED
      BY <1>2, <2>1 DEF HeapInv, MajorsApart
  <1>5. BlockInv'
    BY <1>1, UnlinkBlocks
  <1> QED
    BY <1>1, <1>3, <1>4, <1>5 DEF HeapInv

-----------------------------------------------------------------------------
(* The search.                                                             *)
LEMMA HolderFacts ==
  ASSUME LockInv, NEW t \in Threads, pc[t] \in Search
  PROVE  heap_lock = t /\ \A u \in Threads : u # t => pc[u] \notin Search
  BY DEF LockInv

LEMMA SearchStep ==
  ASSUME LockInv, CallInv, OwnerInv, NEW t \in Threads, pc[t] \in Search, NEW l \in Search,
         Goto(t, l), UNCHANGED <<heap_lock, call, own, minor, info>>
  PROVE  /\ LockInv' /\ CallInv' /\ OwnerInv' /\ pc'[t] = l
         /\ \A u \in Threads : u # t => pc'[u] \notin Search
  <1>1. /\ pc' = [pc EXCEPT ![t] = l]
        /\ pc \in [Threads -> Search \cup {"idle", "acquire", "copy", "drop", "fault"}]
    BY DEF Goto, LockInv
  <1>2. pc'[t] = l /\ \A u \in Threads : u # t => pc'[u] = pc[u]
    BY <1>1
  <1>3. LockInv'
    <2>1. pc' \in [Threads -> Search \cup {"idle", "acquire", "copy", "drop", "fault"}]
      BY <1>1
    <2> QED
      BY <1>2, <2>1, HolderFacts DEF LockInv
  <1>4. CallInv'
    <2>1. l # "idle" /\ l \notin {"acquire", "copy", "drop"}
      BY DEF Search
    <2>2. \A u \in Threads : u # t \/ (call[t].op # "none" /\ call[t].new = NULL)
      BY DEF CallInv, Search
    <2> QED
      BY <1>2, <2>1, <2>2 DEF CallInv
  <1>5. OwnerInv'
    <2>1. call[t].new = NULL
      BY DEF CallInv, Search
    <2>2. \A r : HasBlock(r)' = HasBlock(r)
      BY DEF HasBlock, HeaderOf, Live
    <2>3. \A u \in Threads : New(u)' = New(u)
      BY DEF New
    <2>4. OwnInv'
      BY <2>2 DEF OwnInv, OwnerInv
    <2>5. NewInv'
      BY <1>2, <2>1, <2>2, <2>3 DEF NewInv, OwnerInv
    <2>6. EachHasOwner'
      BY DEF EachHasOwner, OwnerInv, Live, Regions, HeaderOf
    <2> QED
      BY <2>4, <2>5, <2>6 DEF OwnerInv
  <1> QED
    BY <1>2, <1>3, <1>4, <1>5, HolderFacts

(* The locals of the search mean something to the holder of the lock only. *)
LEMMA HoldersWalk ==
  ASSUME NEW t \in Threads, (walk \in Walks)',
         \A u \in Threads : u # t => pc'[u] \notin Search,
         /\ pc'[t] \in Search \ {"root"} => walk'.maj \in DOMAIN major'
         /\ pc'[t] = "place" /\ major'[walk'.maj].first = NULL =>
              MajorHeader + Need(t)' <= major'[walk'.maj].size
         /\ pc'[t] = "minor" => walk'.min \in BlocksOf(walk.maj)'
         /\ pc'[t] \in {"grow1", "grow5"} => major'[walk'.maj].next = NULL
  PROVE  WalkInv'
  <1>1. {"place", "minor", "grow1", "grow5"} \subseteq Search
    BY DEF Search
  <1>2. ASSUME NEW u \in Threads
        PROVE  /\ pc'[u] \in Search \ {"root"} => walk'.maj \in DOMAIN major'
               /\ pc'[u] = "place" /\ major'[walk'.maj].first = NULL =>
                    MajorHeader + Need(u)' <= major'[walk'.maj].size
               /\ pc'[u] = "minor" => walk'.min \in BlocksOf(walk.maj)'
               /\ pc'[u] \in {"grow1", "grow5"} => major'[walk'.maj].next = NULL
    BY <1>1
  <1> QED
    BY <1>2 DEF WalkInv

LEMMA SameHeap ==
  ASSUME HeapInv, UNCHANGED <<major, minor, info, l_memRoot>>,
         l_bestBet' \in DOMAIN major \cup {NULL}
  PROVE  HeapInv'
  <1>1. \A m : MajorEnd(m)' = MajorEnd(m) /\ BlocksOf(m)' = BlocksOf(m)
    BY DEF MajorEnd, BlocksOf, Live
  <1>2. \A x : EndOf(x)' = EndOf(x) /\ Payload(x)' = Payload(x) /\ Diff(x)' = Diff(x)
               /\ HeaderOf(x)' = HeaderOf(x) /\ Bytes(x)' = Bytes(x)
    BY DEF EndOf, Payload, Diff, HeaderOf, Bytes
  <1>3. HeaderTypes' /\ MajorsApart' /\ InfoInv'
    BY <1>1, <1>2 DEF HeapInv, HeaderTypes, MajorsApart, InfoInv, Live
  <1>4. MajorsFormAList'
    BY SameListOfMajors DEF HeapInv
  <1>5. Live' = Live
    BY DEF Live
  <1>6. \A m \in DOMAIN major : FirstInv(m)'
    BY <1>1 DEF HeapInv, BlockInv, FirstInv
  <1>7. ASSUME NEW h \in Live
        PROVE  InsideInv(h)' /\ NextInv(h)' /\ PrevInv(h)'
    <2>1. InsideInv(h) /\ NextInv(h) /\ PrevInv(h)
      BY LiveFacts
    <2>2. InsideInv(h)'
      BY <1>1, <1>2, <2>1 DEF InsideInv
    <2>3. BlocksOf(minor[h].block)' = BlocksOf(minor[h].block)
      BY DEF BlocksOf, Live
    <2>4. NextInv(h)' /\ PrevInv(h)'
      BY <1>2, <2>1, <2>3 DEF NextInv, PrevInv
    <2> QED
      BY <2>2, <2>4
  <1>8. BlockInv'
    BY <1>5, <1>6, <1>7 DEF BlockInv
  <1> QED
    BY <1>3, <1>4, <1>8 DEF HeapInv

LEMMA HeapLinks ==
  ASSUME HeapInv
  PROVE  /\ l_bestBet \in DOMAIN major \cup {NULL} /\ l_memRoot \in DOMAIN major \cup {NULL}
         /\ NULL \notin DOMAIN major /\ NULL \in Nat /\ DOMAIN major \subseteq Nat
         /\ \A m \in DOMAIN major : major[m].next \in DOMAIN major \cup {NULL}
  BY DEF HeapInv, MajorsFormAList, HeaderTypes, NULL

LEMMA RoomType ==
  ASSUME HeapInv, NEW m \in DOMAIN major
  PROVE  Room(m) \in Int /\ m \in Nat
  BY MajorTypes DEF HeapInv, Room

LEMMA StartWalkKeepsHeapOK ==
  ASSUME HeapOK, NEW t \in Threads, StartWalk(t)
  PROVE  HeapOK'
  <1> USE DEF HeapOK
  <1>1. pc[t] \in Search /\ "major" \in Search
    BY DEF StartWalk, Search
  <1>2. Goto(t, "major") /\ UNCHANGED <<heap_lock, heap, call, own>>
    BY DEF StartWalk
  <1>3. UNCHANGED <<major, minor, info, l_memRoot, l_bestBet>>
    BY <1>2 DEF heap, blocks
  <1>4. HeapInv'
    BY <1>3, HeapLinks, SameHeap
  <1>5. /\ LockInv' /\ CallInv' /\ OwnerInv' /\ pc'[t] = "major"
        /\ \A u \in Threads : u # t => pc'[u] \notin Search
    BY <1>1, <1>2, <1>3, SearchStep
  <1>6. l_memRoot \in DOMAIN major /\ (l_bestBet # NULL => l_bestBet \in DOMAIN major)
    BY HeapLinks DEF StartWalk
  <1>7. walk'.maj \in DOMAIN major' /\ walk' \in Walks
    <2> PICK best : best = IF l_bestBet = NULL THEN 0 ELSE Room(l_bestBet)
      OBVIOUS
    <2> PICK bet \in BOOLEAN : bet = (l_bestBet # NULL /\ best > Need(t))
      OBVIOUS
    <2>1. walk' = [maj |-> IF bet THEN l_bestBet ELSE l_memRoot, min |-> NULL,
                   bestSize |-> best, startedBet |-> bet]
      BY DEF StartWalk
    <2>2. best \in Int
      BY <1>6, RoomType
    <2>3. walk'.maj \in DOMAIN major
      BY <1>6, <2>1
    <2> QED
      BY <1>3, <2>1, <2>2, <2>3, HeapLinks DEF Walks
  <1>8. WalkInv'
    BY <1>5, <1>7, HoldersWalk
  <1> QED
    BY <1>4, <1>5, <1>8

LEMMA PastTheEndFacts ==
  ASSUME HeapInv, NEW t \in Threads, NEW w \in Walks, NEW g, PastTheEnd(t, w, g),
         w.maj \in DOMAIN major
  PROVE  \E l \in {"major", g} :
           /\ Goto(t, l) /\ walk' \in Walks /\ walk'.maj \in DOMAIN major
           /\ l = "major" \/ walk'.maj = w.maj
  <1>1. CASE w.startedBet
    <2>1. l_memRoot \in DOMAIN major
      <3>1. l_memRoot # NULL
        <4> DEFINE S == {NULL}
        <4>1. l_memRoot = NULL => DOMAIN major \subseteq S
          <5>1. S \in SUBSET (DOMAIN major \cup {NULL}) /\ ClosedUnderNext(S)
            BY DEF ClosedUnderNext
          <5> QED
            BY <5>1 DEF HeapInv, MajorsFormAList
        <4> QED
          BY <4>1, HeapLinks
      <3> QED
        BY <3>1, HeapLinks
    <2>2. Goto(t, "major") /\ walk' = [w EXCEPT !.maj = l_memRoot, !.startedBet = FALSE]
      BY <1>1 DEF PastTheEnd
    <2>3. l_memRoot \in Nat
      BY <2>1, HeapLinks
    <2>4. walk' \in Walks /\ walk'.maj = l_memRoot
      BY <2>2, <2>3 DEF Walks
    <2> QED
      BY <2>1, <2>2, <2>4
  <1>2. CASE ~w.startedBet
    BY <1>2 DEF PastTheEnd
  <1> QED
    BY <1>1, <1>2

LEMMA VisitMajorKeepsHeapOK ==
  ASSUME HeapOK, NEW t \in Threads, VisitMajor(t)
  PROVE  HeapOK'
  <1> USE DEF HeapOK
  <1>1. pc[t] = "major" /\ pc[t] \in Search \ {"root"} /\ {"major", "place", "grow1"} \subseteq Search
    BY DEF VisitMajor, Search
  <1> PICK m : m = walk.maj
    OBVIOUS
  <1>2. m \in DOMAIN major /\ walk \in Walks
    BY <1>1 DEF WalkInv
  <1> PICK better : better = (walk.bestSize < Room(m))
    OBVIOUS
  <1> PICK w : w = [walk EXCEPT !.bestSize = IF better THEN Room(m) ELSE @]
    OBVIOUS
  <1>3. w \in Walks /\ w.maj = m
    BY <1>2, RoomType DEF Walks
  <1>4. /\ l_bestBet' = IF better THEN m ELSE l_bestBet
        /\ UNCHANGED <<heap_lock, major, minor, info, l_memRoot, call, own>>
    BY DEF VisitMajor, blocks
  <1>5. HeapInv'
    BY <1>2, <1>4, HeapLinks, SameHeap
  <1>6. \/ Room(m) >= Need(t) /\ Goto(t, "place") /\ walk' = w
        \/ major[m].next # NULL /\ walk' = [w EXCEPT !.maj = major[m].next] /\ UNCHANGED pc
        \/ major[m].next = NULL /\ PastTheEnd(t, w, "grow1")
    BY DEF VisitMajor
  <1>7. \E l \in {"major", "place", "grow1"} :
          /\ Goto(t, l) /\ walk' \in Walks /\ walk'.maj \in DOMAIN major
          /\ l = "place" => walk'.maj = m /\ Room(m) >= Need(t)
          /\ l = "grow1" => walk'.maj = m /\ major[m].next = NULL
    <2>1. CASE Room(m) >= Need(t) /\ Goto(t, "place") /\ walk' = w
      BY <1>2, <1>3, <2>1
    <2>2. CASE major[m].next # NULL /\ walk' = [w EXCEPT !.maj = major[m].next] /\ UNCHANGED pc
      <3>1. Goto(t, "major")
        BY <1>1, <2>2 DEF Goto, LockInv
      <3>2. major[m].next \in DOMAIN major /\ major[m].next \in Nat
        BY <1>2, <2>2, HeapLinks
      <3>3. walk' \in Walks /\ walk'.maj = major[m].next
        BY <1>3, <2>2, <3>2 DEF Walks
      <3> QED
        BY <3>1, <3>2, <3>3
    <2>3. CASE major[m].next = NULL /\ PastTheEnd(t, w, "grow1")
      <3> PICK l \in {"major", "grow1"} :
             /\ Goto(t, l) /\ walk' \in Walks /\ walk'.maj \in DOMAIN major
             /\ l = "major" \/ walk'.maj = w.maj
        BY <1>2, <1>3, <2>3, PastTheEndFacts
      <3> QED
        BY <1>3, <2>3
    <2> QED
      BY <1>6, <2>1, <2>2, <2>3
  <1> PICK l \in {"major", "place", "grow1"} :
          /\ Goto(t, l) /\ walk' \in Walks /\ walk'.maj \in DOMAIN major
          /\ l = "place" => walk'.maj = m /\ Room(m) >= Need(t)
          /\ l = "grow1" => walk'.maj = m /\ major[m].next = NULL
    BY <1>7
  <1>8. /\ LockInv' /\ CallInv' /\ OwnerInv' /\ pc'[t] = l
        /\ \A u \in Threads : u # t => pc'[u] \notin Search
    BY <1>1, <1>4, SearchStep
  <1>9. l = "place" /\ major[m].first = NULL => MajorHeader + Need(t) <= major[m].size
    <2>1. major[m].first = NULL => major[m].usage = MajorHeader
      BY <1>2 DEF HeapInv, BlockInv, FirstInv
    <2>2. major[m].size \in Nat /\ Room(m) = major[m].size - major[m].usage /\ Need(t) \in Nat
      BY <1>2, MajorTypes, NeedType DEF HeapInv, Room
    <2> QED
      BY <2>1, <2>2, SizesAssumption
  <1>10. Need(t)' = Need(t)
    BY <1>4 DEF Need, Size, Bytes
  <1>11. WalkInv'
    BY <1>4, <1>8, <1>9, <1>10, HoldersWalk
  <1> QED
    BY <1>5, <1>8, <1>11

LEMMA NextMajorKeepsHeapOK ==
  ASSUME HeapOK, NEW t \in Threads, NextMajor(t)
  PROVE  HeapOK'
  <1> USE DEF HeapOK
  <1>1. pc[t] \in Search \ {"root"} /\ {"major", "grow5"} \subseteq Search
    BY DEF NextMajor, Search
  <1> PICK m : m = walk.maj
    OBVIOUS
  <1>2. m \in DOMAIN major /\ walk \in Walks
    BY <1>1 DEF WalkInv
  <1>3. UNCHANGED <<heap_lock, major, minor, info, l_memRoot, l_bestBet, call, own>>
    BY DEF NextMajor, heap, blocks
  <1>4. HeapInv'
    BY <1>3, HeapLinks, SameHeap
  <1>5. \E l \in {"major", "grow5"} :
          /\ Goto(t, l) /\ walk' \in Walks /\ walk'.maj \in DOMAIN major
          /\ l = "grow5" => walk'.maj = m /\ major[m].next = NULL
    <2>1. CASE major[m].next = NULL
      BY <1>2, <2>1, PastTheEndFacts DEF NextMajor
    <2>2. CASE major[m].next # NULL
      <3>1. Goto(t, "major") /\ walk' = [walk EXCEPT !.maj = major[m].next]
        BY <2>2 DEF NextMajor
      <3>2. major[m].next \in DOMAIN major /\ major[m].next \in Nat
        BY <1>2, <2>2, HeapLinks
      <3>3. walk' \in Walks /\ walk'.maj = major[m].next
        BY <1>2, <3>1, <3>2 DEF Walks
      <3> QED
        BY <3>1, <3>2, <3>3
    <2> QED
      BY <2>1, <2>2
  <1> PICK l \in {"major", "grow5"} :
          /\ Goto(t, l) /\ walk' \in Walks /\ walk'.maj \in DOMAIN major
          /\ l = "grow5" => walk'.maj = m /\ major[m].next = NULL
    BY <1>5
  <1>6. /\ LockInv' /\ CallInv' /\ OwnerInv' /\ pc'[t] = l
        /\ \A u \in Threads : u # t => pc'[u] \notin Search
    BY <1>1, <1>3, SearchStep
  <1>7. WalkInv'
    BY <1>3, <1>6, HoldersWalk
  <1> QED
    BY <1>4, <1>6, <1>7

-----------------------------------------------------------------------------
(* What a call returns becomes its caller's, or the new block of the       *)
(* caller's krealloc.                                                      *)
BlocksKept ==
  \A p \in DOMAIN info : HeaderOf(p) \in Live =>
    /\ p \in DOMAIN info' /\ HeaderOf(p)' = HeaderOf(p) /\ HeaderOf(p) \in Live'
    /\ minor'[HeaderOf(p)].req_size = minor[HeaderOf(p)].req_size

LEMMA KeptBlocks ==
  ASSUME BlocksKept, NEW r, HasBlock(r)
  PROVE  HasBlock(r)' /\ HeaderOf(r.ptr)' = HeaderOf(r.ptr) /\ HeaderOf(r.ptr) \in Live
  BY DEF BlocksKept, HasBlock

RegionsIn(o, c) ==
  (UNION {o[t] : t \in Threads})
    \cup {[ptr |-> c[t].new, n |-> c[t].n] : t \in {u \in Threads : c[u].new # NULL}}

LEMMA RegionsOf ==
  ASSUME NEW o, NEW c, NEW r
  PROVE  r \in RegionsIn(o, c) <=>
           \E t \in Threads : \/ r \in o[t]
                              \/ c[t].new # NULL /\ r = [ptr |-> c[t].new, n |-> c[t].n]
  <1> DEFINE owned == UNION {o[t] : t \in Threads}
             f(t)  == [ptr |-> c[t].new, n |-> c[t].n]
             back  == {u \in Threads : c[u].new # NULL}
             new   == {f(t) : t \in back}
  <1>1. r \in owned <=> \E t \in Threads : r \in o[t]
    OBVIOUS
  <1>2. r \in new <=> \E t \in Threads : c[t].new # NULL /\ r = f(t)
    <2>1. \A t : t \in back <=> t \in Threads /\ c[t].new # NULL
      OBVIOUS
    <2> HIDE DEF back
    <2>2. ASSUME r \in new
          PROVE  \E t \in Threads : c[t].new # NULL /\ r = f(t)
      <3>1. PICK t \in back : r = f(t)
        BY <2>2, Zenon
      <3> QED
        BY <2>1, <3>1
    <2>3. ASSUME NEW t \in Threads, c[t].new # NULL, r = f(t)
          PROVE  r \in new
      <3>1. t \in back
        BY <2>1, <2>3
      <3> QED
        BY <2>3, <3>1, Zenon
    <2> QED
      BY <2>2, <2>3
  <1>3. RegionsIn(o, c) = owned \cup new
    BY Zenon DEF RegionsIn
  <1> HIDE DEF owned, new
  <1>4. r \in RegionsIn(o, c) <=> r \in owned \/ r \in new
    BY <1>3
  <1> QED
    BY <1>1, <1>2, <1>4

LEMMA RegionsAre ==
  /\ \A r : r \in Regions <=> \E t \in Threads : r \in own[t] \/ (call[t].new # NULL /\ r = New(t))
  /\ \A r : r \in Regions' <=> \E t \in Threads : r \in own'[t] \/ (call'[t].new # NULL /\ r = New(t)')
  <1>1. ASSUME NEW r
        PROVE  r \in Regions <=> \E t \in Threads : r \in own[t] \/ (call[t].new # NULL /\ r = New(t))
    <2>1. r \in Regions <=> \E t \in Threads :
                              \/ r \in own[t]
                              \/ call[t].new # NULL /\ r = [ptr |-> call[t].new, n |-> call[t].n]
      <3>1. Regions = RegionsIn(own, call)
        BY DEF Regions, RegionsIn
      <3>2. r \in RegionsIn(own, call) <=> \E t \in Threads :
                              \/ r \in own[t]
                              \/ call[t].new # NULL /\ r = [ptr |-> call[t].new, n |-> call[t].n]
        BY RegionsOf
      <3> QED
        BY <3>1, <3>2, Zenon
    <2> QED
      BY <2>1, Zenon DEF New
  <1>2. ASSUME NEW r
        PROVE  r \in Regions' <=> \E t \in Threads : r \in own'[t] \/ (call'[t].new # NULL /\ r = New(t)')
    <2>1. r \in Regions' <=> \E t \in Threads :
                              \/ r \in own'[t]
                              \/ call'[t].new # NULL /\ r = [ptr |-> call'[t].new, n |-> call'[t].n]
      <3>1. Regions' = RegionsIn(own', call')
        BY DEF Regions, RegionsIn
      <3>2. r \in RegionsIn(own', call') <=> \E t \in Threads :
                              \/ r \in own'[t]
                              \/ call'[t].new # NULL /\ r = [ptr |-> call'[t].new, n |-> call'[t].n]
        BY RegionsOf
      <3> QED
        BY <3>1, <3>2, Zenon
    <2> QED
      BY <2>1, Zenon DEF New
  <1> QED
    BY <1>1, <1>2

LEMMA RegionFacts ==
  ASSUME OwnerInv
  PROVE  /\ \A r : r \in Regions <=> \E t \in Threads : r \in own[t] \/ (call[t].new # NULL /\ r = New(t))
         /\ \A r \in Regions : HasBlock(r)
         /\ \A r, s \in Regions : r.ptr = s.ptr => r = s
  <1>1. \A r : r \in Regions <=> \E t \in Threads : r \in own[t] \/ (call[t].new # NULL /\ r = New(t))
    BY RegionsAre
  <1>2. \A r \in Regions : HasBlock(r)
    BY <1>1 DEF OwnerInv, OwnInv, NewInv
  <1>3. \A t, u \in Threads : \A r \in own[t] : \A s \in own[u] : r.ptr = s.ptr => r = s
    BY DEF OwnerInv, OwnInv
  <1>4. \A t, u \in Threads : \A r \in own[u] :
          call[t].new # NULL /\ r.ptr = New(t).ptr => r = New(t)
    <2> SUFFICES ASSUME NEW t \in Threads, NEW u \in Threads, NEW r \in own[u],
                        call[t].new # NULL, r.ptr = New(t).ptr
                 PROVE  r = New(t)
      OBVIOUS
    <2>1. New(t).ptr = call[t].new
      BY DEF New
    <2>2. New(t) \in own[t]
      BY <2>1 DEF OwnerInv, NewInv
    <2> QED
      BY <1>3, <2>2
  <1>5. \A t, u \in Threads : call[t].new # NULL /\ call[u].new # NULL /\ New(t).ptr = New(u).ptr
                                => New(t) = New(u)
    <2> SUFFICES ASSUME NEW t \in Threads, NEW u \in Threads,
                        call[t].new # NULL, call[u].new # NULL, New(t).ptr = New(u).ptr
                 PROVE  New(t) = New(u)
      OBVIOUS
    <2>1. call[t].new = call[u].new
      BY DEF New
    <2> QED
      BY <2>1 DEF OwnerInv, NewInv
  <1>6. ASSUME NEW r \in Regions, NEW s \in Regions, r.ptr = s.ptr
        PROVE  r = s
    <2>1. PICK t \in Threads : r \in own[t] \/ (call[t].new # NULL /\ r = New(t))
      BY <1>1
    <2>2. PICK u \in Threads : s \in own[u] \/ (call[u].new # NULL /\ s = New(u))
      BY <1>1
    <2> QED
      BY <1>3, <1>4, <1>5, <1>6, <2>1, <2>2
  <1> QED
    BY <1>1, <1>2, <1>6

LEMMA ReturnKeepsOwners ==
  ASSUME LockInv, CallInv, OwnerInv, NEW t \in Threads, pc[t] \in Search, NEW ptr \in Nat,
         NEW x, x = [ptr |-> ptr, n |-> call[t].n], Return(t, ptr), BlocksKept,
         ptr = NULL => Live' = Live,
         ptr # NULL => /\ Live' = Live \cup {HeaderOf(ptr)'}
                       /\ HasBlock(x)'
                       /\ \A p \in DOMAIN info : HeaderOf(p) \in Live => p # ptr
  PROVE  LockInv' /\ CallInv' /\ WalkInv' /\ OwnerInv'
  <1> DEFINE re == call[t].op = "realloc"

  <1> PICK n : n = call[t].n
    OBVIOUS
  <1>1. /\ heap_lock' = Nobody /\ walk' = NoWalk
        /\ \E l \in {"copy", "fault", "idle"} : Goto(t, l) /\ (re <=> l = "copy")
        /\ call' = [call EXCEPT ![t] = IF re THEN [call[t] EXCEPT !.new = ptr] ELSE NoCall]
        /\ own' = IF ptr = NULL \/ re THEN own
                  ELSE [own EXCEPT ![t] = @ \cup {[ptr |-> ptr, n |-> n]}]
    BY DEF Return
  <1> PICK l \in {"copy", "fault", "idle"} : Goto(t, l) /\ (re <=> l = "copy")
    BY <1>1
  <1>2. /\ call \in [Threads -> Calls] /\ call[t] \in Calls /\ n \in Nat /\ call[t].new = NULL
        /\ pc \in [Threads -> Search \cup {"idle", "acquire", "copy", "drop", "fault"}]
        /\ \A u \in Threads : u # t => pc[u] \notin Search
        /\ own \in [Threads -> SUBSET Region]
    BY HolderFacts DEF CallInv, LockInv, OwnerInv, OwnInv, Search, Calls
  <1>3. /\ pc' = [pc EXCEPT ![t] = l] /\ pc'[t] = l
        /\ \A u \in Threads : u # t => pc'[u] = pc[u] /\ call'[u] = call[u] /\ own'[u] = own[u]
    BY <1>1, <1>2 DEF Goto
  <1>4. \A u \in Threads : pc'[u] \notin Search
    BY <1>2, <1>3 DEF Search
  <1>5. LockInv'
    BY <1>1, <1>2, <1>3, <1>4, ThreadsAssumption DEF LockInv
  <1>6. WalkInv'
    <2>1. NoWalk \in Walks
      BY DEF NoWalk, Walks, NULL
    <2> QED
      BY <1>1, <1>4, <2>1 DEF WalkInv, Search
  <1>7. /\ re => call'[t] \in Calls /\ call'[t].new = ptr /\ call'[t].n = n /\ call'[t].op = "realloc"
                 /\ call'[t].old = call[t].old /\ call'[t].len = call[t].len
        /\ ~re => call'[t] = NoCall /\ NoCall \in Calls /\ NoCall.new = NULL
                  /\ NoCall.op = "none"
    <2>1. NoCall \in Calls /\ NoCall.new = NULL /\ NoCall.op = "none"
      BY DEF NoCall, Calls, NULL
    <2>2. ~re => call'[t] = NoCall
      BY <1>1, <1>2
    <2>3. re => call'[t] = [call[t] EXCEPT !.new = ptr]
      BY <1>1, <1>2
    <2>4. re => call'[t] \in Calls /\ call'[t].new = ptr /\ call'[t].n = n /\ call'[t].op = "realloc"
                 /\ call'[t].old = call[t].old /\ call'[t].len = call[t].len
      BY <1>2, <2>3 DEF Calls
    <2> QED
      BY <2>1, <2>2, <2>4
  <1>8. \A u \in Threads : own[u] \subseteq own'[u]
    BY <1>1, <1>2
  <1>9. CallInv'
    <2>1. call' \in [Threads -> Calls]
      BY <1>1, <1>2, <1>7
    <2>2. \A u \in Threads : u # t =>
       /\ pc'[u] = "idle" => call'[u] = NoCall
       /\ pc'[u] \in Search => call'[u].op # "none"
       /\ pc'[u] \in {"acquire", "copy", "drop"} => call'[u].op = "realloc"
       /\ call'[u].new # NULL => pc'[u] \in {"copy", "drop"}
       /\ call'[u].op = "realloc" => /\ [ptr |-> call'[u].old, n |-> call'[u].len] \in own'[u]
                                     /\ call'[u].len < call'[u].n
      BY <1>3 DEF CallInv
    <2>3. /\ pc'[t] = "idle" => call'[t] = NoCall
          /\ pc'[t] \in Search => call'[t].op # "none"
          /\ pc'[t] \in {"acquire", "copy", "drop"} => call'[t].op = "realloc"
          /\ call'[t].new # NULL => pc'[t] \in {"copy", "drop"}
      BY <1>3, <1>4, <1>7
    <2>4. call'[t].op = "realloc" => /\ [ptr |-> call'[t].old, n |-> call'[t].len] \in own'[t]
                                     /\ call'[t].len < call'[t].n
      <3>1. re => [ptr |-> call[t].old, n |-> call[t].len] \in own[t] /\ call[t].len < call[t].n
        BY DEF CallInv
      <3> QED
        BY <1>7, <1>8, <3>1
    <2> QED
      BY <2>1, <2>2, <2>3, <2>4 DEF CallInv
  <1>10. \A s \in Regions : HasBlock(s) /\ HasBlock(s)' /\ (ptr # NULL => s.ptr # ptr)
                            /\ HeaderOf(s.ptr)' = HeaderOf(s.ptr)
    <2> SUFFICES ASSUME NEW s \in Regions
                 PROVE  HasBlock(s) /\ HasBlock(s)' /\ (ptr # NULL => s.ptr # ptr)
                        /\ HeaderOf(s.ptr)' = HeaderOf(s.ptr)
      OBVIOUS
    <2>1. HasBlock(s)
      BY RegionFacts
    <2> QED
      BY <2>1, KeptBlocks DEF HasBlock
  <1>11. \A u \in Threads : /\ own[u] \subseteq Regions
                            /\ call[u].new # NULL => New(u) \in Regions /\ New(u).ptr = call[u].new
    BY RegionFacts DEF New
  <1>12. \A u \in Threads :
           own'[u] = IF u = t /\ ptr # NULL /\ ~re THEN own[u] \cup {[ptr |-> ptr, n |-> n]} ELSE own[u]
    BY <1>1, <1>2
  <1>13. \A u \in Threads : u # t => New(u)' = New(u)
    BY <1>3 DEF New
  <1>14. x.ptr = ptr /\ (ptr # NULL => HasBlock(x)' /\ x \in Region)
    BY <1>2 DEF Region
  <1>15. OwnInv'
    <2>1. own' \in [Threads -> SUBSET Region]
      <3>1. \A u \in Threads : own'[u] \in SUBSET Region
        BY <1>2, <1>12, <1>14
      <3> QED
        BY <1>1, <1>2, <3>1
    <2>2. \A u \in Threads : \A s \in own'[u] : HasBlock(s)'
      BY <1>10, <1>11, <1>12, <1>14
    <2>3. \A u, v \in Threads : \A s \in own[u] : \A y \in own[v] : s.ptr = y.ptr => s = y /\ u = v
      BY DEF OwnerInv, OwnInv
    <2>4. \A u, v \in Threads : \A s \in own'[u] : \A y \in own'[v] : s.ptr = y.ptr => s = y /\ u = v
      <3> SUFFICES ASSUME NEW u \in Threads, NEW v \in Threads, NEW s \in own'[u], NEW y \in own'[v],
                          s.ptr = y.ptr
                   PROVE  s = y /\ u = v
        OBVIOUS
      <3>1. s \in own[u] \/ (u = t /\ s = x /\ ptr # NULL)
        BY <1>12
      <3>2. y \in own[v] \/ (v = t /\ y = x /\ ptr # NULL)
        BY <1>12
      <3>3. \A z \in own[u] \cup own[v] : ptr # NULL => z.ptr # x.ptr
        BY <1>10, <1>11, <1>14
      <3> QED
        BY <2>3, <3>1, <3>2, <3>3
    <2> QED
      BY <2>1, <2>2, <2>4 DEF OwnInv
  <1>16. NewInv'
    <2> SUFFICES ASSUME NEW u \in Threads, call'[u].new # NULL
                 PROVE  /\ HasBlock(New(u))'
                        /\ \A v \in Threads : call'[v].new = call'[u].new => v = u
                        /\ \/ pc'[u] = "drop" /\ New(u)' \in own'[u] /\ call'[u].new # call'[u].old
                           \/ pc'[u] = "copy" /\ \A v \in Threads : \A s \in own'[v] : s.ptr # call'[u].new
      BY DEF NewInv
    <2>1. CASE u = t
      <3>1. re /\ call'[t].new = ptr /\ ptr # NULL /\ pc'[t] = "copy" /\ own' = own
        BY <1>1, <1>3, <1>7, <2>1
      <3>2. New(t)' = x
        BY <1>7, <3>1 DEF New
      <3>4. \A v \in Threads : call'[v].new = ptr => v = t
        BY <1>3, <1>10, <1>11, <3>1
      <3>5. \A v \in Threads : \A s \in own'[v] : s.ptr # ptr
        BY <1>10, <1>11, <3>1
      <3>6. HasBlock(New(t))'
        BY <1>14, <3>1, <3>2 DEF HasBlock
      <3> QED
        BY <2>1, <3>1, <3>4, <3>5, <3>6
    <2>2. CASE u # t
      <3>1. call'[u] = call[u] /\ pc'[u] = pc[u] /\ own'[u] = own[u] /\ New(u)' = New(u)
            /\ call[u].new # NULL
        BY <1>3, <1>13, <2>2
      <3>2. /\ \A v \in Threads : call[v].new = call[u].new => v = u
            /\ \/ pc[u] = "drop" /\ New(u) \in own[u] /\ call[u].new # call[u].old
               \/ pc[u] = "copy" /\ \A v \in Threads : \A s \in own[v] : s.ptr # call[u].new
        BY <3>1 DEF OwnerInv, NewInv
      <3>3. New(u) \in Regions /\ New(u).ptr = call[u].new
        BY <1>11, <3>1
      <3>4. ptr # NULL => call[u].new # ptr
        BY <1>10, <3>3
      <3>5. HasBlock(New(u))'
        <4> PICK y : y = New(u)
          OBVIOUS
        <4>1. HasBlock(y)'
          BY <1>10, <3>3
        <4> QED
          BY <3>1, <4>1 DEF HasBlock
      <3>6. \A v \in Threads : call'[v].new = call[u].new => v = u
        BY <1>3, <1>7, <2>2, <3>1, <3>2, <3>4
      <3>7. (\A v \in Threads : \A s \in own[v] : s.ptr # call[u].new)
              => \A v \in Threads : \A s \in own'[v] : s.ptr # call[u].new
        BY <1>12, <1>14, <3>4
      <3> QED
        BY <3>1, <3>2, <3>5, <3>6, <3>7
    <2> QED
      BY <2>1, <2>2
  <1>17. /\ \A s \in Regions : s \in Regions'
         /\ ptr # NULL => x \in Regions'
    <2>1. \A s : s \in Regions' <=> \E u \in Threads : \/ s \in own'[u]
                                                       \/ call'[u].new # NULL /\ s = New(u)'
      BY RegionsAre
    <2>2. \A s \in Regions : \E u \in Threads : s \in own[u] \/ (call[u].new # NULL /\ s = New(u))
      BY RegionFacts
    <2>3. \A s \in Regions : s \in Regions'
      BY <1>2, <1>3, <1>8, <1>13, <2>1, <2>2
    <2>4. ptr # NULL /\ ~re => x \in own'[t]
      BY <1>12
    <2>5. ptr # NULL /\ re => call'[t].new # NULL /\ x = New(t)'
      BY <1>7 DEF New
    <2> QED
      BY <2>1, <2>3, <2>4, <2>5
  <1>18. EachHasOwner'
    <2> SUFFICES ASSUME NEW h \in Live'
                 PROVE  \E s \in Regions' : HeaderOf(s.ptr)' = h
      BY DEF EachHasOwner
    <2>1. CASE h \in Live
      <3>1. PICK s \in Regions : HeaderOf(s.ptr) = h
        BY <2>1 DEF OwnerInv, EachHasOwner
      <3> QED
        BY <1>10, <1>17, <3>1
    <2>2. CASE h \notin Live
      <3>1. ptr # NULL /\ h = HeaderOf(ptr)'
        BY <2>2
      <3> QED
        BY <1>14, <1>17, <3>1
    <2> QED
      BY <2>1, <2>2
  <1> QED
    BY <1>5, <1>6, <1>9, <1>15, <1>16, <1>18 DEF OwnerInv

LEMMA SameBlocksKept ==
  ASSUME UNCHANGED <<minor, info>>
  PROVE  BlocksKept /\ Live' = Live
  BY DEF BlocksKept, Live, HeaderOf

LEMMA ReturnNull ==
  ASSUME HeapOK, NEW t \in Threads, pc[t] \in Search, Return(t, NULL),
         UNCHANGED <<major, minor, info, l_memRoot, l_bestBet>>
  PROVE  HeapOK'
  <1> USE DEF HeapOK
  <1>1. HeapInv'
    BY HeapLinks, SameHeap
  <1>2. NULL \in Nat
    BY DEF NULL
  <1> PICK x : x = [ptr |-> NULL, n |-> call[t].n]
    OBVIOUS
  <1>3. LockInv' /\ CallInv' /\ WalkInv' /\ OwnerInv'
    BY <1>2, SameBlocksKept, ReturnKeepsOwners
  <1> QED
    BY <1>1, <1>3

LEMMA InsertKeepsHeapOK ==
  ASSUME HeapOK, NEW t \in Threads, pc[t] \in Search, NEW h \in Nat \ {NULL}, NEW pr, NEW nx,
         IsGap(t, h, pr, nx), Insert(t, h, pr, nx)
  PROVE  HeapOK'
  <1> USE DEF HeapOK
  <1> PICK ptr : ptr = Payload(h)
    OBVIOUS
  <1> PICK x : x = [ptr |-> ptr, n |-> call[t].n]
    OBVIOUS
  <1>1. Return(t, ptr)
    BY DEF Insert
  <1>2. /\ HeaderOf(ptr)' = h /\ ptr \in DOMAIN info' /\ DOMAIN info' \subseteq Nat
        /\ \A p \in DOMAIN info : HeaderOf(p) \in Live =>
             p # ptr /\ p \in DOMAIN info' /\ HeaderOf(p)' = HeaderOf(p)
    BY InsertInfo
  <1>3. MinorsInserted(t, h, pr, nx)
    BY InsertMinors
  <1>4. BlocksKept
    BY <1>2, <1>3 DEF BlocksKept, MinorsInserted
  <1>5. Live' = Live \cup {h} /\ minor'[h].req_size = call[t].n
    BY <1>3 DEF MinorsInserted
  <1>6. HasBlock(x)'
    BY <1>2, <1>5 DEF HasBlock
  <1>7. ptr \in Nat /\ ptr # NULL
    BY PayloadType DEF NULL
  <1>8. LockInv' /\ CallInv' /\ WalkInv' /\ OwnerInv'
    BY <1>1, <1>2, <1>4, <1>5, <1>6, <1>7, ReturnKeepsOwners
  <1>9. HeapInv'
    BY InsertKeepsHeap
  <1> QED
    BY <1>8, <1>9

(* Where Place and VisitMinor put a block there is a gap.                  *)
LEMMA PlaceGap ==
  ASSUME HeapOK, NEW t \in Threads, pc[t] = "place",
         major[walk.maj].first = NULL \/ major[walk.maj].first - walk.maj - MajorHeader >= Need(t)
  PROVE  IsGap(t, walk.maj + MajorHeader, NULL, major[walk.maj].first)
  <1> USE DEF HeapOK
  <1> PICK m : m = walk.maj
    OBVIOUS
  <1> PICK first : first = major[m].first
    OBVIOUS
  <1> DEFINE B == BlocksOf(m)
             h == m + MajorHeader
  <1>1. pc[t] \in Search \ {"root"}
    BY DEF Search
  <1>2. /\ m \in DOMAIN major /\ FirstInv(m)
        /\ first = NULL => MajorHeader + Need(t) <= major[m].size
    BY <1>1 DEF WalkInv, HeapInv, BlockInv
  <1>3. /\ m \in Nat \ {0} /\ first \in Nat /\ major[m].size \in Nat /\ MajorEnd(m) = m + major[m].size
        /\ Need(t) \in Nat \ {0}
    BY <1>2, MajorTypes, NeedType, SizesAssumption DEF HeapInv, MajorEnd
  <1>4. h \in Nat \ {NULL}
    BY <1>3, SizesAssumption DEF NULL
  <1>5. first \in B \cup {NULL} /\ \A x \in B : first # NULL /\ first <= x
    BY <1>2 DEF FirstInv
  <1>6. first # NULL => h + Need(t) <= first
    BY <1>3, SizesAssumption
  <1>7. h + Need(t) <= MajorEnd(m)
    <2>1. CASE first = NULL
      BY <1>2, <1>3, <2>1, SizesAssumption
    <2>2. CASE first # NULL
      <3>1. first \in Live /\ minor[first].block = m
        BY <1>5, <2>2 DEF BlocksOf
      <3>2. EndOf(first) \in Nat /\ first < EndOf(first) /\ EndOf(first) <= MajorEnd(m)
        BY <3>1, LiveFacts, MinorTypes DEF HeapInv, InsideInv
      <3> QED
        BY <1>3, <1>6, <2>2, <3>2, SizesAssumption
    <2> QED
      BY <2>1, <2>2
  <1>8. \A x \in B : h + Need(t) <= x /\ x \in Nat
    <2>1. \A x \in B : x \in Nat
      BY LiveFacts, MinorTypes DEF HeapInv, BlocksOf
    <2> QED
      BY <1>3, <1>5, <1>6, <2>1, SizesAssumption
  <1> HIDE DEF h
  <1>9. m + MajorHeader <= h
    BY <1>3, <1>4, SizesAssumption DEF h
  <1>10. IsGap(t, h, NULL, first)
    BY <1>2, <1>5, <1>6, <1>7, <1>8, <1>9 DEF IsGap
  <1> QED
    BY <1>10 DEF h

LEMMA MinorGap ==
  ASSUME HeapOK, NEW t \in Threads, pc[t] = "minor", GapBehind(walk.min) >= Need(t)
  PROVE  IsGap(t, EndOf(walk.min), walk.min, minor[walk.min].next)
  <1> USE DEF HeapOK
  <1> PICK m : m = walk.maj
    OBVIOUS
  <1> PICK h : h = walk.min
    OBVIOUS
  <1> PICK nx : nx = minor[h].next
    OBVIOUS
  <1> PICK e : e = EndOf(h)
    OBVIOUS
  <1> DEFINE B == BlocksOf(m)
  <1>1. pc[t] \in Search \ {"root"}
    BY DEF Search
  <1>2. m \in DOMAIN major /\ h \in B /\ h \in Live /\ minor[h].block = m
    BY <1>1 DEF WalkInv, BlocksOf
  <1>3. /\ h \in Nat \ {0} /\ nx \in Nat /\ e \in Nat /\ h < e /\ NextInv(h) /\ InsideInv(h)
        /\ m \in Nat /\ MajorEnd(m) \in Nat /\ Need(t) \in Nat \ {0}
    BY <1>2, LiveFacts, MinorTypes, MajorTypes, NeedType, SizesAssumption DEF HeapInv
  <1>4. \A x \in B : x \in Nat /\ EndOf(x) \in Nat /\ x < EndOf(x) /\ EndOf(x) <= MajorEnd(m)
    <2> SUFFICES ASSUME NEW x \in B
                 PROVE  x \in Nat /\ EndOf(x) \in Nat /\ x < EndOf(x) /\ EndOf(x) <= MajorEnd(m)
      OBVIOUS
    <2>1. x \in Live /\ minor[x].block = m
      BY DEF BlocksOf
    <2> QED
      BY <2>1, LiveFacts, MinorTypes DEF HeapInv, InsideInv
  <1>5. /\ nx = NULL => e + Need(t) <= MajorEnd(m)
        /\ nx # NULL => e + Need(t) <= nx
    <2>1. GapBehind(h) = (IF nx = NULL THEN MajorEnd(m) ELSE nx) - e
      BY <1>2 DEF GapBehind, MajorEnd
    <2> QED
      BY <1>3, <2>1
  <1>6. nx \in B \cup {NULL} /\ e + Need(t) <= MajorEnd(m)
    <2>1. nx # NULL => nx \in B
      BY <1>2, <1>3 DEF NextInv
    <2> QED
      BY <1>3, <1>4, <1>5, <2>1
  <1>7. m + MajorHeader <= e
    BY <1>2, <1>3, SizesAssumption DEF InsideInv
  <1>8. ASSUME NEW x \in B
        PROVE  \/ x < e /\ EndOf(x) <= e /\ x <= h
               \/ e + Need(t) <= x /\ nx # NULL /\ nx <= x
    <2>1. CASE x <= h
      <3>1. x = h \/ x < h
        BY <1>3, <1>4, <2>1
      <3>2. x < h => EndOf(x) <= h
        BY <1>2, BlocksApart
      <3> QED
        BY <1>3, <1>4, <2>1, <3>1, <3>2
    <2>2. CASE ~(x <= h)
      <3>1. nx # NULL /\ nx <= x
        BY <1>2, <1>3, <2>2 DEF NextInv
      <3> QED
        BY <1>3, <1>4, <1>5, <3>1
    <2> QED
      BY <2>1, <2>2
  <1> QED
    BY <1>2, <1>3, <1>5, <1>6, <1>7, <1>8 DEF IsGap, NULL

LEMMA PlaceKeepsHeapOK ==
  ASSUME HeapOK, NEW t \in Threads, Place(t)
  PROVE  HeapOK'
  <1> USE DEF HeapOK
  <1> PICK m : m = walk.maj
    OBVIOUS
  <1> PICK first : first = major[m].first
    OBVIOUS
  <1> DEFINE B == BlocksOf(m)
  <1>1. pc[t] = "place" /\ pc[t] \in Search \ {"root"} /\ "minor" \in Search
    BY DEF Place, Search
  <1>2. m \in DOMAIN major /\ walk \in Walks /\ FirstInv(m) /\ m \in Nat \ {0} /\ first \in Nat
    BY <1>1, MajorTypes DEF WalkInv, HeapInv, BlockInv
  <1>3. CASE first = NULL \/ first - m - MajorHeader >= Need(t)
    <2> PICK h : h = m + MajorHeader
      OBVIOUS
    <2>1. h \in Nat \ {NULL}
      BY <1>2, SizesAssumption DEF NULL
    <2>2. Insert(t, h, NULL, first) /\ IsGap(t, h, NULL, first)
      BY <1>1, <1>3, PlaceGap DEF Place
    <2> QED
      BY <1>1, <2>1, <2>2, InsertKeepsHeapOK
  <1>4. CASE ~(first = NULL \/ first - m - MajorHeader >= Need(t))
    <2>1. /\ walk' = [walk EXCEPT !.min = first] /\ Goto(t, "minor")
          /\ UNCHANGED <<heap_lock, major, minor, info, l_memRoot, l_bestBet, call, own>>
      BY <1>4 DEF Place, heap, blocks
    <2>2. HeapInv'
      BY <2>1, HeapLinks, SameHeap
    <2>3. /\ LockInv' /\ CallInv' /\ OwnerInv' /\ pc'[t] = "minor"
          /\ \A u \in Threads : u # t => pc'[u] \notin Search
      BY <1>1, <2>1, SearchStep
    <2>4. walk' \in Walks /\ walk'.maj = m /\ walk'.min = first
      BY <1>2, <2>1 DEF Walks
    <2>5. first \in B
      BY <1>2, <1>4 DEF FirstInv
    <2>6. BlocksOf(walk.maj)' = B
      BY <2>1, <2>4 DEF BlocksOf, Live
    <2>7. WalkInv'
      BY <1>2, <2>1, <2>3, <2>4, <2>5, <2>6, HoldersWalk
    <2> QED
      BY <2>2, <2>3, <2>7
  <1> QED
    BY <1>3, <1>4

LEMMA VisitMinorKeepsHeapOK ==
  ASSUME HeapOK, NEW t \in Threads, VisitMinor(t)
  PROVE  HeapOK'
  <1> USE DEF HeapOK
  <1> PICK m : m = walk.maj
    OBVIOUS
  <1> PICK h : h = walk.min
    OBVIOUS
  <1> PICK nx : nx = minor[h].next
    OBVIOUS
  <1> PICK e : e = EndOf(h)
    OBVIOUS
  <1> DEFINE B == BlocksOf(m)
  <1>1. pc[t] = "minor" /\ pc[t] \in Search \ {"root"} /\ {"minor", "next"} \subseteq Search
    BY DEF VisitMinor, Search
  <1>2. m \in DOMAIN major /\ walk \in Walks /\ h \in B /\ h \in Live /\ minor[h].block = m
    BY <1>1 DEF WalkInv, BlocksOf
  <1>3. nx \in Nat /\ e \in Nat \ {NULL} /\ NextInv(h)
    BY <1>2, LiveFacts, MinorTypes DEF HeapInv, NULL
  <1>4. CASE GapBehind(h) >= Need(t)
    <2>1. Insert(t, e, h, nx) /\ IsGap(t, e, h, nx)
      BY <1>1, <1>4, MinorGap DEF VisitMinor
    <2> QED
      BY <1>1, <1>3, <2>1, InsertKeepsHeapOK
  <1>5. CASE ~(GapBehind(h) >= Need(t))
    <2> PICK l : l = IF nx = NULL THEN "next" ELSE "minor"
      OBVIOUS
    <2>1. /\ walk' = [walk EXCEPT !.min = nx] /\ Goto(t, l)
          /\ UNCHANGED <<heap_lock, major, minor, info, l_memRoot, l_bestBet, call, own>>
      BY <1>5 DEF VisitMinor, heap, blocks
    <2>2. HeapInv'
      BY <2>1, HeapLinks, SameHeap
    <2>3. l \in Search
      BY <1>1
    <2>4. /\ LockInv' /\ CallInv' /\ OwnerInv' /\ pc'[t] = l
          /\ \A u \in Threads : u # t => pc'[u] \notin Search
      BY <1>1, <2>1, <2>3, SearchStep
    <2>5. walk' \in Walks /\ walk'.maj = m /\ walk'.min = nx
      BY <1>2, <1>3, <2>1 DEF Walks
    <2>6. nx # NULL => nx \in B
      BY <1>2, <1>3 DEF NextInv
    <2>7. BlocksOf(walk.maj)' = B
      BY <2>1, <2>5 DEF BlocksOf, Live
    <2>8. WalkInv'
      BY <1>2, <2>1, <2>4, <2>5, <2>6, <2>7, HoldersWalk
    <2> QED
      BY <2>2, <2>4, <2>8
  <1> QED
    BY <1>4, <1>5

LEMMA CreateRootKeepsHeapOK ==
  ASSUME HeapOK, NEW t \in Threads, NEW a \in Answers(Size(t)), CreateRoot(t, a)
  PROVE  HeapOK'
  <1> USE DEF HeapOK
  <1>1. pc[t] = "root" /\ "root" \in Search
    BY DEF CreateRoot, Search
  <1>2. CASE a = NULL
    BY <1>1, <1>2, ReturnNull DEF CreateRoot, blocks
  <1>3. CASE a # NULL
    <2>1. UNCHANGED <<heap_lock, pc, call, walk, own>> /\ UNCHANGED <<minor, info>>
      BY <1>3 DEF CreateRoot, blocks
    <2>2. HeapInv'
      BY <1>3, CreateRootKeepsHeap
    <2>3. Goto(t, "root")
      BY <1>1, <2>1 DEF Goto, LockInv
    <2>4. /\ LockInv' /\ CallInv' /\ OwnerInv' /\ pc'[t] = "root"
          /\ \A u \in Threads : u # t => pc'[u] \notin Search
      BY <1>1, <2>1, <2>3, SearchStep
    <2>5. WalkInv'
      <3>1. walk' \in Walks
        BY <2>1 DEF WalkInv
      <3> QED
        BY <2>4, <3>1, HoldersWalk
    <2> QED
      BY <2>2, <2>4, <2>5
  <1> QED
    BY <1>2, <1>3

LEMMA GrowKeepsHeapOK ==
  ASSUME HeapOK, NEW t \in Threads, NEW a \in Answers(Size(t)), Grow(t, a)
  PROVE  HeapOK'
  <1> USE DEF HeapOK
  <1>1. pc[t] \in {"grow1", "grow5"} /\ pc[t] \in Search /\ {"place", "major"} \subseteq Search
    BY DEF Grow, Search
  <1>2. CASE a = NULL
    BY <1>1, <1>2, ReturnNull DEF Grow, blocks
  <1>3. CASE a # NULL
    <2> PICK l : l = IF pc[t] = "grow1" THEN "place" ELSE "major"
      OBVIOUS
    <2>1. /\ walk' = [walk EXCEPT !.maj = a] /\ Goto(t, l)
          /\ UNCHANGED <<heap_lock, call, own>> /\ UNCHANGED <<minor, info>>
      BY <1>3 DEF Grow, blocks
    <2>2. HeapInv' /\ MajorAdded(a, Size(t)) /\ major'[a].next = NULL
      BY <1>3, GrowKeepsHeap
    <2>3. l \in Search
      BY <1>1
    <2>4. /\ LockInv' /\ CallInv' /\ OwnerInv' /\ pc'[t] = l
          /\ \A u \in Threads : u # t => pc'[u] \notin Search
      BY <1>1, <2>1, <2>3, SearchStep
    <2>5. Size(t) \in Nat /\ Need(t) = Size(t) + MinorHeader /\ Need(t)' = Need(t)
      <3>1. Need(t)' = Need(t)
        BY <2>1 DEF Need, Size, Bytes
      <3> QED
        BY <3>1, NeedType
    <2>6. a \in Nat /\ a \in DOMAIN major' /\ MajorHeader + Need(t) <= major'[a].size
      <3>1. Size(t) + MajorHeader + MinorHeader <= major'[a].size
        BY <1>3, <2>2, <2>5, MajorAddedKeepsBlocks
      <3>2. a \in Nat
        BY <1>3, <2>5, AnswerIsApart
      <3>3. a \in DOMAIN major'
        BY <2>2 DEF MajorAdded
      <3>4. major'[a].size \in Nat
        BY <2>2, <3>3 DEF MajorAdded, Major
      <3> QED
        BY <2>5, <3>1, <3>2, <3>3, <3>4, SizesAssumption
    <2>7. walk' \in Walks /\ walk'.maj = a
      BY <2>1, <2>6 DEF WalkInv, Walks
    <2>8. WalkInv'
      BY <2>4, <2>5, <2>6, <2>7, HoldersWalk
    <2> QED
      BY <2>2, <2>4, <2>8
  <1> QED
    BY <1>2, <1>3

-----------------------------------------------------------------------------
(* The entries of the heap, which find the lock free, and krealloc.        *)
LEMMA FreeLock ==
  ASSUME LockInv, heap_lock = Nobody
  PROVE  \A u \in Threads : pc[u] \notin Search
  BY ThreadsAssumption DEF LockInv

LEMMA NobodyWalks ==
  ASSUME walk' \in Walks, \A u \in Threads : pc'[u] \notin Search
  PROVE  WalkInv'
  BY DEF WalkInv, Search

LEMMA CallStepKeepsOwners ==
  ASSUME OwnerInv, NEW t \in Threads, UNCHANGED <<minor, info, own>>,
         call[t].new = NULL, call'[t].new = NULL,
         \A u \in Threads : u # t => call'[u] = call[u] /\ pc'[u] = pc[u]
  PROVE  OwnerInv'
  <1>1. \A r : HasBlock(r)' = HasBlock(r)
    BY DEF HasBlock, HeaderOf, Live
  <1>2. \A u \in Threads : u # t => New(u)' = New(u)
    BY DEF New
  <1>3. OwnInv'
    BY <1>1 DEF OwnInv, OwnerInv
  <1>4. NewInv'
    BY <1>1, <1>2 DEF NewInv, OwnerInv
  <1>5. \A r \in Regions : r \in Regions'
    BY <1>2, RegionsAre
  <1>6. EachHasOwner'
    BY <1>5 DEF EachHasOwner, OwnerInv, Live, HeaderOf
  <1> QED
    BY <1>3, <1>4, <1>6 DEF OwnerInv

LEMMA MallocKeepsHeapOK ==
  ASSUME HeapOK, NEW t \in Threads, NEW op \in {"malloc", "calloc"}, NEW n \in Nat, Malloc(t, op, n)
  PROVE  HeapOK'
  <1> USE DEF HeapOK
  <1>1. /\ pc[t] = "idle" /\ heap_lock = Nobody /\ heap_lock' = t /\ Goto(t, "root")
        /\ call' = [call EXCEPT ![t] = [NoCall EXCEPT !.op = op, !.n = n]]
        /\ UNCHANGED <<major, minor, info, l_memRoot, l_bestBet, walk, own>>
    BY DEF Malloc, Acquire, heap, blocks
  <1>2. /\ pc \in [Threads -> Search \cup {"idle", "acquire", "copy", "drop", "fault"}]
        /\ call \in [Threads -> Calls] /\ "root" \in Search
        /\ \A u \in Threads : pc[u] \notin Search
    BY <1>1, FreeLock DEF LockInv, CallInv, Search
  <1>3. /\ pc' = [pc EXCEPT ![t] = "root"] /\ pc'[t] = "root"
        /\ \A u \in Threads : u # t => pc'[u] = pc[u] /\ call'[u] = call[u]
    BY <1>1, <1>2 DEF Goto
  <1> PICK c : c = [NoCall EXCEPT !.op = op, !.n = n]
    OBVIOUS
  <1>4. c \in Calls /\ c.op = op /\ c.new = NULL
    BY DEF NoCall, Calls, NULL
  <1>5. call'[t] = c
    BY <1>1, <1>2
  <1>6. call[t].new = NULL
    BY <1>1 DEF CallInv, NoCall
  <1>7. HeapInv'
    BY <1>1, HeapLinks, SameHeap
  <1>8. LockInv'
    BY <1>1, <1>2, <1>3 DEF LockInv
  <1>9. CallInv'
    <2>1. call' \in [Threads -> Calls]
      BY <1>1, <1>2, <1>4
    <2>2. c.op # "none" /\ c.op # "realloc"
      BY <1>4
    <2> QED
      BY <1>1, <1>2, <1>3, <1>4, <1>5, <2>1, <2>2 DEF CallInv, Search
  <1>10. OwnerInv'
    BY <1>1, <1>3, <1>4, <1>5, <1>6, CallStepKeepsOwners
  <1>11. WalkInv'
    BY <1>1, <1>2, <1>3, HoldersWalk DEF WalkInv
  <1> QED
    BY <1>7, <1>8, <1>9, <1>10, <1>11

LEMMA ReallocAcquireKeepsHeapOK ==
  ASSUME HeapOK, NEW t \in Threads, ReallocAcquire(t)
  PROVE  HeapOK'
  <1> USE DEF HeapOK
  <1>1. /\ pc[t] = "acquire" /\ heap_lock = Nobody /\ heap_lock' = t /\ Goto(t, "root")
        /\ UNCHANGED <<major, minor, info, l_memRoot, l_bestBet, walk, own, call>>
    BY DEF ReallocAcquire, Acquire, heap, blocks
  <1>2. /\ pc \in [Threads -> Search \cup {"idle", "acquire", "copy", "drop", "fault"}]
        /\ "root" \in Search /\ \A u \in Threads : pc[u] \notin Search
    BY <1>1, FreeLock DEF LockInv, Search
  <1>3. /\ pc' = [pc EXCEPT ![t] = "root"] /\ pc'[t] = "root"
        /\ \A u \in Threads : u # t => pc'[u] = pc[u]
    BY <1>1, <1>2 DEF Goto
  <1>4. call[t].new = NULL /\ call[t].op = "realloc"
    BY <1>1 DEF CallInv
  <1>5. HeapInv'
    BY <1>1, HeapLinks, SameHeap
  <1>6. LockInv'
    BY <1>1, <1>2, <1>3 DEF LockInv
  <1>7. CallInv'
    BY <1>1, <1>3, <1>4 DEF CallInv
  <1>8. OwnerInv'
    BY <1>1, <1>3, <1>4, CallStepKeepsOwners
  <1>9. WalkInv'
    BY <1>1, <1>2, <1>3, HoldersWalk DEF WalkInv
  <1> QED
    BY <1>5, <1>6, <1>7, <1>8, <1>9

LEMMA CopyKeepsHeapOK ==
  ASSUME HeapOK, NEW t \in Threads, Copy(t)
  PROVE  HeapOK'
  <1> USE DEF HeapOK
  <1>1. /\ pc[t] = "copy"
        /\ UNCHANGED <<major, minor, info, l_memRoot, l_bestBet, walk, heap_lock, call>>
    BY DEF Copy, heap, blocks
  <1> PICK y : y = New(t)
    OBVIOUS
  <1>2. \/ call[t].new = NULL /\ Goto(t, "fault") /\ own' = own
        \/ call[t].new = NULL /\ Goto(t, "drop") /\ own' = own
        \/ call[t].new # NULL /\ Goto(t, "drop") /\ own' = [own EXCEPT ![t] = @ \cup {y}]
    BY DEF Copy, New
  <1>3. PICK l \in {"fault", "drop"} : Goto(t, l) /\ (call[t].new # NULL => l = "drop")
    BY <1>2
  <1>4. /\ pc \in [Threads -> Search \cup {"idle", "acquire", "copy", "drop", "fault"}]
        /\ call \in [Threads -> Calls] /\ own \in [Threads -> SUBSET Region]
        /\ l \notin Search \cup {"idle", "acquire", "copy"} /\ "copy" \notin Search
    BY DEF LockInv, CallInv, OwnerInv, OwnInv, Search
  <1>5. /\ pc' = [pc EXCEPT ![t] = l] /\ pc'[t] = l
        /\ \A u \in Threads : u # t => pc'[u] = pc[u]
    BY <1>3, <1>4 DEF Goto
  <1>6. HeapInv'
    BY <1>1, HeapLinks, SameHeap
  <1>7. LockInv'
    BY <1>1, <1>4, <1>5 DEF LockInv
  <1>8. \A u \in Threads : own'[u] = IF u = t /\ call[t].new # NULL THEN own[u] \cup {y} ELSE own[u]
    BY <1>2, <1>4
  <1>9. CallInv'
    <2>1. call[t].op = "realloc"
      BY <1>1 DEF CallInv
    <2> QED
      BY <1>1, <1>3, <1>4, <1>5, <1>8, <2>1 DEF CallInv
  <1>10. WalkInv'
    <2>1. \A u \in Threads : pc'[u] \in Search => u # t /\ pc[u] \in Search
      BY <1>4, <1>5
    <2>2. \A u : Need(u)' = Need(u)
      BY <1>1 DEF Need, Size, Bytes
    <2>3. BlocksOf(walk.maj)' = BlocksOf(walk.maj)
      BY <1>1 DEF BlocksOf, Live
    <2>4. \A u \in Threads : pc'[u] \in Search => pc'[u] = pc[u]
      BY <1>5, <2>1
    <2> QED
      BY <1>1, <2>1, <2>2, <2>3, <2>4 DEF WalkInv, Search
  <1>11. /\ \A r : HasBlock(r)' = HasBlock(r)
         /\ \A u \in Threads : New(u)' = New(u)
    BY <1>1 DEF HasBlock, HeaderOf, Live, New
  <1>12. call[t].new # NULL => /\ HasBlock(y) /\ y.ptr = call[t].new /\ y \in Region
                              /\ \A u \in Threads : \A r \in own[u] : r.ptr # y.ptr
    <2> SUFFICES ASSUME call[t].new # NULL
                 PROVE  /\ HasBlock(y) /\ y.ptr = call[t].new /\ y \in Region
                        /\ \A u \in Threads : \A r \in own[u] : r.ptr # y.ptr
      OBVIOUS
    <2>1. y.ptr = call[t].new /\ y \in Region
      BY <1>4 DEF New, Region, Calls
    <2> QED
      BY <1>1, <2>1 DEF OwnerInv, NewInv
  <1>13. OwnInv'
    <2>1. own' \in [Threads -> SUBSET Region]
      BY <1>2, <1>4, <1>12
    <2>2. ASSUME NEW u \in Threads, NEW r \in own'[u]
          PROVE  /\ HasBlock(r)
                 /\ \A v \in Threads : \A s \in own'[v] : r.ptr = s.ptr => r = s /\ u = v
      <3>1. r \in own[u] \/ (u = t /\ call[t].new # NULL /\ r = y)
        BY <1>8, <2>2
      <3>2. \A v \in Threads : \A s \in own'[v] : s \in own[v] \/ (v = t /\ call[t].new # NULL /\ s = y)
        BY <1>8
      <3> QED
        BY <1>12, <3>1, <3>2 DEF OwnerInv, OwnInv
    <2> QED
      BY <1>11, <2>1, <2>2 DEF OwnInv
  <1>14. NewInv'
    <2> SUFFICES ASSUME NEW u \in Threads, call[u].new # NULL
                 PROVE  /\ HasBlock(New(u))
                        /\ \A v \in Threads : call[v].new = call[u].new => v = u
                        /\ \/ pc'[u] = "drop" /\ New(u) \in own'[u] /\ call[u].new # call[u].old
                           \/ pc'[u] = "copy" /\ \A v \in Threads : \A r \in own'[v] : r.ptr # call[u].new
      BY <1>1, <1>11 DEF NewInv
    <2>1. /\ HasBlock(New(u))
          /\ \A v \in Threads : call[v].new = call[u].new => v = u
          /\ \/ pc[u] = "drop" /\ New(u) \in own[u] /\ call[u].new # call[u].old
             \/ pc[u] = "copy" /\ \A v \in Threads : \A r \in own[v] : r.ptr # call[u].new
      BY DEF OwnerInv, NewInv
    <2>2. CASE u = t
      <3>1. pc'[t] = "drop" /\ y \in own'[t]
        BY <1>3, <1>5, <1>8, <2>2
      <3>2. [ptr |-> call[t].old, n |-> call[t].len] \in own[t]
        BY <1>1 DEF CallInv
      <3>3. call[t].new # call[t].old
        BY <1>12, <2>2, <3>2
      <3> QED
        BY <2>1, <2>2, <3>1, <3>3
    <2>3. CASE u # t
      <3>1. call[t].new # NULL => y.ptr # call[u].new
        BY <1>12, <2>1, <2>3
      <3> QED
        BY <1>5, <1>8, <2>1, <2>3, <3>1
    <2> QED
      BY <2>2, <2>3
  <1>15. EachHasOwner'
    <2>1. \A r \in Regions : r \in Regions'
      <3> SUFFICES ASSUME NEW r \in Regions
                   PROVE  r \in Regions'
        OBVIOUS
      <3>1. PICK u \in Threads : r \in own[u] \/ (call[u].new # NULL /\ r = New(u))
        BY RegionsAre
      <3>2. r \in own'[u] \/ (call'[u].new # NULL /\ r = New(u)')
        BY <1>1, <1>8, <1>11, <3>1
      <3> QED
        BY <3>2, RegionsAre
    <2>2. \A p : HeaderOf(p)' = HeaderOf(p)
      BY <1>1 DEF HeaderOf
    <2>3. Live' = Live
      BY <1>1 DEF Live
    <2> QED
      BY <2>1, <2>2, <2>3 DEF EachHasOwner, OwnerInv
  <1> QED
    BY <1>6, <1>7, <1>9, <1>10, <1>13, <1>14, <1>15 DEF OwnerInv

LEMMA OwnedBlock ==
  ASSUME HeapInv, OwnerInv, NEW t \in Threads, NEW r \in own[t]
  PROVE  /\ HasBlock(r) /\ HeaderOf(r.ptr) \in Live /\ r \in Regions /\ r.ptr \in DOMAIN info
         /\ minor[HeaderOf(r.ptr)].magic = "MAGIC" /\ minor[HeaderOf(r.ptr)].req_size = r.n
         /\ r \in Region
         /\ \A s \in Regions : s # r => HasBlock(s) /\ HeaderOf(s.ptr) # HeaderOf(r.ptr)
  <1>1. HasBlock(r) /\ r \in Regions /\ r \in Region
    BY RegionFacts DEF OwnerInv, OwnInv
  <1>2. HeaderOf(r.ptr) \in Live /\ r.ptr \in DOMAIN info
        /\ minor[HeaderOf(r.ptr)].magic = "MAGIC" /\ minor[HeaderOf(r.ptr)].req_size = r.n
    BY <1>1 DEF HasBlock, Live
  <1>3. ASSUME NEW s \in Regions, s # r
        PROVE  HasBlock(s) /\ HeaderOf(s.ptr) # HeaderOf(r.ptr)
    <2>1. HasBlock(s) /\ s.ptr # r.ptr
      BY <1>1, <1>3, RegionFacts
    <2>2. s.ptr \in DOMAIN info
      BY <2>1 DEF HasBlock
    <2> QED
      BY <1>2, <2>1, <2>2, PointerOfHeader
  <1> QED
    BY <1>1, <1>2, <1>3

(* A free: of kfree's block, and of krealloc's old one.                    *)
LEMMA FreeKeepsHeapOK ==
  ASSUME HeapOK, NEW t \in Threads, NEW r \in own[t], FreeBlock(r.ptr),
         heap_lock = Nobody, UNCHANGED <<heap_lock, walk>>,
         own' = [own EXCEPT ![t] = @ \ {r}],
         call' = [call EXCEPT ![t] = NoCall],
         pc' = [pc EXCEPT ![t] = "idle"],
         call[t].new # NULL => New(t) \in own[t] /\ New(t) # r
  PROVE  HeapOK'
  <1> USE DEF HeapOK
  <1> PICK h : h = HeaderOf(r.ptr)
    OBVIOUS
  <1>1. /\ h \in Live /\ r \in Regions /\ minor[h].magic = "MAGIC"
        /\ \A s \in Regions : s # r => HasBlock(s) /\ HeaderOf(s.ptr) # h
    BY OwnedBlock
  <1>2. Unlink(h)
    BY <1>1 DEF FreeBlock
  <1>3. HeapInv' /\ MinorsUnlinked(h)
    BY <1>1, <1>2, UnlinkKeepsHeap
  <1>4. /\ pc \in [Threads -> Search \cup {"idle", "acquire", "copy", "drop", "fault"}]
        /\ call \in [Threads -> Calls] /\ own \in [Threads -> SUBSET Region]
        /\ \A u \in Threads : pc[u] \notin Search
    BY FreeLock DEF LockInv, CallInv, OwnerInv, OwnInv
  <1>5. /\ pc'[t] = "idle" /\ call'[t] = NoCall /\ own'[t] = own[t] \ {r}
        /\ \A u \in Threads : u # t => pc'[u] = pc[u] /\ call'[u] = call[u] /\ own'[u] = own[u]
    BY <1>4
  <1>6. "idle" \notin Search /\ NoCall \in Calls /\ NoCall.new = NULL /\ NoCall.op = "none"
    BY DEF Search, NoCall, Calls, NULL
  <1>7. LockInv'
    BY <1>4, <1>5, <1>6, ThreadsAssumption DEF LockInv
  <1>8. WalkInv'
    BY <1>4, <1>5, <1>6, NobodyWalks DEF WalkInv
  <1>9. CallInv'
    <2>1. call' \in [Threads -> Calls]
      BY <1>4, <1>6
    <2> QED
      BY <1>4, <1>5, <1>6, <2>1 DEF CallInv
  <1>10. \A s \in Regions : s # r => HasBlock(s)' /\ HeaderOf(s.ptr)' = HeaderOf(s.ptr)
    <2> SUFFICES ASSUME NEW s \in Regions, s # r
                 PROVE  HasBlock(s)' /\ HeaderOf(s.ptr)' = HeaderOf(s.ptr)
      OBVIOUS
    <2>1. s.ptr \in DOMAIN info /\ HeaderOf(s.ptr) \in Live \ {h} /\ minor[HeaderOf(s.ptr)].req_size = s.n
      BY <1>1 DEF HasBlock
    <2>2. s.ptr \in DOMAIN info' /\ HeaderOf(s.ptr)' = HeaderOf(s.ptr)
      BY <1>3, <2>1 DEF MinorsUnlinked
    <2> PICK k : k = HeaderOf(s.ptr)
      OBVIOUS
    <2>3. k \in Live' /\ minor'[k].req_size = s.n
      BY <1>3, <2>1 DEF MinorsUnlinked
    <2> QED
      BY <2>2, <2>3 DEF HasBlock
  <1>11. \A u \in Threads : /\ own[u] \subseteq Regions /\ own'[u] \subseteq own[u]
                            /\ call[u].new # NULL => New(u) \in Regions /\ New(u).ptr = call[u].new
    BY <1>5, RegionFacts DEF New
  <1>12. \A u, v \in Threads : \A s \in own[u] : \A y \in own[v] : s.ptr = y.ptr => s = y /\ u = v
    BY DEF OwnerInv, OwnInv
  <1>13. \A u \in Threads : r \notin own'[u]
    BY <1>5, <1>12
  <1>14. OwnInv'
    <2>1. own' \in [Threads -> SUBSET Region]
      BY <1>4
    <2> QED
      BY <1>10, <1>11, <1>12, <1>13, <2>1 DEF OwnInv
  <1>15. \A u \in Threads : u # t => New(u)' = New(u) /\ (call[u].new # NULL => New(u) # r)
    <2> SUFFICES ASSUME NEW u \in Threads, u # t
                 PROVE  New(u)' = New(u) /\ (call[u].new # NULL => New(u) # r)
      OBVIOUS
    <2>1. New(u)' = New(u)
      BY <1>5 DEF New
    <2>2. call[u].new # NULL => New(u) # r
      BY <1>11, <1>12 DEF OwnerInv, NewInv
    <2> QED
      BY <2>1, <2>2
  <1>16. NewInv'
    <2> SUFFICES ASSUME NEW u \in Threads, call'[u].new # NULL
                 PROVE  /\ HasBlock(New(u))'
                        /\ \A v \in Threads : call'[v].new = call'[u].new => v = u
                        /\ \/ pc'[u] = "drop" /\ New(u)' \in own'[u] /\ call'[u].new # call'[u].old
                           \/ pc'[u] = "copy" /\ \A v \in Threads : \A s \in own'[v] : s.ptr # call'[u].new
      BY DEF NewInv
    <2>1. u # t /\ call'[u] = call[u] /\ pc'[u] = pc[u] /\ own'[u] = own[u] /\ call[u].new # NULL
      BY <1>5, <1>6
    <2>2. /\ \A v \in Threads : call[v].new = call[u].new => v = u
          /\ \/ pc[u] = "drop" /\ New(u) \in own[u] /\ call[u].new # call[u].old
             \/ pc[u] = "copy" /\ \A v \in Threads : \A s \in own[v] : s.ptr # call[u].new
      BY <2>1 DEF OwnerInv, NewInv
    <2>3. HasBlock(New(u))'
      <3> PICK y : y = New(u)
        OBVIOUS
      <3>1. HasBlock(y)' /\ New(u)' = y
        BY <1>10, <1>11, <1>15, <2>1
      <3> QED
        BY <3>1 DEF HasBlock
    <2>4. \A v \in Threads : call'[v].new = call'[u].new => v = u
      BY <1>5, <1>6, <2>1, <2>2
    <2> QED
      BY <1>11, <1>15, <2>1, <2>2, <2>3, <2>4
  <1>17. \A s \in Regions : s # r => s \in Regions'
    <2> SUFFICES ASSUME NEW s \in Regions, s # r
                 PROVE  s \in Regions'
      OBVIOUS
    <2>1. PICK u \in Threads : s \in own[u] \/ (call[u].new # NULL /\ s = New(u))
      BY RegionsAre
    <2>2. s \in own[u] => s \in own'[u]
      BY <1>5, <2>1
    <2>3. call[u].new # NULL /\ s = New(u) => s \in own'[u] \/ (call'[u].new # NULL /\ s = New(u)')
      BY <1>5, <1>15, <2>2
    <2> QED
      BY <2>1, <2>2, <2>3, RegionsAre
  <1>18. EachHasOwner'
    <2> SUFFICES ASSUME NEW k \in Live'
                 PROVE  \E s \in Regions' : HeaderOf(s.ptr)' = k
      BY DEF EachHasOwner
    <2>1. k \in Live \ {h}
      BY <1>3 DEF MinorsUnlinked
    <2>2. PICK s \in Regions : HeaderOf(s.ptr) = k
      BY <2>1 DEF OwnerInv, EachHasOwner
    <2>3. s # r
      BY <2>1, <2>2
    <2> QED
      BY <1>10, <1>17, <2>2, <2>3
  <1> QED
    BY <1>3, <1>7, <1>8, <1>9, <1>14, <1>16, <1>18 DEF OwnerInv

LEMMA FreeStepKeepsHeapOK ==
  ASSUME HeapOK, NEW t \in Threads, NEW r \in own[t], Free(t, r)
  PROVE  HeapOK'
  <1> USE DEF HeapOK
  <1>1. /\ pc[t] = "idle" /\ heap_lock = Nobody /\ FreeBlock(r.ptr)
        /\ own' = [own EXCEPT ![t] = @ \ {r}] /\ UNCHANGED <<heap_lock, pc, call, walk>>
    BY DEF Free
  <1>2. call[t] = NoCall /\ NoCall.new = NULL
    BY <1>1 DEF CallInv, NoCall
  <1>3. call' = [call EXCEPT ![t] = NoCall] /\ pc' = [pc EXCEPT ![t] = "idle"]
    BY <1>1, <1>2 DEF CallInv, LockInv
  <1> QED
    BY <1>1, <1>2, <1>3, FreeKeepsHeapOK

LEMMA DropKeepsHeapOK ==
  ASSUME HeapOK, NEW t \in Threads, Drop(t)
  PROVE  HeapOK'
  <1> USE DEF HeapOK
  <1>1. /\ pc[t] = "drop" /\ heap_lock = Nobody /\ FreeBlock(call[t].old)
        /\ own' = [own EXCEPT ![t] = {s \in @ : s.ptr # call[t].old}]
        /\ call' = [call EXCEPT ![t] = NoCall] /\ pc' = [pc EXCEPT ![t] = "idle"]
        /\ UNCHANGED <<heap_lock, walk>>
    BY DEF Drop, Goto
  <1> PICK r : r = [ptr |-> call[t].old, n |-> call[t].len]
    OBVIOUS
  <1>2. r \in own[t] /\ r.ptr = call[t].old
    BY <1>1 DEF CallInv
  <1>3. {s \in own[t] : s.ptr # call[t].old} = own[t] \ {r}
    BY <1>2 DEF OwnerInv, OwnInv
  <1>4. own' = [own EXCEPT ![t] = @ \ {r}]
    BY <1>1, <1>3
  <1>5. call[t].new # NULL => New(t) \in own[t] /\ New(t) # r
    <2>1. call[t].new # NULL => New(t) \in own[t] /\ call[t].new # call[t].old
      BY <1>1 DEF OwnerInv, NewInv
    <2>2. New(t).ptr = call[t].new
      BY DEF New
    <2> QED
      BY <1>2, <2>1, <2>2
  <1> QED
    BY <1>1, <1>2, <1>4, <1>5, FreeKeepsHeapOK

LEMMA FreeAgainChangesNothing ==
  ASSUME NEW t \in Threads, NEW ptr, FreeAgain(t, ptr)
  PROVE  UNCHANGED vars
  <1>1. minor[HeaderOf(ptr)].magic # "MAGIC"
    BY DEF FreeAgain
  <1> QED
    BY <1>1 DEF FreeAgain, FreeBlock, vars

(* krealloc that shrinks a block where it stands.                          *)
LEMMA ShrinkKeepsHeap ==
  ASSUME HeapInv, NEW h \in Live, NEW n \in Nat, n <= minor[h].req_size,
         minor' = [minor EXCEPT ![h].req_size = n],
         UNCHANGED <<major, info, l_memRoot, l_bestBet>>
  PROVE  /\ HeapInv' /\ Live' = Live /\ minor'[h].req_size = n
         /\ \A x \in Live : x # h => minor'[x].req_size = minor[x].req_size
         /\ \A p : HeaderOf(p)' = HeaderOf(p)
  <1>1. h \in DOMAIN minor /\ \A x \in DOMAIN minor : minor[x] \in Minor
    BY LiveFacts DEF HeapInv, HeaderTypes
  <1>2. /\ DOMAIN minor' = DOMAIN minor
        /\ \A x \in DOMAIN minor :
             /\ minor'[x] \in Minor
             /\ minor'[x].prev = minor[x].prev /\ minor'[x].next = minor[x].next
             /\ minor'[x].block = minor[x].block /\ minor'[x].magic = minor[x].magic
             /\ minor'[x].size = minor[x].size
             /\ minor'[x].req_size = IF x = h THEN n ELSE minor[x].req_size
    <2>1. DOMAIN minor' = DOMAIN minor /\ \A x \in DOMAIN minor : x # h => minor'[x] = minor[x]
      BY <1>1
    <2>2. minor'[h] = [minor[h] EXCEPT !.req_size = n]
      BY <1>1
    <2>3. /\ minor'[h] \in Minor
          /\ minor'[h].prev = minor[h].prev /\ minor'[h].next = minor[h].next
          /\ minor'[h].block = minor[h].block /\ minor'[h].magic = minor[h].magic
          /\ minor'[h].size = minor[h].size /\ minor'[h].req_size = n
      BY <1>1, <2>2 DEF Minor
    <2> QED
      BY <1>1, <2>1, <2>3
  <1>3. minor' \in [DOMAIN minor' -> Minor]
    <2>1. \A x \in DOMAIN minor' : minor'[x] \in Minor
      BY <1>2
    <2> QED
      BY <1>2, <2>1
  <1>4. Live' = Live /\ \A m : BlocksOf(m)' = BlocksOf(m)
    BY <1>2 DEF Live, BlocksOf
  <1>5. /\ \A m : MajorEnd(m)' = MajorEnd(m)
        /\ \A p : HeaderOf(p)' = HeaderOf(p) /\ Payload(p)' = Payload(p) /\ Diff(p)' = Diff(p)
        /\ \A x \in Live : EndOf(x)' = EndOf(x)
    BY <1>2 DEF MajorEnd, HeaderOf, Payload, Diff, EndOf, Live
  <1>6. HeaderTypes' /\ MajorsApart' /\ InfoInv'
    BY <1>2, <1>3, <1>4, <1>5 DEF HeapInv, HeaderTypes, MajorsApart, InfoInv
  <1>7. MajorsFormAList'
    BY HeapLinks, SameListOfMajors DEF HeapInv
  <1>8. \A m \in DOMAIN major : FirstInv(m)'
    BY <1>4 DEF HeapInv, BlockInv, FirstInv
  <1>9. ASSUME NEW x \in Live
        PROVE  InsideInv(x)' /\ NextInv(x)' /\ PrevInv(x)'
    <2> PICK k : k = minor[x].block
      OBVIOUS
    <2>1. x \in DOMAIN minor /\ InsideInv(x) /\ NextInv(x) /\ PrevInv(x)
      BY LiveFacts
    <2>2. \A y \in BlocksOf(k) : y \in DOMAIN minor
      BY DEF BlocksOf, Live
    <2>3. minor'[x].block = k /\ minor'[x].next = minor[x].next /\ minor'[x].prev = minor[x].prev
          /\ minor'[x].size = minor[x].size
      BY <1>2, <2>1
    <2>4. Bytes(minor[x].req_size)' <= minor[x].size
      <3>1. CASE x = h
        <4>1. minor[h].req_size \in Nat /\ minor[h].size \in Nat
          BY <1>1 DEF Minor
        <4>2. Bytes(minor[x].req_size)' = Bytes(n)
          BY <1>2, <2>1, <3>1 DEF Bytes
        <4>3. Bytes(minor[h].req_size) <= minor[h].size
          BY <2>1, <3>1 DEF InsideInv
        <4> QED
          BY <3>1, <4>1, <4>2, <4>3, SizesAssumption DEF Bytes
      <3>2. CASE x # h
        <4>1. Bytes(minor[x].req_size)' = Bytes(minor[x].req_size)
          BY <1>2, <2>1, <3>2 DEF Bytes
        <4> QED
          BY <2>1, <4>1 DEF InsideInv
      <3> QED
        BY <3>1, <3>2
    <2>5. InsideInv(x)'
      BY <1>5, <2>1, <2>3, <2>4 DEF InsideInv
    <2>6. NextInv(x)'
      BY <1>2, <1>4, <1>5, <2>1, <2>2, <2>3 DEF NextInv
    <2>7. PrevInv(x)'
      BY <1>2, <1>4, <2>1, <2>2, <2>3 DEF PrevInv
    <2> QED
      BY <2>5, <2>6, <2>7
  <1>10. BlockInv'
    BY <1>4, <1>8, <1>9 DEF BlockInv
  <1>11. HeapInv'
    BY <1>6, <1>7, <1>10 DEF HeapInv
  <1>12. \A x \in Live : x \in DOMAIN minor
    BY DEF Live
  <1> QED
    BY <1>1, <1>2, <1>4, <1>5, <1>11, <1>12

LEMMA ReallocKeepsHeapOK ==
  ASSUME HeapOK, NEW t \in Threads, NEW r \in own[t], NEW n \in Nat, Realloc(t, r, n)
  PROVE  HeapOK'
  <1> USE DEF HeapOK
  <1> PICK h : h = HeaderOf(r.ptr)
    OBVIOUS
  <1>1. /\ pc[t] = "idle" /\ heap_lock = Nobody /\ n > 0
        /\ UNCHANGED <<heap_lock, major, info, l_memRoot, l_bestBet, walk>>
    BY DEF Realloc
  <1>2. /\ h \in Live /\ r \in Regions /\ minor[h].req_size = r.n /\ r \in Region /\ HasBlock(r)
        /\ r.ptr \in DOMAIN info
        /\ \A s \in Regions : s # r => HasBlock(s) /\ HeaderOf(s.ptr) # h
    BY OwnedBlock
  <1>3. /\ pc \in [Threads -> Search \cup {"idle", "acquire", "copy", "drop", "fault"}]
        /\ call \in [Threads -> Calls] /\ own \in [Threads -> SUBSET Region]
        /\ \A u \in Threads : pc[u] \notin Search
        /\ call[t] = NoCall /\ NoCall.new = NULL /\ NoCall.op = "none"
        /\ r.n \in Nat /\ r.ptr \in Nat
    BY <1>1, <1>2, FreeLock DEF LockInv, CallInv, OwnerInv, OwnInv, NoCall, Region
  <1>4. CASE r.n >= n
    <2> PICK x : x = [ptr |-> r.ptr, n |-> n]
      OBVIOUS
    <2>1. /\ minor' = [minor EXCEPT ![h].req_size = n]
          /\ own' = [own EXCEPT ![t] = (@ \ {r}) \cup {x}] /\ UNCHANGED <<pc, call>>
      BY <1>2, <1>4 DEF Realloc
    <2>2. /\ HeapInv' /\ Live' = Live /\ minor'[h].req_size = n
          /\ \A k \in Live : k # h => minor'[k].req_size = minor[k].req_size
          /\ \A p : HeaderOf(p)' = HeaderOf(p)
      BY <1>1, <1>2, <1>3, <1>4, <2>1, ShrinkKeepsHeap
    <2>3. LockInv'
      BY <1>1, <2>1 DEF LockInv
    <2>4. WalkInv'
      BY <1>1, <1>3, <2>1, NobodyWalks DEF WalkInv
    <2>5. /\ own'[t] = (own[t] \ {r}) \cup {x}
          /\ \A u \in Threads : u # t => own'[u] = own[u]
      BY <1>3, <2>1
    <2>6. CallInv'
      BY <1>1, <1>3, <2>1, <2>5 DEF CallInv
    <2>7. x.ptr = r.ptr /\ x \in Region /\ HasBlock(x)'
      BY <1>1, <1>2, <2>2 DEF HasBlock, Region
    <2>8. \A s \in Regions : s # r => HasBlock(s)'
      BY <1>1, <1>2, <2>2 DEF HasBlock
    <2>9. \A u \in Threads : /\ own[u] \subseteq Regions
                             /\ call[u].new # NULL => New(u) \in Regions /\ New(u).ptr = call[u].new
      BY RegionFacts DEF New
    <2>10. \A u, v \in Threads : \A s \in own[u] : \A y \in own[v] : s.ptr = y.ptr => s = y /\ u = v
      BY DEF OwnerInv, OwnInv
    <2>11. \A u \in Threads : \A s \in own'[u] : (s \in own[u] /\ s # r) \/ (u = t /\ s = x)
      <3>1. \A u \in Threads : r \in own[u] => u = t
        BY <2>10
      <3> QED
        BY <2>5, <3>1
    <2>12. OwnInv'
      <3>1. own' \in [Threads -> SUBSET Region]
        <4>1. \A u \in Threads : own'[u] \in SUBSET Region
          BY <1>3, <2>7, <2>11
        <4> QED
          BY <1>3, <2>1, <4>1
      <3>2. ASSUME NEW u \in Threads, NEW s \in own'[u]
            PROVE  /\ HasBlock(s)'
                   /\ \A v \in Threads : \A y \in own'[v] : s.ptr = y.ptr => s = y /\ u = v
        <4>1. (s \in own[u] /\ s # r) \/ (u = t /\ s = x)
          BY <2>11, <3>2
        <4>2. HasBlock(s)'
          BY <2>7, <2>8, <2>9, <4>1
        <4>3. \A y \in own[u] : y # r => y.ptr # r.ptr
          BY <2>10
        <4>4. ASSUME NEW v \in Threads, NEW y \in own'[v], s.ptr = y.ptr
              PROVE  s = y /\ u = v
          <5>1. (y \in own[v] /\ y # r) \/ (v = t /\ y = x)
            BY <2>11, <4>4
          <5>2. y \in own[v] /\ y # r => y.ptr # r.ptr
            BY <2>10
          <5> QED
            BY <2>7, <2>10, <4>1, <4>3, <4>4, <5>1, <5>2
        <4> QED
          BY <4>2, <4>4
      <3> QED
        BY <3>1, <3>2 DEF OwnInv
    <2>13. \A u \in Threads : New(u)' = New(u) /\ (call[u].new # NULL => u # t /\ New(u) # r)
      <3> SUFFICES ASSUME NEW u \in Threads
                   PROVE  New(u)' = New(u) /\ (call[u].new # NULL => u # t /\ New(u) # r)
        OBVIOUS
      <3>1. New(u)' = New(u)
        BY <2>1 DEF New
      <3>2. call[u].new # NULL => u # t
        BY <1>3
      <3>3. call[u].new # NULL => New(u) # r
        BY <2>9, <2>10, <3>2 DEF OwnerInv, NewInv
      <3> QED
        BY <3>1, <3>2, <3>3
    <2>14. NewInv'
      <3> SUFFICES ASSUME NEW u \in Threads, call[u].new # NULL
                   PROVE  /\ HasBlock(New(u))'
                          /\ \A v \in Threads : call[v].new = call[u].new => v = u
                          /\ \/ pc[u] = "drop" /\ New(u) \in own'[u] /\ call[u].new # call[u].old
                             \/ pc[u] = "copy" /\ \A v \in Threads : \A s \in own'[v] : s.ptr # call[u].new
        BY <2>1, <2>13 DEF NewInv
      <3>1. /\ \A v \in Threads : call[v].new = call[u].new => v = u
            /\ \/ pc[u] = "drop" /\ New(u) \in own[u] /\ call[u].new # call[u].old
               \/ pc[u] = "copy" /\ \A v \in Threads : \A s \in own[v] : s.ptr # call[u].new
        BY DEF OwnerInv, NewInv
      <3>2. HasBlock(New(u))'
        <4> PICK y : y = New(u)
          OBVIOUS
        <4>1. HasBlock(y)' /\ New(u)' = y
          BY <2>8, <2>9, <2>13
        <4> QED
          BY <4>1 DEF HasBlock
      <3>3. own'[u] = own[u]
        BY <2>5, <2>13
      <3>4. (\A v \in Threads : \A s \in own[v] : s.ptr # call[u].new)
              => \A v \in Threads : \A s \in own'[v] : s.ptr # call[u].new
        BY <2>7, <2>11
      <3> QED
        BY <3>1, <3>2, <3>3, <3>4
    <2>15. /\ \A s \in Regions : s # r => s \in Regions'
           /\ x \in Regions'
      <3>1. x \in own'[t]
        BY <2>5
      <3>2. ASSUME NEW s \in Regions, s # r
            PROVE  s \in Regions'
        <4>1. PICK u \in Threads : s \in own[u] \/ (call[u].new # NULL /\ s = New(u))
          BY RegionsAre
        <4>2. s \in own'[u] \/ (call'[u].new # NULL /\ s = New(u)')
          BY <2>1, <2>5, <2>13, <3>2, <4>1
        <4> QED
          BY <4>2, RegionsAre
      <3> QED
        BY <3>1, <3>2, RegionsAre
    <2>16. EachHasOwner'
      <3> SUFFICES ASSUME NEW k \in Live
                   PROVE  \E s \in Regions' : HeaderOf(s.ptr)' = k
        BY <2>2 DEF EachHasOwner
      <3>1. PICK s \in Regions : HeaderOf(s.ptr) = k
        BY DEF OwnerInv, EachHasOwner
      <3>2. CASE s = r
        BY <2>2, <2>7, <2>15, <3>1, <3>2
      <3>3. CASE s # r
        BY <2>2, <2>15, <3>1, <3>3
      <3> QED
        BY <3>2, <3>3
    <2> QED
      BY <2>2, <2>3, <2>4, <2>6, <2>12, <2>14, <2>16 DEF OwnerInv
  <1>5. CASE ~(r.n >= n)
    <2> PICK c : c = [op |-> "realloc", n |-> n, old |-> r.ptr, len |-> r.n, new |-> NULL]
      OBVIOUS
    <2>1. /\ call' = [call EXCEPT ![t] = c] /\ pc' = [pc EXCEPT ![t] = "acquire"]
          /\ UNCHANGED <<minor, own>>
      BY <1>2, <1>5 DEF Realloc, Goto
    <2>2. /\ c \in Calls /\ c.op = "realloc" /\ c.new = NULL /\ c.old = r.ptr /\ c.len = r.n
          /\ c.n = n
      BY <1>3 DEF Calls, NULL
    <2>3. /\ pc'[t] = "acquire" /\ call'[t] = c
          /\ \A u \in Threads : u # t => pc'[u] = pc[u] /\ call'[u] = call[u]
      BY <1>3, <2>1
    <2>4. "acquire" \notin Search /\ "acquire" # "idle"
      BY DEF Search
    <2>5. HeapInv'
      BY <1>1, <2>1, HeapLinks, SameHeap
    <2>6. LockInv'
      BY <1>1, <1>3, <2>1, <2>3, <2>4, ThreadsAssumption DEF LockInv
    <2>7. WalkInv'
      BY <1>1, <1>3, <2>3, <2>4, NobodyWalks DEF WalkInv
    <2>8. CallInv'
      <3>1. [ptr |-> c.old, n |-> c.len] = r
        BY <1>2, <2>2 DEF Region
      <3>2. call' \in [Threads -> Calls]
        BY <1>3, <2>1, <2>2
      <3>3. c.len < c.n
        BY <1>3, <1>5, <2>2
      <3> QED
        BY <2>1, <2>2, <2>3, <2>4, <3>1, <3>2, <3>3 DEF CallInv
    <2>9. OwnerInv'
      BY <1>1, <1>3, <2>1, <2>2, <2>3, CallStepKeepsOwners
    <2> QED
      BY <2>5, <2>6, <2>7, <2>8, <2>9
  <1> QED
    BY <1>4, <1>5

-----------------------------------------------------------------------------
(* The invariant of the whole heap.                                        *)
LEMMA InitHeapOK ==
  ASSUME Init
  PROVE  HeapOK
  <1>1. /\ DOMAIN major = {} /\ DOMAIN minor = {} /\ DOMAIN info = {} /\ Live = {}
        /\ l_memRoot = NULL /\ l_bestBet = NULL
    BY DEF Init, Live
  <1>2. HeaderTypes
    <2>1. IsFiniteSet({})
      BY FS_EmptySet
    <2> QED
      BY <1>1, <2>1 DEF HeaderTypes
  <1>3. MajorsApart /\ MajorsFormAList
    BY <1>1 DEF MajorsApart, MajorsFormAList
  <1>4. BlockInv /\ InfoInv
    BY <1>1 DEF BlockInv, InfoInv
  <1>5. LockInv
    BY ThreadsAssumption DEF Init, LockInv, Search
  <1>6. NoWalk \in Walks /\ NoCall \in Calls /\ NoCall.op = "none" /\ NoCall.new = NULL
    BY DEF NoWalk, NoCall, Walks, Calls, NULL
  <1>7. WalkInv
    BY <1>6 DEF Init, WalkInv, Search
  <1>8. CallInv
    BY <1>6 DEF Init, CallInv, Search
  <1>9. OwnerInv
    <2>1. OwnInv
      BY DEF Init, OwnInv
    <2>2. NewInv
      BY <1>6 DEF Init, NewInv
    <2>3. EachHasOwner
      BY <1>1 DEF EachHasOwner
    <2> QED
      BY <2>1, <2>2, <2>3 DEF OwnerInv
  <1> QED
    BY <1>2, <1>3, <1>4, <1>5, <1>7, <1>8, <1>9 DEF HeapOK, HeapInv

LEMMA StutterKeepsHeapOK ==
  ASSUME HeapOK, UNCHANGED vars
  PROVE  HeapOK'
  <1> USE DEF HeapOK
  <1>1. /\ UNCHANGED <<heap_lock, major, minor, info, l_memRoot, l_bestBet>>
        /\ UNCHANGED <<pc, call, walk, own>>
    BY DEF vars, heap, blocks
  <1>2. HeapInv'
    BY <1>1, HeapLinks, SameHeap
  <1>3. LockInv'
    BY <1>1 DEF LockInv
  <1>4. WalkInv'
    <2>1. \A m : BlocksOf(m)' = BlocksOf(m)
      BY <1>1 DEF BlocksOf, Live
    <2>2. \A t \in Threads : Need(t)' = Need(t)
      BY <1>1 DEF Need, Size
    <2> QED
      BY <1>1, <2>1, <2>2 DEF WalkInv
  <1>5. CallInv'
    BY <1>1 DEF CallInv
  <1>6. OwnerInv'
    <2>1. /\ \A r : HasBlock(r)' = HasBlock(r) /\ HeaderOf(r.ptr)' = HeaderOf(r.ptr)
          /\ \A t \in Threads : New(t)' = New(t)
          /\ Live' = Live /\ Regions' = Regions
      BY <1>1 DEF HasBlock, HeaderOf, Live, New, Regions
    <2>2. OwnInv'
      BY <1>1, <2>1 DEF OwnInv, OwnerInv
    <2>3. NewInv'
      BY <1>1, <2>1 DEF NewInv, OwnerInv
    <2>4. EachHasOwner'
      BY <2>1 DEF EachHasOwner, OwnerInv
    <2> QED
      BY <2>2, <2>3, <2>4 DEF OwnerInv
  <1> QED
    BY <1>2, <1>3, <1>4, <1>5, <1>6

LEMMA NextKeepsHeapOK ==
  ASSUME HeapOK, [Next]_vars
  PROVE  HeapOK'
  <1>1. CASE UNCHANGED vars
    BY <1>1, StutterKeepsHeapOK
  <1>2. ASSUME NEW t \in Threads, NEW n \in Requests, Malloc(t, "malloc", n)
        PROVE  HeapOK'
    BY <1>2, MallocKeepsHeapOK, RequestsAssumption
  <1>3. ASSUME NEW t \in Threads, NEW n \in Products, Malloc(t, "calloc", n)
        PROVE  HeapOK'
    BY <1>3, MallocKeepsHeapOK, RequestsAssumption, ProductsAssumption
  <1>4. ASSUME NEW t \in Threads, NEW r \in own[t], Free(t, r)
        PROVE  HeapOK'
    BY <1>4, FreeStepKeepsHeapOK
  <1>5. ASSUME NEW t \in Threads, NEW ptr \in DOMAIN info, FreeAgain(t, ptr)
        PROVE  HeapOK'
    BY <1>5, FreeAgainChangesNothing, StutterKeepsHeapOK
  <1>6. ASSUME NEW t \in Threads, NEW r \in own[t], NEW n \in Requests, Realloc(t, r, n)
        PROVE  HeapOK'
    BY <1>6, ReallocKeepsHeapOK, RequestsAssumption
  <1>7. ASSUME NEW t \in Threads, MallocStep(t)
        PROVE  HeapOK'
    BY <1>7, StartWalkKeepsHeapOK, VisitMajorKeepsHeapOK, PlaceKeepsHeapOK, VisitMinorKeepsHeapOK,
       NextMajorKeepsHeapOK, CreateRootKeepsHeapOK, GrowKeepsHeapOK DEF MallocStep
  <1>8. ASSUME NEW t \in Threads, ReallocStep(t)
        PROVE  HeapOK'
    BY <1>8, ReallocAcquireKeepsHeapOK, CopyKeepsHeapOK, DropKeepsHeapOK DEF ReallocStep
  <1> QED
    BY <1>1, <1>2, <1>3, <1>4, <1>5, <1>6, <1>7, <1>8 DEF Next

LEMMA HeapOKAlways == Spec => []HeapOK
  BY InitHeapOK, NextKeepsHeapOK, PTL DEF Spec

(* The majors form one list, linked both ways, that holds every major, and *)
(* l_bestBet points into it: liballoc_unlink_major and the appending of a  *)
(* new major leave no major behind and no pointer into pages given back.   *)
THEOREM HeapMajorsFormAList == Spec => []MajorsFormAList
  BY HeapOKAlways, PTL DEF HeapOK, HeapInv

(* The list of each major is its blocks by address, none over another.     *)
LEMMA BlocksInOrder ==
  ASSUME HeapInv
  PROVE  BlocksAreInOrder
  <1> SUFFICES ASSUME NEW m \in DOMAIN major
               PROVE  LET B == BlocksOf(m)
                          After(h)  == {x \in B : x > h}
                          Before(h) == {x \in B : x < h}
                      IN /\ major[m].first \in B \cup {NULL}
                         /\ \A h \in B :
                              /\ h >= m + MajorHeader /\ EndOf(h) <= MajorEnd(m)
                              /\ (major[m].first = h) = (Before(h) = {})
                              /\ IF After(h) = {} THEN minor[h].next = NULL
                                 ELSE /\ minor[h].next \in After(h)
                                      /\ \A x \in After(h) : EndOf(h) <= x /\ minor[h].next <= x
                              /\ IF Before(h) = {} THEN minor[h].prev = NULL
                                 ELSE /\ minor[h].prev \in Before(h)
                                      /\ \A x \in Before(h) : x <= minor[h].prev
    BY DEF BlocksAreInOrder
  <1> DEFINE B == BlocksOf(m)
             After(h)  == {x \in B : x > h}
             Before(h) == {x \in B : x < h}
  <1>1. FirstInv(m) /\ NULL \in Nat
    BY DEF HeapInv, BlockInv, NULL
  <1>2. \A h \in B : /\ h \in Live /\ minor[h].block = m
                     /\ h \in Nat \ {0} /\ EndOf(h) \in Nat /\ h < EndOf(h)
                     /\ minor[h].next \in Nat /\ minor[h].prev \in Nat
    BY LiveFacts, MinorTypes DEF HeapInv, BlocksOf
  <1> SUFFICES ASSUME NEW h \in B
               PROVE  /\ h >= m + MajorHeader /\ EndOf(h) <= MajorEnd(m)
                      /\ (major[m].first = h) = (Before(h) = {})
                      /\ IF After(h) = {} THEN minor[h].next = NULL
                         ELSE /\ minor[h].next \in After(h)
                              /\ \A x \in After(h) : EndOf(h) <= x /\ minor[h].next <= x
                      /\ IF Before(h) = {} THEN minor[h].prev = NULL
                         ELSE /\ minor[h].prev \in Before(h)
                              /\ \A x \in Before(h) : x <= minor[h].prev
    BY <1>1 DEF FirstInv
  <1>3. /\ InsideInv(h) /\ NextInv(h) /\ PrevInv(h) /\ h \in Live /\ minor[h].block = m
        /\ m \in Nat /\ MajorEnd(m) \in Nat /\ major[m].first \in Nat
    BY <1>2, LiveFacts, MajorTypes DEF HeapInv
  <1>4. h >= m + MajorHeader /\ EndOf(h) <= MajorEnd(m)
    BY <1>2, <1>3, SizesAssumption DEF InsideInv
  <1>5. (major[m].first = h) = (Before(h) = {})
    <2>1. CASE major[m].first = h
      BY <1>1, <1>2, <2>1 DEF FirstInv
    <2>2. CASE major[m].first # h
      BY <1>1, <1>2, <2>2 DEF FirstInv
    <2> QED
      BY <2>1, <2>2
  <1>6. IF After(h) = {} THEN minor[h].next = NULL
        ELSE /\ minor[h].next \in After(h)
             /\ \A x \in After(h) : EndOf(h) <= x /\ minor[h].next <= x
    <2> PICK n : n = minor[h].next
      OBVIOUS
    <2>1. \/ n = NULL /\ \A x \in B : x <= h
          \/ /\ n \in B /\ n # NULL /\ EndOf(h) <= n
             /\ \A x \in B : x <= h \/ n <= x
      BY <1>3 DEF NextInv
    <2>2. CASE n = NULL /\ \A x \in B : x <= h
      BY <1>2, <2>2
    <2>3. CASE n \in B /\ EndOf(h) <= n /\ \A x \in B : x <= h \/ n <= x
      <3>1. n \in After(h) /\ After(h) # {}
        BY <1>2, <2>3
      <3>2. \A x \in After(h) : EndOf(h) <= x /\ n <= x
        BY <1>2, <2>3
      <3> QED
        BY <3>1, <3>2
    <2> QED
      BY <2>1, <2>2, <2>3
  <1>7. IF Before(h) = {} THEN minor[h].prev = NULL
        ELSE /\ minor[h].prev \in Before(h)
             /\ \A x \in Before(h) : x <= minor[h].prev
    <2> PICK p : p = minor[h].prev
      OBVIOUS
    <2>1. \/ p = NULL /\ major[m].first = h
          \/ p \in B /\ p # NULL /\ minor[p].next = h
      BY <1>3 DEF PrevInv
    <2>2. CASE p = NULL /\ major[m].first = h
      BY <1>5, <2>2
    <2>3. CASE p \in B /\ p # NULL /\ minor[p].next = h
      <3>1. NextInv(p) /\ minor[p].block = m
        BY <1>2, <2>3, LiveFacts
      <3>2. p < h /\ \A x \in B : x <= p \/ h <= x
        BY <1>2, <2>3, <3>1 DEF NextInv, NULL
      <3>3. p \in Before(h) /\ Before(h) # {}
        BY <2>3, <3>2
      <3>4. \A x \in Before(h) : x <= p
        BY <1>2, <2>3, <3>2
      <3> QED
        BY <3>3, <3>4
    <2> QED
      BY <2>1, <2>2, <2>3
  <1> QED
    BY <1>4, <1>5, <1>6, <1>7

(* kmalloc places a block only into a gap that holds it, and no free makes *)
(* the links of its neighbours disagree with the addresses of the blocks.  *)
THEOREM HeapBlocksAreInOrder == Spec => []BlocksAreInOrder
  BY HeapOKAlways, BlocksInOrder, PTL DEF HeapOK

-----------------------------------------------------------------------------
(* Every region in use is a block of the heap of its own.                  *)
LEMMA OwnersOfBlocks ==
  ASSUME HeapInv, OwnerInv
  PROVE  OwnersHaveTheirBlocks
  <1>1. ASSUME NEW t \in Threads, NEW u \in Threads, t # u
        PROVE  own[t] \cap own[u] = {}
    BY <1>1 DEF OwnerInv, OwnInv
  <1>2. \A r \in Regions : /\ HasBlock(r)
                           /\ r.ptr \in DOMAIN info /\ HeaderOf(r.ptr) \in Live
                           /\ r.ptr = Payload(HeaderOf(r.ptr))
    BY RegionFacts, PointerOfHeader DEF HasBlock
  <1>3. Cardinality({r.ptr : r \in Regions}) = Cardinality(Live)
    <2> DEFINE pointers == {r.ptr : r \in Regions}
               f == [h \in Live |-> Payload(h)]
    <2>1. IsFiniteSet(Live)
      BY FS_Subset DEF Live, HeapInv, HeaderTypes
    <2>2. \A h \in Live : Payload(h) \in pointers
      BY <1>2 DEF OwnerInv, EachHasOwner
    <2>3. \A p \in pointers : \E h \in Live : Payload(h) = p
      BY <1>2
    <2>4. \A h, x \in Live : Payload(h) = Payload(x) => h = x
      BY LiveFacts
    <2> HIDE DEF pointers
    <2>5. f \in [Live -> pointers] /\ \A h \in Live : f[h] = Payload(h)
      BY <2>2
    <2> HIDE DEF f
    <2>6. f \in Injection(Live, pointers)
      BY <2>4, <2>5 DEF Injection, IsInjective
    <2>7. f \in Surjection(Live, pointers)
      BY <2>3, <2>5 DEF Surjection
    <2>8. ExistsBijection(Live, pointers)
      BY <2>6, <2>7 DEF ExistsBijection, Bijection
    <2>9. Cardinality(pointers) = Cardinality(Live)
      BY <2>1, <2>8, FS_Bijection
    <2> QED
      BY <2>9 DEF pointers
  <1>4. ASSUME NEW r \in Regions
        PROVE  LET h == HeaderOf(r.ptr)
               IN /\ h \in Live
                  /\ minor[h].req_size = r.n
                  /\ h + MinorHeader + ALIGN_INFO <= r.ptr
                  /\ r.ptr + r.n <= EndOf(h)
    <2> PICK h : h = HeaderOf(r.ptr)
      OBVIOUS
    <2> PICK n : n = minor[h].req_size
      OBVIOUS
    <2> PICK size : size = minor[h].size
      OBVIOUS
    <2>1. h \in Live /\ n = r.n /\ r.ptr = Payload(h)
      BY <1>2 DEF HasBlock
    <2>2. h \in Nat /\ n \in Nat /\ size \in Nat /\ EndOf(h) = h + MinorHeader + size
          /\ n + ALIGNMENT + ALIGN_INFO <= size
      BY <2>1, LiveFacts, MinorTypes, SizeType DEF HeapInv, InsideInv, EndOf
    <2>3. /\ Payload(h) \in Nat /\ h + MinorHeader + ALIGN_INFO <= Payload(h)
          /\ Payload(h) < h + MinorHeader + ALIGN_INFO + ALIGNMENT
      BY <2>2, PayloadType
    <2>4. Payload(h) + n <= EndOf(h)
      BY <2>2, <2>3, SizesAssumption
    <2> QED
      BY <2>1, <2>3, <2>4
  <1> QED
    BY <1>1, <1>3, <1>4 DEF OwnersHaveTheirBlocks

(* Every pointer that a caller of kmalloc, kcalloc or krealloc holds is    *)
(* the heap's only pointer to a block that is long enough, UNALIGN leads   *)
(* from it to that block's header, and no block is without an owner.       *)
THEOREM HeapOwnersHaveTheirBlocks == Spec => []OwnersHaveTheirBlocks
  BY HeapOKAlways, OwnersOfBlocks, PTL DEF HeapOK

LEMMA CopyFits ==
  ASSUME HeapOK
  PROVE  CopyStaysInside
  <1> USE DEF HeapOK
  <1> SUFFICES ASSUME NEW t \in Threads, pc[t] \in {"acquire", "copy", "drop"}
               PROVE  /\ \E r \in own[t] : r.ptr = call[t].old
                      /\ Holds(call[t].old, call[t].len)
                      /\ call[t].new # NULL => Holds(call[t].new, call[t].len)
    BY DEF CopyStaysInside
  <1> PICK r : r = [ptr |-> call[t].old, n |-> call[t].len]
    OBVIOUS
  <1>1. r \in own[t] /\ call[t].len < call[t].n /\ call[t] \in Calls
    BY DEF CallInv
  <1>2. call[t].len \in Nat /\ call[t].n \in Nat /\ r.ptr = call[t].old /\ r.n = call[t].len
    BY <1>1 DEF Calls
  <1>3. HasBlock(r)
    BY <1>1 DEF OwnerInv, OwnInv
  <1>4. Holds(call[t].old, call[t].len)
    BY <1>2, <1>3 DEF HasBlock, Holds
  <1>5. ASSUME call[t].new # NULL
        PROVE  Holds(call[t].new, call[t].len)
    <2>1. HasBlock(New(t)) /\ New(t).ptr = call[t].new /\ New(t).n = call[t].n
      BY <1>5 DEF OwnerInv, NewInv, New
    <2> QED
      BY <1>1, <1>2, <2>1 DEF HasBlock, Holds
  <1> QED
    BY <1>1, <1>2, <1>4, <1>5

(* krealloc copies outside the lock: what it copies from and to stays in   *)
(* the heap and its own, and both blocks hold the bytes that it copies.    *)
THEOREM HeapCopyStaysInside == Spec => []CopyStaysInside
  BY HeapOKAlways, CopyFits, PTL

-----------------------------------------------------------------------------
(* The heap implements the abstract memory of its callers: how the regions *)
(* change with each action.                                                *)
RegionsApart ==
  /\ \A r \in Regions : r.ptr % ALIGNMENT = 0
  /\ \A r, s \in Regions : r # s => r.ptr # s.ptr /\ Abstract!Apart(r, s)

LEMMA RegionsLieApart ==
  ASSUME HeapInv, OwnerInv
  PROVE  RegionsApart
  <1>1. ASSUME NEW r \in Regions
        PROVE  /\ HeaderOf(r.ptr) \in Live /\ r.ptr = Payload(HeaderOf(r.ptr))
               /\ r.ptr \in Nat /\ r.n \in Nat /\ HeaderOf(r.ptr) < r.ptr
               /\ r.ptr + r.n <= EndOf(HeaderOf(r.ptr))
               /\ r.ptr % ALIGNMENT = 0
    <2> PICK h : h = HeaderOf(r.ptr)
      OBVIOUS
    <2>1. HasBlock(r) /\ r.ptr = Payload(h) /\ h \in Live
      BY RegionFacts, PointerOfHeader DEF HasBlock
    <2>2. h \in Nat /\ minor[h].req_size \in Nat
      BY <2>1, LiveFacts, MinorTypes DEF HeapInv
    <2>3. Payload(h) \in Nat /\ Payload(h) % ALIGNMENT = 0 /\ h < Payload(h)
      BY <2>2, PayloadType
    <2>4. r.ptr + r.n <= EndOf(h)
      BY OwnersOfBlocks DEF OwnersHaveTheirBlocks
    <2> QED
      BY <2>1, <2>2, <2>3, <2>4 DEF HasBlock
  <1>2. ASSUME NEW r \in Regions, NEW s \in Regions, r # s
        PROVE  r.ptr # s.ptr /\ Abstract!Apart(r, s)
    <2> PICK h : h = HeaderOf(r.ptr)
      OBVIOUS
    <2> PICK x : x = HeaderOf(s.ptr)
      OBVIOUS
    <2>1. r.ptr # s.ptr
      BY <1>2, RegionFacts
    <2>2. h \in Live /\ x \in Live /\ h # x
      BY <1>1, <2>1
    <2>3. EndOf(h) <= x \/ EndOf(x) <= h
      BY <2>2, LiveApart
    <2>4. /\ h \in Nat /\ x \in Nat /\ EndOf(h) \in Nat /\ EndOf(x) \in Nat
          /\ r.ptr \in Nat /\ r.n \in Nat /\ s.ptr \in Nat /\ s.n \in Nat
          /\ h < r.ptr /\ x < s.ptr /\ r.ptr + r.n <= EndOf(h) /\ s.ptr + s.n <= EndOf(x)
      BY <1>1, <2>2, LiveFacts, MinorTypes DEF HeapInv
    <2> QED
      BY <2>1, <2>3, <2>4 DEF Abstract!Apart
  <1> QED
    BY <1>1, <1>2 DEF RegionsApart

LEMMA SameRegions ==
  ASSUME NEW t \in Threads, UNCHANGED own, call[t].new = NULL, call'[t].new = NULL,
         \A u \in Threads : u # t => call'[u] = call[u]
  PROVE  Regions' = Regions
  <1>1. \A u \in Threads : (call'[u].new # NULL) = (call[u].new # NULL)
    OBVIOUS
  <1>2. \A u \in Threads : call[u].new # NULL => New(u)' = New(u)
    BY DEF New
  <1>3. \A r : r \in Regions' <=> r \in Regions
    BY <1>1, <1>2, RegionsAre
  <1> QED
    BY <1>3

LEMMA UnchangedRegions ==
  ASSUME UNCHANGED <<own, call>>
  PROVE  Regions' = Regions
  BY DEF Regions

LEMMA SearchHasNoNew ==
  ASSUME CallInv, NEW t \in Threads, pc[t] \in Search \cup {"idle", "acquire"}
  PROVE  call[t].new = NULL /\ NoCall.new = NULL /\ call \in [Threads -> Calls]
  BY DEF CallInv, Search, NoCall

LEMMA ReturnedRegion ==
  ASSUME CallInv, OwnerInv, NEW t \in Threads, pc[t] \in Search, NEW ptr, Return(t, ptr)
  PROVE  Regions' = IF ptr = NULL THEN Regions
                    ELSE Regions \cup {[ptr |-> ptr, n |-> call[t].n]}
  <1> DEFINE re == call[t].op = "realloc"
  <1> PICK x : x = [ptr |-> ptr, n |-> call[t].n]
    OBVIOUS
  <1>1. /\ call[t].new = NULL /\ NoCall.new = NULL /\ call \in [Threads -> Calls]
        /\ own \in [Threads -> SUBSET Region]
    BY SearchHasNoNew DEF OwnerInv, OwnInv
  <1>2. /\ call' = [call EXCEPT ![t] = IF re THEN [call[t] EXCEPT !.new = ptr] ELSE NoCall]
        /\ own' = IF ptr = NULL \/ re THEN own ELSE [own EXCEPT ![t] = own[t] \cup {x}]
    BY DEF Return
  <1>3. /\ call'[t] = IF re THEN [call[t] EXCEPT !.new = ptr] ELSE NoCall
        /\ \A u \in Threads : u # t => call'[u] = call[u]
    BY <1>1, <1>2
  <1>4. call'[t].new = IF re THEN ptr ELSE NULL
    BY <1>1, <1>3 DEF Calls
  <1>5. CASE ptr = NULL
    BY <1>1, <1>2, <1>3, <1>4, <1>5, SameRegions
  <1>6. CASE ptr # NULL /\ ~re
    <2>1. own'[t] = own[t] \cup {x} /\ \A u \in Threads : u # t => own'[u] = own[u]
      BY <1>1, <1>2, <1>6
    <2>2. \A u \in Threads : (call'[u].new # NULL) = (call[u].new # NULL)
      BY <1>1, <1>3, <1>4, <1>6
    <2>3. \A u \in Threads : call[u].new # NULL => New(u)' = New(u)
      BY <1>1, <1>3 DEF New
    <2>4. \A r : r \in Regions' <=> r \in Regions \/ r = x
      BY <2>1, <2>2, <2>3, RegionsAre
    <2>5. Regions' = Regions \cup {x}
      BY <2>4
    <2> QED
      BY <1>6, <2>5
  <1>7. CASE ptr # NULL /\ re
    <2>1. own' = own
      BY <1>2, <1>7
    <2>2. New(t)' = x /\ call'[t].new # NULL
      BY <1>1, <1>3, <1>4, <1>7 DEF New, Calls
    <2>3. \A u \in Threads : u # t => New(u)' = New(u) /\ call'[u].new = call[u].new
      BY <1>3 DEF New
    <2>4. \A r : r \in Regions' <=> r \in Regions \/ r = x
      BY <1>1, <2>1, <2>2, <2>3, RegionsAre
    <2>5. Regions' = Regions \cup {x}
      BY <2>4
    <2> QED
      BY <1>7, <2>5
  <1> QED
    BY <1>5, <1>6, <1>7

(* What a caller's region becomes, when the call that it is in leaves none *)
(* or has made it the caller's already.                                    *)
LEMMA OwnedRegionChanges ==
  ASSUME OwnerInv, NEW t \in Threads, NEW r \in own[t], NEW S,
         own' = [own EXCEPT ![t] = (own[t] \ {r}) \cup S],
         \A u \in Threads : u # t => call'[u] = call[u],
         call'[t].new = NULL,
         call[t].new # NULL => New(t) \in own[t] /\ New(t) # r
  PROVE  Regions' = (Regions \ {r}) \cup S
  <1>1. own \in [Threads -> SUBSET Region]
    BY DEF OwnerInv, OwnInv
  <1>2. own'[t] = (own[t] \ {r}) \cup S /\ \A u \in Threads : u # t => own'[u] = own[u]
    BY <1>1
  <1>3. \A u \in Threads : u # t => New(u)' = New(u) /\ call'[u].new = call[u].new
    BY DEF New
  <1>4. \A u \in Threads : u # t => r \notin own[u]
    BY DEF OwnerInv, OwnInv
  <1>5. \A u \in Threads : u # t /\ call[u].new # NULL => New(u) # r
    <2> SUFFICES ASSUME NEW u \in Threads, u # t, call[u].new # NULL, New(u) = r
                 PROVE  FALSE
      OBVIOUS
    <2>1. CASE New(u) \in own[u]
      BY <1>4, <2>1
    <2>2. CASE \A v \in Threads : \A s \in own[v] : s.ptr # call[u].new
      BY <2>2 DEF New
    <2> QED
      BY <2>1, <2>2 DEF OwnerInv, NewInv
  <1>6. \A x : x \in Regions' <=> (x \in Regions /\ x # r) \/ x \in S
    BY <1>2, <1>3, <1>4, <1>5, RegionsAre
  <1> QED
    BY <1>6

LEMMA AddedRegion ==
  ASSUME RegionsApart', NEW x, Regions' = Regions \cup {x}
  PROVE  [Abstract!Next]_Regions
  <1>1. CASE x \in Regions
    BY <1>1
  <1>2. CASE x \notin Regions
    <2>1. x \in Regions' \ Regions
      BY <1>2
    <2>2. /\ x.ptr % ALIGNMENT = 0
          /\ \A s \in Regions : s.ptr # x.ptr /\ Abstract!Apart(x, s)
      BY <1>2 DEF RegionsApart, Abstract!Apart
    <2>3. Abstract!Allocate
      BY <2>1, <2>2 DEF Abstract!Allocate
    <2> QED
      BY <2>3 DEF Abstract!Next
  <1> QED
    BY <1>1, <1>2

LEMMA RemovedRegion ==
  ASSUME NEW r \in Regions, Regions' = Regions \ {r}
  PROVE  [Abstract!Next]_Regions
  BY DEF Abstract!Next, Abstract!Release

LEMMA ReturnedStep ==
  ASSUME CallInv, OwnerInv, RegionsApart', NEW t \in Threads, pc[t] \in Search, NEW ptr,
         Return(t, ptr)
  PROVE  [Abstract!Next]_Regions
  <1>1. CASE ptr = NULL
    BY <1>1, ReturnedRegion
  <1>2. CASE ptr # NULL
    BY <1>2, ReturnedRegion, AddedRegion
  <1> QED
    BY <1>1, <1>2

LEMMA SearchImplementsRegions ==
  ASSUME HeapOK, RegionsApart', NEW t \in Threads, MallocStep(t)
  PROVE  [Abstract!Next]_Regions
  <1> USE DEF HeapOK
  <1>1. pc[t] \in Search
    BY DEF MallocStep, StartWalk, VisitMajor, Place, VisitMinor, NextMajor, CreateRoot, Grow, Search
  <1>2. \/ \E ptr : Return(t, ptr)
        \/ UNCHANGED <<own, call>>
    <2>1. CASE StartWalk(t) \/ VisitMajor(t) \/ NextMajor(t)
      BY <2>1 DEF StartWalk, VisitMajor, NextMajor
    <2>2. CASE Place(t)
      BY <2>2 DEF Place, Insert
    <2>3. CASE VisitMinor(t)
      BY <2>3 DEF VisitMinor, Insert
    <2>4. CASE \E a \in Answers(Size(t)) : CreateRoot(t, a) \/ Grow(t, a)
      <3> PICK a \in Answers(Size(t)) : CreateRoot(t, a) \/ Grow(t, a)
        BY <2>4
      <3>1. CASE a = NULL
        BY <3>1 DEF CreateRoot, Grow
      <3>2. CASE a # NULL
        BY <3>2 DEF CreateRoot, Grow
      <3> QED
        BY <3>1, <3>2
    <2> QED
      BY <2>1, <2>2, <2>3, <2>4 DEF MallocStep
  <1> QED
    BY <1>1, <1>2, ReturnedStep, UnchangedRegions

LEMMA FreeImplementsRegions ==
  ASSUME HeapOK, NEW t \in Threads, NEW r \in own[t], Free(t, r)
  PROVE  [Abstract!Next]_Regions
  <1> USE DEF HeapOK
  <1>1. pc[t] = "idle" /\ own' = [own EXCEPT ![t] = own[t] \ {r}] /\ call' = call
    BY DEF Free
  <1>2. call[t].new = NULL
    BY <1>1, SearchHasNoNew
  <1>3. own' = [own EXCEPT ![t] = (own[t] \ {r}) \cup {}]
    BY <1>1
  <1>4. Regions' = (Regions \ {r}) \cup {}
    BY <1>1, <1>2, <1>3, OwnedRegionChanges
  <1> QED
    BY <1>4, OwnedBlock, RemovedRegion

LEMMA DropImplementsRegions ==
  ASSUME HeapOK, NEW t \in Threads, Drop(t)
  PROVE  [Abstract!Next]_Regions
  <1> USE DEF HeapOK
  <1> PICK r : r = [ptr |-> call[t].old, n |-> call[t].len]
    OBVIOUS
  <1>1. /\ pc[t] = "drop" /\ own' = [own EXCEPT ![t] = {s \in own[t] : s.ptr # call[t].old}]
        /\ call' = [call EXCEPT ![t] = NoCall]
    BY DEF Drop
  <1>2. r \in own[t] /\ r.ptr = call[t].old /\ call \in [Threads -> Calls] /\ NoCall.new = NULL
    BY <1>1 DEF CallInv, NoCall
  <1>3. \A s \in own[t] : s.ptr = r.ptr => s = r
    BY <1>2 DEF OwnerInv, OwnInv
  <1>4. {s \in own[t] : s.ptr # call[t].old} = (own[t] \ {r}) \cup {}
    BY <1>2, <1>3
  <1>5. own' = [own EXCEPT ![t] = (own[t] \ {r}) \cup {}]
    BY <1>1, <1>4
  <1>6. call'[t].new = NULL /\ \A u \in Threads : u # t => call'[u] = call[u]
    BY <1>1, <1>2
  <1>7. call[t].new # NULL => New(t) \in own[t] /\ New(t) # r
    BY <1>1, <1>2 DEF OwnerInv, NewInv, New
  <1>8. Regions' = (Regions \ {r}) \cup {}
    BY <1>2, <1>5, <1>6, <1>7, OwnedRegionChanges
  <1> QED
    BY <1>2, <1>8, OwnedBlock, RemovedRegion

LEMMA ReallocImplementsRegions ==
  ASSUME HeapOK, NEW t \in Threads, NEW r \in own[t], NEW n \in Nat, Realloc(t, r, n)
  PROVE  [Abstract!Next]_Regions
  <1> USE DEF HeapOK
  <1>1. pc[t] = "idle" /\ call \in [Threads -> Calls] /\ call[t].new = NULL
    <2>1. pc[t] = "idle"
      BY DEF Realloc
    <2> QED
      BY <2>1, SearchHasNoNew
  <1>2. CASE minor[HeaderOf(r.ptr)].req_size >= n
    <2> PICK s : s = [ptr |-> r.ptr, n |-> n]
      OBVIOUS
    <2>1. own' = [own EXCEPT ![t] = (own[t] \ {r}) \cup {s}] /\ call' = call
      BY <1>2 DEF Realloc
    <2>2. Regions' = (Regions \ {r}) \cup {s}
      BY <1>1, <2>1, OwnedRegionChanges
    <2>3. r \in Regions /\ s \in Regions' /\ s.ptr = r.ptr /\ s.n <= r.n
      BY <1>2, <2>2, OwnedBlock
    <2> QED
      BY <2>2, <2>3 DEF Abstract!Next, Abstract!Shrink
  <1>3. CASE ~(minor[HeaderOf(r.ptr)].req_size >= n)
    <2>1. /\ own' = own
          /\ call' = [call EXCEPT ![t] = [op |-> "realloc", n |-> n, old |-> r.ptr,
                                          len |-> minor[HeaderOf(r.ptr)].req_size, new |-> NULL]]
      BY <1>3 DEF Realloc
    <2>2. call'[t].new = NULL /\ \A u \in Threads : u # t => call'[u] = call[u]
      BY <1>1, <2>1
    <2> QED
      BY <1>1, <2>1, <2>2, SameRegions
  <1> QED
    BY <1>2, <1>3

LEMMA NextImplementsRegions ==
  ASSUME HeapOK, RegionsApart', [Next]_vars
  PROVE  [Abstract!Next]_Regions
  <1> USE DEF HeapOK
  <1>1. CASE UNCHANGED vars
    BY <1>1, UnchangedRegions DEF vars
  <1>2. ASSUME NEW t \in Threads, NEW op, NEW n, Malloc(t, op, n)
        PROVE  [Abstract!Next]_Regions
    <2>1. /\ pc[t] = "idle" /\ own' = own
          /\ call' = [call EXCEPT ![t] = [NoCall EXCEPT !.op = op, !.n = n]]
      BY <1>2 DEF Malloc
    <2>2. call[t].new = NULL /\ call \in [Threads -> Calls]
      BY <2>1, SearchHasNoNew
    <2>3. call'[t].new = NULL /\ \A u \in Threads : u # t => call'[u] = call[u]
      BY <2>1, <2>2 DEF NoCall
    <2> QED
      BY <2>1, <2>2, <2>3, SameRegions
  <1>3. ASSUME NEW t \in Threads, NEW r \in own[t], Free(t, r)
        PROVE  [Abstract!Next]_Regions
    BY <1>3, FreeImplementsRegions
  <1>4. ASSUME NEW t \in Threads, NEW ptr \in DOMAIN info, FreeAgain(t, ptr)
        PROVE  [Abstract!Next]_Regions
    BY <1>4, FreeAgainChangesNothing, UnchangedRegions DEF vars
  <1>5. ASSUME NEW t \in Threads, NEW r \in own[t], NEW n \in Requests, Realloc(t, r, n)
        PROVE  [Abstract!Next]_Regions
    BY <1>5, ReallocImplementsRegions, RequestsAssumption
  <1>6. ASSUME NEW t \in Threads, MallocStep(t)
        PROVE  [Abstract!Next]_Regions
    BY <1>6, SearchImplementsRegions
  <1>7. ASSUME NEW t \in Threads, ReallocStep(t)
        PROVE  [Abstract!Next]_Regions
    <2>1. CASE ReallocAcquire(t)
      BY <2>1, UnchangedRegions DEF ReallocAcquire
    <2>2. CASE Drop(t)
      BY <2>2, DropImplementsRegions
    <2>3. CASE Copy(t)
      <3>1. call' = call /\ pc[t] = "copy" /\ own \in [Threads -> SUBSET Region]
            /\ \/ own' = own
               \/ call[t].new # NULL /\ own' = [own EXCEPT ![t] = own[t] \cup {New(t)}]
        BY <2>3 DEF Copy, New, OwnerInv, OwnInv
      <3>2. CASE own' = own
        BY <3>1, <3>2, UnchangedRegions
      <3>3. CASE call[t].new # NULL /\ own' = [own EXCEPT ![t] = own[t] \cup {New(t)}]
        <4>1. \A u \in Threads : New(u)' = New(u) /\ (call'[u].new # NULL) = (call[u].new # NULL)
          BY <3>1 DEF New
        <4>2. own'[t] = own[t] \cup {New(t)} /\ \A u \in Threads : u # t => own'[u] = own[u]
          BY <3>1, <3>3
        <4>3. \A r : r \in Regions' <=> r \in Regions
          BY <3>3, <4>1, <4>2, RegionsAre
        <4> QED
          BY <4>3
      <3> QED
        BY <3>1, <3>2, <3>3
    <2> QED
      BY <1>7, <2>1, <2>2, <2>3 DEF ReallocStep
  <1> QED
    BY <1>1, <1>2, <1>3, <1>4, <1>5, <1>6, <1>7 DEF Next

(* The heap is a memory of regions that lie apart, start aligned, appear   *)
(* and disappear whole and shrink only at their end: each step of kmalloc, *)
(* kfree and krealloc is a step of that memory, or changes nothing in it.  *)
THEOREM HeapImplementsHeapRegions == Spec => ImplementsHeapRegions
  <1>1. Init => Abstract!Init
    <2> SUFFICES ASSUME Init
                 PROVE  Regions = {}
      BY DEF Abstract!Init
    <2>1. \A t \in Threads : own[t] = {} /\ call[t].new = NULL
      BY DEF Init, NoCall
    <2>2. \A r : r \notin Regions
      BY <2>1, RegionsAre
    <2> QED
      BY <2>2
  <1>2. HeapOK => RegionsApart
    BY RegionsLieApart DEF HeapOK
  <1>3. HeapOK /\ RegionsApart' /\ [Next]_vars => [Abstract!Next]_Regions
    BY NextImplementsRegions
  <1> QED
    BY <1>1, <1>2, <1>3, HeapOKAlways, PTL DEF Spec, ImplementsHeapRegions, Abstract!Spec

(* No byte of the heap is ever two callers' at once: whatever the requests *)
(* and their order, and also while a krealloc holds the old block and the  *)
(* new one, the regions in use start aligned, at addresses of their own,   *)
(* and do not overlap.                                                     *)
THEOREM HeapRegionsLieApart == Spec => []RegionsApart
  <1>1. HeapOK => RegionsApart
    BY RegionsLieApart DEF HeapOK
  <1> QED
    BY <1>1, HeapOKAlways, PTL

-----------------------------------------------------------------------------
(* Sums, and the induction that they need: a set of numbers that holds 0   *)
(* and with each number the next one holds all.                            *)
LEMMA Induction ==
  ASSUME NEW S \in SUBSET Nat, 0 \in S, \A n \in S : n + 1 \in S
  PROVE  S = Nat
  <1> DEFINE R == OpToRel(<, Nat)
             T == Nat \ S
  <1> SUFFICES ASSUME T # {} PROVE FALSE
    OBVIOUS
  <1>1. IsWellFoundedOn(R, Nat)
    BY NatLessThanWellFounded
  <1>2. PICK x \in T : \A y \in T : <<y, x>> \notin R
    <2> HIDE DEF R
    <2> QED BY <1>1, WFMin
  <1>3. x # 0 /\ x - 1 \in Nat
    OBVIOUS
  <1>4. <<x - 1, x>> \in R
    BY <1>3 DEF OpToRel
  <1>5. x - 1 \in S
    BY <1>2, <1>3, <1>4
  <1>6. x = (x - 1) + 1
    BY <1>3
  <1> QED
    BY <1>2, <1>5, <1>6

(* The same for the subsets of a finite set. *)
LEMMA SubsetInduction ==
  ASSUME NEW S, IsFiniteSet(S), NEW F \in SUBSET SUBSET S,
         \A s \in SUBSET S : (\A x \in s : s \ {x} \in F) => s \in F
  PROVE  SUBSET S \subseteq F
  <1> DEFINE N == {n \in Nat : \A s \in SUBSET S : Cardinality(s) = n => s \in F}
  <1>1. \A s \in SUBSET S : IsFiniteSet(s) /\ Cardinality(s) \in Nat
    BY FS_Subset, FS_CardinalityType
  <1>2. 0 \in N
    <2> SUFFICES ASSUME NEW s \in SUBSET S, Cardinality(s) = 0 PROVE s \in F
      OBVIOUS
    <2>1. s = {}
      BY <1>1, FS_EmptySet
    <2> QED
      BY <2>1
  <1>3. \A n \in N : n + 1 \in N
    <2> SUFFICES ASSUME NEW n \in N, NEW s \in SUBSET S, Cardinality(s) = n + 1
                 PROVE  s \in F
      OBVIOUS
    <2>1. ASSUME NEW x \in s PROVE s \ {x} \in F
      <3>1. Cardinality(s \ {x}) = Cardinality(s) - 1
        BY <1>1, FS_RemoveElement
      <3>2. n \in Nat
        OBVIOUS
      <3>3. Cardinality(s \ {x}) = n
        BY <3>1, <3>2
      <3> QED
        BY <3>3
    <2> QED
      BY <2>1
  <1>4. N = Nat
    <2> HIDE DEF N
    <2>1. N \in SUBSET Nat
      BY DEF N
    <2> QED
      BY <1>2, <1>3, <2>1, Induction
  <1>5. ASSUME NEW s \in SUBSET S PROVE s \in F
    <2>1. Cardinality(s) \in N
      BY <1>1, <1>4
    <2> QED
      BY <2>1
  <1> QED
    BY <1>5

(* The element that a sum takes next, and the function that it runs through. *)
Pick(S) == CHOOSE x \in S : TRUE

SumsUp(g, f, S) ==
  g = [s \in SUBSET S |-> IF s = {} THEN 0 ELSE f[Pick(s)] + g[s \ {Pick(s)}]]

LEMMA SumDef ==
  ASSUME NEW f, NEW S
  PROVE  SumFunctionOnSet(f, S) = (CHOOSE g : SumsUp(g, f, S))[S]
  BY DEF SumFunctionOnSet, FoldFunctionOnSet, MapThenFoldSet, SumsUp, Pick

LEMMA PickIsIn ==
  ASSUME NEW s, s # {}
  PROVE  Pick(s) \in s
  BY DEF Pick

LEMMA SumsUpExists ==
  ASSUME NEW f, NEW S, IsFiniteSet(S)
  PROVE  \E g : SumsUp(g, f, S)
  <1> DEFINE Unfold(g) == [s \in SUBSET S |-> IF s = {} THEN 0
                                              ELSE f[Pick(s)] + g[s \ {Pick(s)}]]
             N == {n \in Nat : \E g : \A s \in SUBSET S :
                                 Cardinality(s) <= n => g[s] = Unfold(g)[s]}
  <1>1. \A s \in SUBSET S : IsFiniteSet(s) /\ Cardinality(s) \in Nat
    BY FS_Subset, FS_CardinalityType
  <1>2. 0 \in N
    <2> DEFINE g == [s \in SUBSET S |-> 0]
    <2>1. ASSUME NEW s \in SUBSET S, Cardinality(s) <= 0 PROVE g[s] = Unfold(g)[s]
      <3>1. s = {}
        BY <1>1, <2>1, FS_EmptySet
      <3> QED
        BY <3>1
    <2> QED
      BY <2>1
  <1>3. \A n \in N : n + 1 \in N
    <2> SUFFICES ASSUME NEW n \in N PROVE n + 1 \in N
      OBVIOUS
    <2>1. PICK g : \A s \in SUBSET S : Cardinality(s) <= n => g[s] = Unfold(g)[s]
      OBVIOUS
    <2> DEFINE h == Unfold(g)
    <2>2. ASSUME NEW s \in SUBSET S, Cardinality(s) <= n + 1 PROVE h[s] = Unfold(h)[s]
      <3>1. CASE s = {}
        BY <3>1
      <3>2. CASE s # {}
        <4> DEFINE r == s \ {Pick(s)}
        <4>1. Pick(s) \in s /\ r \in SUBSET S
          BY <3>2, PickIsIn
        <4>2. Cardinality(r) <= n
          BY <4>1, <2>2, <1>1, FS_RemoveElement
        <4>3. h[r] = g[r]
          BY <4>1, <4>2, <2>1
        <4> HIDE DEF r
        <4>4. h[s] = f[Pick(s)] + g[r] /\ Unfold(h)[s] = f[Pick(s)] + h[r]
          BY <3>2 DEF r
        <4> QED
          BY <4>3, <4>4
      <3> QED
        BY <3>1, <3>2
    <2>3. n + 1 \in Nat
      OBVIOUS
    <2> QED
      BY <2>2, <2>3
  <1>4. Cardinality(S) \in N
    <2> HIDE DEF N
    <2>1. N \in SUBSET Nat
      BY DEF N
    <2> QED
      BY <1>1, <1>2, <1>3, <2>1, Induction
  <1>5. PICK g : \A s \in SUBSET S : Cardinality(s) <= Cardinality(S) => g[s] = Unfold(g)[s]
    BY <1>4
  <1>6. \A s \in SUBSET S : g[s] = Unfold(g)[s]
    BY <1>5, <1>1, FS_Subset
  <1> DEFINE h == [s \in SUBSET S |-> g[s]]
  <1>7. h = Unfold(h)
    <2>1. ASSUME NEW s \in SUBSET S PROVE h[s] = Unfold(h)[s]
      <3>1. s = {} \/ s \ {Pick(s)} \in SUBSET S
        OBVIOUS
      <3> QED
        BY <1>6, <3>1
    <2> QED
      BY <2>1
  <1> QED
    BY <1>7 DEF SumsUp

LEMMA SumFunctionExists ==
  ASSUME NEW f, NEW S, IsFiniteSet(S)
  PROVE  \E g : SumsUp(g, f, S) /\ SumFunctionOnSet(f, S) = g[S]
  <1> DEFINE g == CHOOSE g : SumsUp(g, f, S)
  <1>1. SumsUp(g, f, S)
    BY SumsUpExists
  <1> QED
    BY <1>1, SumDef

(* The sums of functions that agree on a set, of which each runs through a *)
(* function on the subsets of a set of its own.                            *)
LEMMA SumsUpAgree ==
  ASSUME NEW s, IsFiniteSet(s), NEW f, NEW h, NEW S, NEW T, NEW g, NEW k,
         s \subseteq S, s \subseteq T, SumsUp(g, f, S), SumsUp(k, h, T),
         \A x \in s : f[x] = h[x]
  PROVE  g[s] = k[s]
  <1> DEFINE F == {r \in SUBSET s : g[r] = k[r]}
  <1>1. ASSUME NEW r \in SUBSET s, \A x \in r : r \ {x} \in F PROVE r \in F
    <2>1. r \in SUBSET S /\ r \in SUBSET T
      OBVIOUS
    <2>2. /\ g[r] = IF r = {} THEN 0 ELSE f[Pick(r)] + g[r \ {Pick(r)}]
          /\ k[r] = IF r = {} THEN 0 ELSE h[Pick(r)] + k[r \ {Pick(r)}]
      BY <2>1 DEF SumsUp
    <2>3. CASE r = {}
      BY <2>2, <2>3
    <2>4. CASE r # {}
      <3>1. Pick(r) \in r
        BY <2>4, PickIsIn
      <3>2. g[r \ {Pick(r)}] = k[r \ {Pick(r)}] /\ f[Pick(r)] = h[Pick(r)]
        BY <1>1, <3>1
      <3> QED
        BY <2>2, <2>4, <3>2
    <2> QED
      BY <2>3, <2>4
  <1>2. SUBSET s \subseteq F
    <2> HIDE DEF F
    <2>1. F \in SUBSET SUBSET s
      BY DEF F
    <2> QED
      BY <1>1, <2>1, SubsetInduction
  <1> QED
    BY <1>2

LEMMA SumAgrees ==
  ASSUME NEW S, IsFiniteSet(S), NEW f, NEW h, \A x \in S : f[x] = h[x]
  PROVE  SumFunctionOnSet(f, S) = SumFunctionOnSet(h, S)
  <1>1. PICK g : SumsUp(g, f, S) /\ SumFunctionOnSet(f, S) = g[S]
    BY SumFunctionExists
  <1>2. PICK k : SumsUp(k, h, S) /\ SumFunctionOnSet(h, S) = k[S]
    BY SumFunctionExists
  <1> QED
    BY <1>1, <1>2, SumsUpAgree

LEMMA SumUnfolds ==
  ASSUME NEW S, IsFiniteSet(S), NEW f
  PROVE  SumFunctionOnSet(f, S) =
           IF S = {} THEN 0 ELSE f[Pick(S)] + SumFunctionOnSet(f, S \ {Pick(S)})
  <1>1. PICK g : SumsUp(g, f, S) /\ SumFunctionOnSet(f, S) = g[S]
    BY SumFunctionExists
  <1>2. g[S] = IF S = {} THEN 0 ELSE f[Pick(S)] + g[S \ {Pick(S)}]
    BY <1>1 DEF SumsUp
  <1> DEFINE R == S \ {Pick(S)}
  <1>3. IsFiniteSet(R)
    BY FS_Subset
  <1>4. PICK k : SumsUp(k, f, R) /\ SumFunctionOnSet(f, R) = k[R]
    BY <1>3, SumFunctionExists
  <1>5. g[R] = k[R]
    BY <1>1, <1>3, <1>4, SumsUpAgree
  <1> QED
    BY <1>1, <1>2, <1>4, <1>5

LEMMA SumType ==
  ASSUME NEW S, IsFiniteSet(S), NEW N \in SUBSET Int, 0 \in N, \A a, b \in N : a + b \in N,
         NEW f, \A x \in S : f[x] \in N
  PROVE  SumFunctionOnSet(f, S) \in N
  <1> DEFINE F == {s \in SUBSET S : SumFunctionOnSet(f, s) \in N}
  <1>1. ASSUME NEW s \in SUBSET S, \A x \in s : s \ {x} \in F PROVE s \in F
    <2>1. IsFiniteSet(s)
      BY FS_Subset
    <2>2. s # {} => Pick(s) \in s
      BY PickIsIn
    <2>3. s # {} => f[Pick(s)] \in N /\ SumFunctionOnSet(f, s \ {Pick(s)}) \in N
      BY <1>1, <2>2
    <2>4. SumFunctionOnSet(f, s) =
           IF s = {} THEN 0 ELSE f[Pick(s)] + SumFunctionOnSet(f, s \ {Pick(s)})
      BY <2>1, SumUnfolds
    <2>5. SumFunctionOnSet(f, s) \in N
      BY <2>3, <2>4
    <2> QED
      BY <2>5
  <1>2. SUBSET S \subseteq F
    <2> HIDE DEF F
    <2>1. F \in SUBSET SUBSET S
      BY DEF F
    <2> QED
      BY <1>1, <2>1, SubsetInduction
  <1> QED
    BY <1>2

LEMMA SumIsInt ==
  ASSUME NEW S, IsFiniteSet(S), NEW f, \A x \in S : f[x] \in Int
  PROVE  SumFunctionOnSet(f, S) \in Int
  <1>1. Int \in SUBSET Int /\ 0 \in Int /\ \A a, b \in Int : a + b \in Int
    OBVIOUS
  <1> QED
    BY <1>1, SumType

LEMMA SumIsNat ==
  ASSUME NEW f, IsFiniteSet(DOMAIN f), \A x \in DOMAIN f : f[x] \in Nat
  PROVE  SumFunction(f) \in Nat
  <1>1. Nat \in SUBSET Int /\ 0 \in Nat /\ \A a, b \in Nat : a + b \in Nat
    OBVIOUS
  <1>2. SumFunctionOnSet(f, DOMAIN f) \in Nat
    BY <1>1, SumType
  <1> QED
    BY <1>2 DEF SumFunction

(* Any element can be the one that a sum takes first. *)
LEMMA SumTakes ==
  ASSUME NEW S, IsFiniteSet(S), NEW f, \A x \in S : f[x] \in Int, NEW x \in S
  PROVE  SumFunctionOnSet(f, S) = f[x] + SumFunctionOnSet(f, S \ {x})
  <1> DEFINE Sum(s) == SumFunctionOnSet(f, s)
             F == {s \in SUBSET S : \A y \in s : Sum(s) = f[y] + Sum(s \ {y})}
  <1>0. \A s \in SUBSET S : IsFiniteSet(s) /\ Sum(s) \in Int
    BY FS_Subset, SumIsInt
  <1>1. ASSUME NEW s \in SUBSET S, \A y \in s : s \ {y} \in F PROVE s \in F
    <2> SUFFICES ASSUME NEW y \in s PROVE Sum(s) = f[y] + Sum(s \ {y})
      OBVIOUS
    <2> DEFINE p == Pick(s)
    <2>1. p \in s /\ f[p] \in Int /\ f[y] \in Int
      BY PickIsIn
    <2>2. Sum(s) = f[p] + Sum(s \ {p})
      BY <1>0, SumUnfolds
    <2>3. CASE y = p
      BY <2>2, <2>3
    <2>4. CASE y # p
      <3> DEFINE r == (s \ {p}) \ {y}
      <3>1. Sum(s \ {p}) = f[y] + Sum(r)
        BY <1>1, <2>1, <2>4
      <3>2. Sum(s \ {y}) = f[p] + Sum((s \ {y}) \ {p})
        BY <1>1, <2>1, <2>4
      <3>3. (s \ {y}) \ {p} = r
        OBVIOUS
      <3>4. Sum(r) \in Int
        BY <1>0
      <3> HIDE DEF r, Sum, p
      <3>5. Sum(s) = f[p] + (f[y] + Sum(r)) /\ Sum(s \ {y}) = f[p] + Sum(r)
        BY <2>2, <3>1, <3>2, <3>3
      <3> QED
        BY <2>1, <3>4, <3>5
    <2> QED
      BY <2>3, <2>4
  <1>2. SUBSET S \subseteq F
    <2> HIDE DEF F
    <2>1. F \in SUBSET SUBSET S
      BY DEF F
    <2> QED
      BY <1>1, <2>1, SubsetInduction
  <1> QED
    BY <1>2

LEMMA SumEmpty ==
  ASSUME NEW f, DOMAIN f = {}
  PROVE  SumFunction(f) = 0
  BY FS_EmptySet, SumUnfolds DEF SumFunction

LEMMA SumAdds ==
  ASSUME NEW f, NEW h, NEW x, IsFiniteSet(DOMAIN f), x \notin DOMAIN f,
         DOMAIN h = DOMAIN f \cup {x}, h[x] \in Int,
         \A y \in DOMAIN f : f[y] \in Int /\ h[y] = f[y]
  PROVE  SumFunction(h) = SumFunction(f) + h[x] /\ SumFunction(f) \in Int
  <1> DEFINE D == DOMAIN f
  <1>1. IsFiniteSet(DOMAIN h) /\ DOMAIN h \ {x} = D
    BY FS_AddElement
  <1>2. \A y \in DOMAIN h : h[y] \in Int
    OBVIOUS
  <1>3. SumFunctionOnSet(h, DOMAIN h) = h[x] + SumFunctionOnSet(h, D)
    BY <1>1, <1>2, SumTakes
  <1>4. SumFunctionOnSet(h, D) = SumFunctionOnSet(f, D)
    BY SumAgrees
  <1>5. SumFunctionOnSet(f, D) \in Int
    BY SumIsInt
  <1> QED
    BY <1>3, <1>4, <1>5 DEF SumFunction

(* Intervals that lie apart between lo and hi are together no longer than  *)
(* that.                                                                   *)
LEMMA Least ==
  ASSUME NEW S \in SUBSET Nat, S # {}
  PROVE  \E x \in S : \A y \in S : x <= y
  <1> DEFINE R == OpToRel(<, Nat)
  <1>1. IsWellFoundedOn(R, Nat)
    BY NatLessThanWellFounded
  <1>2. PICK x \in S : \A y \in S : <<y, x>> \notin R
    <2> HIDE DEF R
    <2> QED
      BY <1>1, WFMin
  <1>3. \A y \in S : ~(y < x)
    <2>1. \A y \in S : y < x => <<y, x>> \in R
      BY DEF OpToRel
    <2> QED
      BY <1>2, <2>1
  <1> QED
    BY <1>3

LEMMA IntervalsFit ==
  ASSUME NEW S \in SUBSET Nat, IsFiniteSet(S), NEW f, NEW lo \in Nat, NEW hi \in Nat, lo <= hi,
         \A x \in S : f[x] \in Nat /\ lo <= x /\ x + f[x] <= hi,
         \A x, y \in S : x < y => x + f[x] <= y
  PROVE  SumFunctionOnSet(f, S) <= hi - lo
  <1> DEFINE Sum(s) == SumFunctionOnSet(f, s)
             F == {s \in SUBSET S : \A a \in Nat :
                     a <= hi /\ (\A x \in s : a <= x) => Sum(s) <= hi - a}
  <1>0. ASSUME NEW s \in SUBSET S
        PROVE  IsFiniteSet(s) /\ (\A x \in s : f[x] \in Int) /\ Sum(s) \in Int
    <2>1. IsFiniteSet(s)
      BY FS_Subset
    <2>2. \A x \in s : f[x] \in Int
      <3>1. \A x \in S : f[x] \in Int
        OBVIOUS
      <3> QED
        BY <3>1
    <2> QED
      BY <2>1, <2>2, SumIsInt
  <1>1. ASSUME NEW s \in SUBSET S, \A x \in s : s \ {x} \in F PROVE s \in F
    <2> SUFFICES ASSUME NEW a \in Nat, a <= hi, \A x \in s : a <= x PROVE Sum(s) <= hi - a
      OBVIOUS
    <2>1. CASE s = {}
      <3>1. Sum(s) = 0
        BY <1>0, <2>1, SumUnfolds
      <3> QED
        BY <3>1
    <2>2. CASE s # {}
      <3>1. PICK x \in s : \A y \in s : x <= y
        BY <2>2, Least
      <3> DEFINE r == s \ {x}
      <3>2. x \in Nat /\ f[x] \in Nat /\ x + f[x] <= hi /\ a <= x
        OBVIOUS
      <3>3. \A y \in r : x + f[x] <= y
        <4>1. \A y \in r : x < y
          BY <3>1
        <4> QED
          BY <4>1
      <3>4. Sum(s) = f[x] + Sum(r) /\ Sum(r) \in Int
        <4>1. Sum(s) = f[x] + Sum(r)
          BY <1>0, SumTakes
        <4>2. r \in SUBSET S
          OBVIOUS
        <4> QED
          BY <1>0, <4>1, <4>2
      <3>5. r \in F
        BY <1>1
      <3>6. Sum(r) <= hi - (x + f[x])
        <4> HIDE DEF r, Sum
        <4>1. x + f[x] \in Nat
          BY <3>2
        <4> QED
          BY <3>2, <3>3, <3>5, <4>1
      <3> HIDE DEF r, Sum
      <3> QED
        BY <3>2, <3>4, <3>6
    <2> QED
      BY <2>1, <2>2
  <1>2. SUBSET S \subseteq F
    <2> HIDE DEF F
    <2>1. F \in SUBSET SUBSET S
      BY DEF F
    <2> QED
      BY <1>1, <2>1, SubsetInduction
  <1> QED
    BY <1>2

-----------------------------------------------------------------------------
(* What the counters count. *)
Footprints(m) == [h \in BlocksOf(m) |-> minor[h].size + MinorHeader]

BlockSizes == [h \in Live |-> minor[h].size]

MajorSizes == [m \in DOMAIN major |-> major[m].size]

CounterInv ==
  /\ \A m \in DOMAIN major : major[m].usage = MajorHeader + SumFunction(Footprints(m))
  /\ l_inuse = SumFunction(BlockSizes)
  /\ l_allocated = SumFunction(MajorSizes)

LEMMA CountedTypes ==
  ASSUME HeapInv
  PROVE  /\ IsFiniteSet(DOMAIN major) /\ \A m \in DOMAIN major : major[m].size \in Nat
         /\ IsFiniteSet(Live) /\ \A h \in Live : h \in Nat /\ minor[h].size \in Nat
         /\ \A m : BlocksOf(m) \subseteq Live /\ IsFiniteSet(BlocksOf(m))
  <1>1. \A m \in DOMAIN major : major[m].size \in Nat
    BY MajorTypes DEF HeapInv
  <1>2. Live \subseteq DOMAIN minor
    BY DEF Live
  <1>3. \A h \in Live : h \in Nat /\ minor[h].size \in Nat
    BY <1>2, MinorTypes DEF HeapInv
  <1>4. IsFiniteSet(DOMAIN major) /\ IsFiniteSet(Live)
    BY <1>2, FS_Subset DEF HeapInv, HeaderTypes
  <1>5. \A m : BlocksOf(m) \subseteq Live
    BY DEF BlocksOf
  <1> QED
    BY <1>1, <1>3, <1>4, <1>5, FS_Subset

LEMMA FootprintTypes ==
  ASSUME HeapInv, NEW m
  PROVE  /\ IsFiniteSet(DOMAIN Footprints(m)) /\ DOMAIN Footprints(m) = BlocksOf(m)
         /\ \A h \in BlocksOf(m) : Footprints(m)[h] = minor[h].size + MinorHeader
         /\ \A h \in BlocksOf(m) : Footprints(m)[h] \in Nat
  BY CountedTypes, SizesAssumption DEF Footprints

(* A gap in a major is no larger than what its usage leaves.               *)
LEMMA UsageFits ==
  ASSUME HeapInv, CounterInv, NEW m \in DOMAIN major
  PROVE  major[m].usage \in MajorHeader .. major[m].size
  <1> DEFINE f == Footprints(m)
             lo == m + MajorHeader
             hi == MajorEnd(m)
  <1>1. /\ m \in Nat /\ major[m].size \in Nat /\ hi = m + major[m].size /\ major[m].usage \in Int
        /\ MajorHeader <= major[m].size
    BY MajorTypes DEF HeapInv, MajorsApart, MajorEnd
  <1>2. lo \in Nat /\ hi \in Nat /\ lo <= hi
    BY <1>1, SizesAssumption
  <1>3. DOMAIN f = BlocksOf(m) /\ IsFiniteSet(BlocksOf(m)) /\ BlocksOf(m) \in SUBSET Nat
    BY FootprintTypes, CountedTypes
  <1>4. ASSUME NEW x \in BlocksOf(m)
        PROVE  f[x] \in Nat /\ x + f[x] = EndOf(x) /\ lo <= x /\ EndOf(x) <= hi /\ x \in Nat
    <2>1. x \in Live /\ minor[x].block = m
      BY DEF BlocksOf
    <2>2. f[x] \in Nat /\ f[x] = minor[x].size + MinorHeader /\ lo <= x /\ EndOf(x) <= hi
      BY <2>1, FootprintTypes, LiveFacts DEF InsideInv
    <2>3. x \in Nat /\ minor[x].size \in Nat /\ EndOf(x) = x + MinorHeader + minor[x].size
      BY <2>1, CountedTypes DEF EndOf
    <2> QED
      BY <2>2, <2>3, SizesAssumption
  <1>5. \A x, y \in BlocksOf(m) : x < y => x + f[x] <= y
    BY <1>4, BlocksApart
  <1>6. SumFunctionOnSet(f, BlocksOf(m)) <= hi - lo
    <2> HIDE DEF f, lo, hi
    <2> QED
      BY <1>2, <1>3, <1>4, <1>5, IntervalsFit
  <1>7. SumFunction(f) \in Nat /\ SumFunction(f) = SumFunctionOnSet(f, BlocksOf(m))
    BY <1>3, FootprintTypes, SumIsNat DEF SumFunction
  <1>8. major[m].usage = MajorHeader + SumFunction(f)
    BY DEF CounterInv
  <1> HIDE DEF f
  <1> QED
    BY <1>1, <1>6, <1>7, <1>8, SizesAssumption

LEMMA GapsFit ==
  ASSUME HeapInv, CounterInv, NEW m \in DOMAIN major, NEW g \in Nat, NEW e \in Nat,
         m + MajorHeader <= g, g <= e, e <= MajorEnd(m),
         \A x \in BlocksOf(m) : EndOf(x) <= g \/ e <= x
  PROVE  e - g <= Room(m)
  <1> DEFINE f == Footprints(m)
             B == BlocksOf(m)
             k == [x \in B \cup {g} |-> IF x = g THEN e - g ELSE f[x]]
             lo == m + MajorHeader
             hi == MajorEnd(m)
  <1>1. /\ m \in Nat /\ major[m].size \in Nat /\ hi = m + major[m].size /\ major[m].usage \in Int
    BY MajorTypes DEF HeapInv, MajorEnd
  <1>2. lo \in Nat /\ hi \in Nat /\ lo <= hi
    BY <1>1, SizesAssumption
  <1>3. DOMAIN f = B /\ IsFiniteSet(B) /\ B \in SUBSET Nat
    BY FootprintTypes, CountedTypes
  <1>4. ASSUME NEW x \in B
        PROVE  /\ f[x] \in Nat /\ x + f[x] = EndOf(x) /\ lo <= x /\ EndOf(x) <= hi /\ x \in Nat
               /\ x < EndOf(x) /\ EndOf(x) \in Nat
    <2>1. x \in Live /\ minor[x].block = m
      BY DEF BlocksOf
    <2>2. f[x] \in Nat /\ f[x] = minor[x].size + MinorHeader /\ lo <= x /\ EndOf(x) <= hi
      BY <2>1, FootprintTypes, LiveFacts DEF InsideInv
    <2>3. x \in Nat /\ minor[x].size \in Nat /\ EndOf(x) = x + MinorHeader + minor[x].size
      BY <2>1, CountedTypes DEF EndOf
    <2> QED
      BY <2>2, <2>3, SizesAssumption
  <1>5. CASE g = e
    <2>1. major[m].usage <= major[m].size
      BY <1>1, UsageFits, SizesAssumption
    <2> QED
      BY <1>1, <1>5, <2>1 DEF Room
  <1>6. CASE g < e
    <2>1. g \notin B
      BY <1>4, <1>6
    <2>2. \A x \in B : k[x] = f[x] /\ x # g
      BY <2>1
    <2>3. k[g] = e - g /\ e - g \in Nat /\ DOMAIN k = B \cup {g}
      OBVIOUS
    <2>4. B \cup {g} \in SUBSET Nat /\ IsFiniteSet(B \cup {g})
      BY <1>3, FS_AddElement
    <2> HIDE DEF k
    <2>5. \A x \in B \cup {g} : k[x] \in Nat /\ lo <= x /\ x + k[x] <= hi
      <3>1. \A x \in B : k[x] \in Nat /\ lo <= x /\ x + k[x] <= hi
        BY <1>4, <2>2
      <3>2. k[g] \in Nat /\ lo <= g /\ g + k[g] <= hi
        BY <1>2, <2>3
      <3> QED
        BY <3>1, <3>2
    <2>6. \A x, y \in B \cup {g} : x < y => x + k[x] <= y
      <3>1. \A x, y \in B : x < y => x + k[x] <= y
        BY <1>4, <2>2, BlocksApart
      <3>2. \A x \in B : x < g => x + k[x] <= g
        <4>1. ASSUME NEW x \in B, x < g PROVE EndOf(x) <= g
          BY <1>4, <1>6, <4>1
        <4> QED
          BY <1>4, <2>2, <4>1
      <3>3. \A y \in B : g < y => g + k[g] <= y
        <4>1. ASSUME NEW y \in B, g < y PROVE e <= y
          BY <1>4, <1>6, <4>1
        <4> QED
          BY <2>3, <4>1
      <3> QED
        BY <3>1, <3>2, <3>3
    <2>7. SumFunctionOnSet(k, B \cup {g}) <= hi - lo
      <3> HIDE DEF lo, hi, B
      <3> QED
        BY <1>2, <2>4, <2>5, <2>6, IntervalsFit
    <2>8. SumFunction(k) = SumFunction(f) + k[g] /\ SumFunction(f) \in Int
      <3>1. \A x \in DOMAIN f : f[x] \in Int /\ k[x] = f[x]
        BY <1>3, <1>4, <2>2
      <3>2. k[g] \in Int
        BY <2>3
      <3> HIDE DEF f, B
      <3> QED
        BY <1>3, <2>1, <2>3, <3>1, <3>2, SumAdds
    <2>9. SumFunction(k) = SumFunctionOnSet(k, B \cup {g})
      BY <2>3 DEF SumFunction
    <2>10. major[m].usage = MajorHeader + SumFunction(f)
      BY DEF CounterInv
    <2> HIDE DEF f, B
    <2> QED
      BY <1>1, <2>3, <2>7, <2>8, <2>9, <2>10, SizesAssumption DEF Room
  <1> QED
    BY <1>5, <1>6

-----------------------------------------------------------------------------
(* The counters through each kind of step.                                 *)
LEMMA SameCounters ==
  ASSUME CounterInv, UNCHANGED <<major, minor, l_inuse, l_allocated>>
  PROVE  CounterInv'
  <1>1. Live' = Live /\ \A m : BlocksOf(m)' = BlocksOf(m)
    BY DEF Live, BlocksOf
  <1>2. (\A m : Footprints(m)' = Footprints(m)) /\ BlockSizes' = BlockSizes /\ MajorSizes' = MajorSizes
    BY <1>1 DEF Footprints, BlockSizes, MajorSizes
  <1> QED
    BY <1>2 DEF CounterInv

LEMMA MajorAddedCounts ==
  ASSUME HeapInv, CounterInv, NEW size \in Nat, NEW a \in Answers(size), a # NULL,
         MajorAdded(a, size), l_allocated' = l_allocated + major'[a].size
  PROVE  CounterInv'
  <1>1. /\ BlocksOf(a)' = {} /\ a \notin DOMAIN major /\ DOMAIN major' = DOMAIN major \cup {a}
        /\ \A m \in DOMAIN major : BlocksOf(m)' = BlocksOf(m) /\ m # a
        /\ \A m \in DOMAIN major : major'[m].usage = major[m].usage /\ major'[m].size = major[m].size
        /\ major'[a].usage = MajorHeader /\ major'[a].size \in Nat
        /\ minor' = minor /\ l_inuse' = l_inuse
    BY MajorAddedKeepsBlocks DEF MajorAdded, blocks, Major
  <1>2. major'[a].usage = MajorHeader + SumFunction(Footprints(a)')
    <2>1. DOMAIN Footprints(a)' = {}
      BY <1>1 DEF Footprints
    <2>2. SumFunction(Footprints(a)') = 0
      BY <2>1, SumEmpty
    <2> QED
      BY <1>1, <2>2, SizesAssumption
  <1>3. \A m \in DOMAIN major : Footprints(m)' = Footprints(m)
    BY <1>1 DEF Footprints
  <1>4. Live' = Live /\ BlockSizes' = BlockSizes
    BY <1>1 DEF Live, BlockSizes
  <1>5. SumFunction(MajorSizes') = SumFunction(MajorSizes) + major'[a].size
    <2> PICK f, h : f = MajorSizes /\ h = MajorSizes'
      <3>1. \E f, h : f = MajorSizes /\ h = MajorSizes'
        OBVIOUS
      <3> QED
        BY <3>1
    <2>1. /\ DOMAIN f = DOMAIN major /\ \A m \in DOMAIN major : f[m] = major[m].size
          /\ DOMAIN h = DOMAIN major' /\ \A m \in DOMAIN major' : h[m] = major'[m].size
      BY DEF MajorSizes
    <2>2. IsFiniteSet(DOMAIN f) /\ \A m \in DOMAIN f : f[m] \in Int /\ h[m] = f[m]
      BY <1>1, <2>1, CountedTypes
    <2>3. h[a] = major'[a].size /\ h[a] \in Int /\ DOMAIN h = DOMAIN f \cup {a} /\ a \notin DOMAIN f
      BY <1>1, <2>1
    <2>4. SumFunction(h) = SumFunction(f) + h[a]
      BY <2>2, <2>3, SumAdds
    <2> QED
      BY <2>3, <2>4
  <1> QED
    BY <1>1, <1>2, <1>3, <1>4, <1>5 DEF CounterInv

LEMMA InsertCounts ==
  ASSUME HeapInv, CallInv, CounterInv, NEW t \in Threads, NEW h \in Nat \ {NULL}, NEW pr, NEW nx,
         IsGap(t, h, pr, nx), Insert(t, h, pr, nx)
  PROVE  CounterInv'
  <1> PICK k : k = walk.maj
    OBVIOUS
  <1>1. /\ h \notin Live /\ Live' = Live \cup {h}
        /\ minor'[h].block = k /\ minor'[h].size = Size(t)
        /\ \A x \in Live : minor'[x].block = minor[x].block /\ minor'[x].size = minor[x].size
    <2>1. MinorsInserted(t, h, pr, nx)
      BY InsertMinors
    <2> QED
      BY <2>1 DEF MinorsInserted
  <1>2. /\ DOMAIN major' = DOMAIN major /\ k \in DOMAIN major
        /\ \A m \in DOMAIN major :
             /\ major'[m].size = major[m].size
             /\ major'[m].usage = IF m = k THEN major[m].usage + Need(t) ELSE major[m].usage
        /\ l_inuse' = l_inuse + Size(t) /\ l_allocated' = l_allocated
    <2>1. /\ DOMAIN major' = DOMAIN major
          /\ \A m \in DOMAIN major :
               /\ major'[m].size = major[m].size
               /\ major'[m].usage = IF m = k THEN major[m].usage + Need(t) ELSE major[m].usage
      BY InsertMajors
    <2>2. k \in DOMAIN major
      BY DEF IsGap
    <2>3. l_inuse' = l_inuse + Size(t) /\ l_allocated' = l_allocated
      BY DEF Insert
    <2> QED
      BY <2>1, <2>2, <2>3
  <1>3. Size(t) \in Nat /\ Need(t) = Size(t) + MinorHeader
    BY NeedType
  <1>4. BlocksOf(k)' = BlocksOf(k) \cup {h} /\ \A m : m # k => BlocksOf(m)' = BlocksOf(m)
    BY <1>1 DEF BlocksOf
  <1>5. h \notin BlocksOf(k) /\ BlocksOf(k) \subseteq Live
    BY <1>1 DEF BlocksOf
  <1>6. SumFunction(Footprints(k)') = SumFunction(Footprints(k)) + Need(t)
        /\ SumFunction(Footprints(k)) \in Int
    <2> PICK f, g : f = Footprints(k) /\ g = Footprints(k)'
      <3>1. \E f, g : f = Footprints(k) /\ g = Footprints(k)'
        OBVIOUS
      <3> QED
        BY <3>1
    <2>1. /\ DOMAIN f = BlocksOf(k) /\ IsFiniteSet(DOMAIN f)
          /\ \A x \in BlocksOf(k) : f[x] = minor[x].size + MinorHeader /\ f[x] \in Int
      BY FootprintTypes
    <2>2. DOMAIN g = BlocksOf(k)' /\ \A x \in BlocksOf(k)' : g[x] = minor'[x].size + MinorHeader
      BY DEF Footprints
    <2>3. g[h] = Need(t) /\ g[h] \in Int /\ DOMAIN g = DOMAIN f \cup {h} /\ h \notin DOMAIN f
      BY <1>1, <1>3, <1>4, <1>5, <2>1, <2>2, SizesAssumption
    <2>4. \A x \in DOMAIN f : f[x] \in Int /\ g[x] = f[x]
      BY <1>1, <1>4, <1>5, <2>1, <2>2
    <2>5. SumFunction(g) = SumFunction(f) + g[h] /\ SumFunction(f) \in Int
      BY <2>1, <2>3, <2>4, SumAdds
    <2> QED
      BY <2>3, <2>5
  <1>7. \A m : m # k => Footprints(m)' = Footprints(m)
    <2> SUFFICES ASSUME NEW m, m # k PROVE Footprints(m)' = Footprints(m)
      OBVIOUS
    <2>1. BlocksOf(m)' = BlocksOf(m) /\ BlocksOf(m) \subseteq Live
      BY <1>4 DEF BlocksOf
    <2> QED
      BY <1>1, <2>1 DEF Footprints
  <1>8. SumFunction(BlockSizes') = SumFunction(BlockSizes) + Size(t)
    <2> PICK f, g : f = BlockSizes /\ g = BlockSizes'
      <3>1. \E f, g : f = BlockSizes /\ g = BlockSizes'
        OBVIOUS
      <3> QED
        BY <3>1
    <2>1. /\ DOMAIN f = Live /\ IsFiniteSet(DOMAIN f)
          /\ \A x \in Live : f[x] = minor[x].size /\ f[x] \in Int
      BY CountedTypes DEF BlockSizes
    <2>2. DOMAIN g = Live' /\ \A x \in Live' : g[x] = minor'[x].size
      BY DEF BlockSizes
    <2>3. g[h] = Size(t) /\ g[h] \in Int /\ DOMAIN g = DOMAIN f \cup {h} /\ h \notin DOMAIN f
      BY <1>1, <1>3, <2>1, <2>2
    <2>4. \A x \in DOMAIN f : f[x] \in Int /\ g[x] = f[x]
      BY <1>1, <2>1, <2>2
    <2>5. SumFunction(g) = SumFunction(f) + g[h]
      BY <2>1, <2>3, <2>4, SumAdds
    <2> QED
      BY <2>3, <2>5
  <1>9. MajorSizes' = MajorSizes
    BY <1>2 DEF MajorSizes
  <1>10. \A m \in DOMAIN major' : major'[m].usage = MajorHeader + SumFunction(Footprints(m)')
    <2> SUFFICES ASSUME NEW m \in DOMAIN major
                 PROVE  major'[m].usage = MajorHeader + SumFunction(Footprints(m)')
      BY <1>2
    <2>1. major[m].usage = MajorHeader + SumFunction(Footprints(m))
      BY DEF CounterInv
    <2>2. CASE m = k
      BY <1>2, <1>3, <1>6, <2>1, <2>2, SizesAssumption
    <2>3. CASE m # k
      BY <1>2, <1>7, <2>1, <2>3
    <2> QED
      BY <2>2, <2>3
  <1> QED
    BY <1>2, <1>8, <1>9, <1>10 DEF CounterInv

LEMMA UnlinkCounts ==
  ASSUME HeapInv, CounterInv, NEW h \in Live, Unlink(h)
  PROVE  CounterInv'
  <1> PICK k : k = minor[h].block
    OBVIOUS
  <1>1. /\ Live' = Live \ {h}
        /\ \A x \in Live \ {h} : minor'[x].block = minor[x].block /\ minor'[x].size = minor[x].size
    BY UnlinkMinors DEF MinorsUnlinked
  <1>2. k \in DOMAIN major /\ h \in BlocksOf(k) /\ major[k] \in Major /\ minor[h].size \in Nat
    BY LiveFacts, MajorTypes, CountedTypes DEF InsideInv, HeapInv
  <1>3. BlocksOf(k)' = BlocksOf(k) \ {h} /\ \A m : m # k => BlocksOf(m)' = BlocksOf(m)
    BY <1>1 DEF BlocksOf
  <1>4. /\ DOMAIN major' = IF Empties(h) THEN DOMAIN major \ {k} ELSE DOMAIN major
        /\ \A m \in DOMAIN major' : major'[m].size = major[m].size
        /\ \A m \in DOMAIN major' : m # k => major'[m].usage = major[m].usage
    BY UnlinkMajors DEF MajorsUnlinked
  <1>5. /\ ~Empties(h) => major'[k].usage = major[k].usage - (minor[h].size + MinorHeader)
        /\ l_inuse' = l_inuse - minor[h].size
        /\ l_allocated' = IF Empties(h) THEN l_allocated - major[k].size ELSE l_allocated
    BY <1>2 DEF Unlink, Unused, Major
  <1>6. SumFunction(Footprints(k)) = SumFunction(Footprints(k)') + (minor[h].size + MinorHeader)
        /\ SumFunction(Footprints(k)') \in Int
    <2> PICK f, g : f = Footprints(k)' /\ g = Footprints(k)
      <3>1. \E f, g : f = Footprints(k)' /\ g = Footprints(k)
        OBVIOUS
      <3> QED
        BY <3>1
    <2>1. /\ DOMAIN g = BlocksOf(k) /\ IsFiniteSet(DOMAIN g)
          /\ \A x \in BlocksOf(k) : g[x] = minor[x].size + MinorHeader /\ g[x] \in Int
      BY FootprintTypes
    <2>2. DOMAIN f = BlocksOf(k)' /\ \A x \in BlocksOf(k)' : f[x] = minor'[x].size + MinorHeader
      BY DEF Footprints
    <2>3. h \notin DOMAIN f /\ DOMAIN g = DOMAIN f \cup {h} /\ g[h] \in Int /\ IsFiniteSet(DOMAIN f)
          /\ g[h] = minor[h].size + MinorHeader
      BY <1>2, <1>3, <2>1, <2>2, FS_Subset
    <2>4. \A x \in DOMAIN f : f[x] \in Int /\ g[x] = f[x]
      <3>1. \A x \in DOMAIN f : x \in BlocksOf(k) /\ x \in Live \ {h}
        BY <1>3, <2>2 DEF BlocksOf
      <3> QED
        BY <1>1, <2>1, <2>2, <3>1
    <2>5. SumFunction(g) = SumFunction(f) + g[h] /\ SumFunction(f) \in Int
      BY <2>3, <2>4, SumAdds
    <2> QED
      BY <2>3, <2>5
  <1>7. \A m : m # k => Footprints(m)' = Footprints(m)
    <2> SUFFICES ASSUME NEW m, m # k PROVE Footprints(m)' = Footprints(m)
      OBVIOUS
    <2>1. BlocksOf(m)' = BlocksOf(m) /\ BlocksOf(m) \subseteq Live \ {h}
      BY <1>3 DEF BlocksOf
    <2> QED
      BY <1>1, <2>1 DEF Footprints
  <1>8. SumFunction(BlockSizes) = SumFunction(BlockSizes') + minor[h].size
        /\ SumFunction(BlockSizes') \in Int
    <2> PICK f, g : f = BlockSizes' /\ g = BlockSizes
      <3>1. \E f, g : f = BlockSizes' /\ g = BlockSizes
        OBVIOUS
      <3> QED
        BY <3>1
    <2>1. /\ DOMAIN g = Live /\ IsFiniteSet(DOMAIN g)
          /\ \A x \in Live : g[x] = minor[x].size /\ g[x] \in Int
      BY CountedTypes DEF BlockSizes
    <2>2. DOMAIN f = Live' /\ \A x \in Live' : f[x] = minor'[x].size
      BY DEF BlockSizes
    <2>3. h \notin DOMAIN f /\ DOMAIN g = DOMAIN f \cup {h} /\ g[h] \in Int /\ IsFiniteSet(DOMAIN f)
          /\ g[h] = minor[h].size
      BY <1>1, <2>1, <2>2, FS_Subset
    <2>4. \A x \in DOMAIN f : f[x] \in Int /\ g[x] = f[x]
      BY <1>1, <2>1, <2>2
    <2>5. SumFunction(g) = SumFunction(f) + g[h] /\ SumFunction(f) \in Int
      BY <2>3, <2>4, SumAdds
    <2> QED
      BY <2>3, <2>5
  <1>9. l_allocated' = SumFunction(MajorSizes')
    <2>1. CASE ~Empties(h)
      <3>1. MajorSizes' = MajorSizes
        BY <1>4, <2>1 DEF MajorSizes
      <3> QED
        BY <1>5, <2>1, <3>1 DEF CounterInv
    <2>2. CASE Empties(h)
      <3> PICK f, g : f = MajorSizes' /\ g = MajorSizes
        <4>1. \E f, g : f = MajorSizes' /\ g = MajorSizes
          OBVIOUS
        <4> QED
          BY <4>1
      <3>1. /\ DOMAIN g = DOMAIN major /\ \A m \in DOMAIN major : g[m] = major[m].size
            /\ DOMAIN f = DOMAIN major' /\ \A m \in DOMAIN major' : f[m] = major'[m].size
        BY DEF MajorSizes
      <3>2. /\ DOMAIN g = DOMAIN f \cup {k} /\ k \notin DOMAIN f /\ IsFiniteSet(DOMAIN f)
            /\ g[k] \in Int /\ g[k] = major[k].size
        <4>1. DOMAIN f = DOMAIN major \ {k}
          BY <1>4, <2>2, <3>1
        <4>2. IsFiniteSet(DOMAIN f)
          BY <4>1, CountedTypes, FS_Subset
        <4> QED
          BY <1>2, <3>1, <4>1, <4>2, CountedTypes
      <3>3. \A m \in DOMAIN f : f[m] \in Int /\ g[m] = f[m]
        BY <1>4, <2>2, <3>1, CountedTypes
      <3>4. SumFunction(g) = SumFunction(f) + g[k] /\ SumFunction(f) \in Int
        BY <3>2, <3>3, SumAdds
      <3>5. l_allocated = SumFunction(g)
        BY DEF CounterInv
      <3> QED
        BY <1>5, <2>2, <3>2, <3>4, <3>5
    <2> QED
      BY <2>1, <2>2
  <1>10. \A m \in DOMAIN major' : major'[m].usage = MajorHeader + SumFunction(Footprints(m)')
    <2> SUFFICES ASSUME NEW m \in DOMAIN major'
                 PROVE  major'[m].usage = MajorHeader + SumFunction(Footprints(m)')
      OBVIOUS
    <2>1. major[m].usage = MajorHeader + SumFunction(Footprints(m))
      BY <1>4 DEF CounterInv
    <2>2. CASE m = k
      BY <1>2, <1>4, <1>5, <1>6, <2>1, <2>2, SizesAssumption
    <2>3. CASE m # k
      BY <1>4, <1>7, <2>1, <2>3
    <2> QED
      BY <2>2, <2>3
  <1>11. l_inuse' = SumFunction(BlockSizes')
    <2>1. l_inuse = SumFunction(BlockSizes)
      BY DEF CounterInv
    <2> QED
      BY <1>2, <1>5, <1>8, <2>1
  <1> QED
    BY <1>9, <1>10, <1>11 DEF CounterInv

-----------------------------------------------------------------------------
(* The search.  A major without a block is one that the call in progress   *)
(* has just got for its own block.                                         *)
EmptyInv ==
  \A m \in DOMAIN major : BlocksOf(m) = {} =>
    \E t \in Threads :
      /\ MajorHeader + Need(t) <= major[m].size
      /\ \/ pc[t] = "root" /\ m = l_memRoot /\ l_bestBet = NULL
         \/ pc[t] \in {"major", "place"} /\ m = walk.maj

(* No gap of m has room for n bytes, or none up to the block at h.         *)
FullUpTo(m, h, n) ==
  /\ major[m].first - m - MajorHeader < n
  /\ \A x \in BlocksOf(m) : x < h => GapBehind(x) < n

Full(m, n) ==
  /\ BlocksOf(m) # {}
  /\ major[m].first - m - MajorHeader < n
  /\ \A x \in BlocksOf(m) : GapBehind(x) < n

(* The majors V between the root and where the search stands are full.     *)
Seen(V, n) ==
  /\ l_memRoot \in V \cup {walk.maj}
  /\ \A m \in V : Full(m, n) /\ major[m].next \in V \cup {walk.maj}

SearchInv ==
  \A t \in Threads :
    /\ pc[t] = "minor" => FullUpTo(walk.maj, walk.min, Need(t))
    /\ pc[t] \in {"next", "grow1", "grow5"} => Full(walk.maj, Need(t))
    /\ pc[t] \in Search \ {"root"} /\ ~walk.startedBet =>
         \E V \in SUBSET DOMAIN major : Seen(V, Need(t))

CountOK == CounterInv /\ EmptyInv /\ SearchInv

LEMMA SameBlocks ==
  ASSUME UNCHANGED <<major, minor>>
  PROVE  /\ Live' = Live /\ \A m : BlocksOf(m)' = BlocksOf(m)
         /\ \A m, h, n : FullUpTo(m, h, n)' = FullUpTo(m, h, n)
         /\ \A m, n : Full(m, n)' = Full(m, n)
  <1>1. Live' = Live /\ \A m : BlocksOf(m)' = BlocksOf(m)
    BY DEF Live, BlocksOf
  <1>2. \A h : GapBehind(h)' = GapBehind(h)
    BY DEF GapBehind, EndOf
  <1>3. \A m, h, n : FullUpTo(m, h, n)' = FullUpTo(m, h, n)
    BY <1>1, <1>2 DEF FullUpTo
  <1>4. \A m, n : Full(m, n)' = Full(m, n)
    BY <1>1, <1>2 DEF Full
  <1> QED
    BY <1>1, <1>3, <1>4

(* Where the search is not.                                                *)
LEMMA NothingEmpty ==
  ASSUME LockInv, EmptyInv, \A t \in Threads : pc[t] \notin {"root", "major", "place"}
  PROVE  \A m \in DOMAIN major : BlocksOf(m) # {}
  BY DEF EmptyInv

LEMMA NobodySearches ==
  ASSUME \A t \in Threads : pc'[t] \notin Search \ {"root"},
         \A m \in DOMAIN major' : BlocksOf(m)' # {}
  PROVE  EmptyInv' /\ SearchInv'
  <1>1. EmptyInv'
    BY DEF EmptyInv
  <1>2. SearchInv'
    BY DEF SearchInv, Search
  <1> QED
    BY <1>1, <1>2

(* Steps that change no list and leave those who search where they stand.  *)
LEMMA SameSearch ==
  ASSUME CountOK, UNCHANGED <<heap, walk>>,
         \A t \in Threads : pc[t] \in Search \/ pc'[t] \in Search =>
                              pc'[t] = pc[t] /\ call'[t] = call[t]
  PROVE  CountOK'
  <1>1. UNCHANGED <<major, minor, l_inuse, l_allocated, l_memRoot, l_bestBet>>
    BY DEF heap, blocks
  <1>2. CounterInv'
    BY <1>1, SameCounters DEF CountOK
  <1>3. \A t \in Threads : call'[t] = call[t] => Need(t)' = Need(t)
    BY DEF Need, Size, Bytes
  <1>4. \A t \in Threads : pc'[t] \in Search => pc'[t] = pc[t] /\ Need(t)' = Need(t)
    BY <1>3
  <1>5. EmptyInv'
    <2> SUFFICES ASSUME NEW m \in DOMAIN major, BlocksOf(m)' = {}
                 PROVE  \E t \in Threads :
                          /\ MajorHeader + Need(t)' <= major[m].size
                          /\ \/ pc'[t] = "root" /\ m = l_memRoot /\ l_bestBet = NULL
                             \/ pc'[t] \in {"major", "place"} /\ m = walk.maj
      BY <1>1 DEF EmptyInv
    <2>1. BlocksOf(m) = {}
      BY <1>1, SameBlocks
    <2>2. PICK t \in Threads :
            /\ MajorHeader + Need(t) <= major[m].size
            /\ \/ pc[t] = "root" /\ m = l_memRoot /\ l_bestBet = NULL
               \/ pc[t] \in {"major", "place"} /\ m = walk.maj
      BY <2>1 DEF EmptyInv, CountOK
    <2>3. pc[t] \in Search
      BY <2>2 DEF Search
    <2>4. pc'[t] = pc[t] /\ Need(t)' = Need(t)
      BY <1>3, <2>3
    <2> QED
      BY <2>2, <2>4
  <1>6. SearchInv'
    <2>1. \A V, n : Seen(V, n)' = Seen(V, n)
      BY <1>1, SameBlocks DEF Seen
    <2> SUFFICES ASSUME NEW t \in Threads
                 PROVE  /\ pc'[t] = "minor" => FullUpTo(walk.maj, walk.min, Need(t))'
                        /\ pc'[t] \in {"next", "grow1", "grow5"} => Full(walk.maj, Need(t))'
                        /\ pc'[t] \in Search \ {"root"} /\ ~walk'.startedBet =>
                             \E V \in SUBSET DOMAIN major' : Seen(V, Need(t))'
      BY DEF SearchInv
    <2>2. CASE pc'[t] \in Search
      <3> PICK n, m, h : n = Need(t) /\ m = walk.maj /\ h = walk.min
        <4>1. \E n, m, h : n = Need(t) /\ m = walk.maj /\ h = walk.min
          OBVIOUS
        <4> QED
          BY <4>1
      <3>1. pc'[t] = pc[t] /\ Need(t)' = n /\ walk'.maj = m /\ walk'.min = h
        BY <1>4, <2>2
      <3>2. /\ pc[t] = "minor" => FullUpTo(m, h, n)
            /\ pc[t] \in {"next", "grow1", "grow5"} => Full(m, n)
            /\ pc[t] \in Search \ {"root"} /\ ~walk.startedBet =>
                 \E V \in SUBSET DOMAIN major : Seen(V, n)
        BY DEF SearchInv, CountOK
      <3>3. /\ pc'[t] = "minor" => FullUpTo(m, h, n)'
            /\ pc'[t] \in {"next", "grow1", "grow5"} => Full(m, n)'
        BY <1>1, <3>1, <3>2, SameBlocks
      <3>4. pc'[t] \in Search \ {"root"} /\ ~walk'.startedBet =>
              \E V \in SUBSET DOMAIN major' : Seen(V, n)'
        BY <1>1, <2>1, <3>1, <3>2
      <3> QED
        BY <3>1, <3>3, <3>4
    <2>3. CASE pc'[t] \notin Search
      BY <2>3 DEF Search
    <2> QED
      BY <2>2, <2>3
  <1> QED
    BY <1>2, <1>5, <1>6 DEF CountOK

(* Steps of the search, by the thread that holds the lock.                 *)
LEMMA EmptyIsHolders ==
  ASSUME LockInv, EmptyInv, NEW t \in Threads, pc[t] \in Search,
         NEW m \in DOMAIN major, BlocksOf(m) = {}
  PROVE  /\ MajorHeader + Need(t) <= major[m].size
         /\ \/ pc[t] = "root" /\ m = l_memRoot /\ l_bestBet = NULL
            \/ pc[t] \in {"major", "place"} /\ m = walk.maj
  <1>1. PICK u \in Threads :
          /\ MajorHeader + Need(u) <= major[m].size
          /\ \/ pc[u] = "root" /\ m = l_memRoot /\ l_bestBet = NULL
             \/ pc[u] \in {"major", "place"} /\ m = walk.maj
    BY DEF EmptyInv
  <1>2. pc[u] \in Search
    BY <1>1 DEF Search
  <1>3. u = t
    BY <1>2, HolderFacts
  <1> QED
    BY <1>1, <1>3

LEMMA HolderSearches ==
  ASSUME NEW t \in Threads, \A u \in Threads : u # t => pc'[u] \notin Search,
         NEW n, Need(t)' = n, NEW m, walk'.maj = m, NEW h, walk'.min = h,
         pc'[t] = "minor" => FullUpTo(m, h, n)',
         pc'[t] \in {"next", "grow1", "grow5"} => Full(m, n)',
         pc'[t] \in Search \ {"root"} /\ ~walk'.startedBet =>
           \E V \in SUBSET DOMAIN major' : Seen(V, n)'
  PROVE  SearchInv'
  <1> SUFFICES ASSUME NEW u \in Threads
               PROVE  /\ pc'[u] = "minor" => FullUpTo(walk.maj, walk.min, Need(u))'
                      /\ pc'[u] \in {"next", "grow1", "grow5"} => Full(walk.maj, Need(u))'
                      /\ pc'[u] \in Search \ {"root"} /\ ~walk'.startedBet =>
                           \E V \in SUBSET DOMAIN major' : Seen(V, Need(u))'
    BY DEF SearchInv
  <1>1. CASE u = t
    BY <1>1
  <1>2. CASE u # t
    BY <1>2 DEF Search
  <1> QED
    BY <1>1, <1>2

(* What is seen when the search starts at the root, and goes on behind a   *)
(* full major.                                                             *)
LEMMA SeenNothing ==
  ASSUME NEW n, walk'.maj = l_memRoot'
  PROVE  \E V \in SUBSET DOMAIN major' : Seen(V, n)'
  <1>1. Seen({}, n)'
    BY DEF Seen
  <1> QED
    BY <1>1

LEMMA SeenStays ==
  ASSUME NEW n, NEW V \in SUBSET DOMAIN major, Seen(V, n), UNCHANGED <<major, minor, l_memRoot>>,
         walk'.maj = walk.maj
  PROVE  \E W \in SUBSET DOMAIN major' : Seen(W, n)'
  <1>1. Seen(V, n)'
    BY SameBlocks DEF Seen
  <1> QED
    BY <1>1

LEMMA SeenMoves ==
  ASSUME NEW n, NEW V \in SUBSET DOMAIN major, Seen(V, n), UNCHANGED <<major, minor, l_memRoot>>,
         walk.maj \in DOMAIN major, Full(walk.maj, n), walk'.maj = major[walk.maj].next
  PROVE  \E W \in SUBSET DOMAIN major' : Seen(W, n)'
  <1> PICK m : m = walk.maj
    OBVIOUS
  <1> DEFINE W == V \cup {m}
  <1>1. \A x \in W : Full(x, n)'
    <2>1. \A x \in W : Full(x, n)
      BY DEF Seen
    <2> QED
      BY <2>1, SameBlocks
  <1>2. l_memRoot' \in W /\ \A x \in W : major'[x].next \in W \cup {walk'.maj}
    BY DEF Seen
  <1> HIDE DEF W
  <1>3. Seen(W, n)'
    BY <1>1, <1>2 DEF Seen
  <1>4. W \in SUBSET DOMAIN major'
    BY DEF W
  <1> QED
    BY <1>3, <1>4

LEMMA StartWalkCounts ==
  ASSUME HeapOK, CountOK, NEW t \in Threads, StartWalk(t)
  PROVE  CountOK'
  <1> USE DEF HeapOK, CountOK
  <1>1. pc[t] = "root" /\ pc[t] \in Search /\ {"major"} \subseteq Search
    BY DEF StartWalk, Search
  <1>2. UNCHANGED <<major, minor, info, l_inuse, l_allocated, l_memRoot, l_bestBet, heap_lock, call, own>>
        /\ Goto(t, "major")
    BY DEF StartWalk, heap, blocks
  <1>3. pc'[t] = "major" /\ \A u \in Threads : u # t => pc'[u] \notin Search
    BY <1>1, <1>2, SearchStep
  <1>4. Need(t)' = Need(t)
    BY <1>2 DEF Need, Size, Bytes
  <1>5. CounterInv'
    BY <1>2, SameCounters
  <1> PICK best : best = IF l_bestBet = NULL THEN 0 ELSE Room(l_bestBet)
    OBVIOUS
  <1> PICK bet \in BOOLEAN : bet = (l_bestBet # NULL /\ best > Need(t))
    OBVIOUS
  <1>6. walk' = [maj |-> IF bet THEN l_bestBet ELSE l_memRoot, min |-> NULL,
                 bestSize |-> best, startedBet |-> bet]
    BY DEF StartWalk
  <1>7. EmptyInv'
    <2> SUFFICES ASSUME NEW m \in DOMAIN major, BlocksOf(m)' = {}
                 PROVE  MajorHeader + Need(t)' <= major[m].size /\ m = walk'.maj
      BY <1>2, <1>3 DEF EmptyInv
    <2>1. BlocksOf(m) = {}
      BY <1>2, SameBlocks
    <2>2. MajorHeader + Need(t) <= major[m].size /\ m = l_memRoot /\ l_bestBet = NULL
      BY <1>1, <2>1, EmptyIsHolders
    <2> QED
      BY <1>4, <1>6, <2>2
  <1>8. SearchInv'
    <2>1. ~walk'.startedBet => \E V \in SUBSET DOMAIN major' : Seen(V, Need(t))'
      <3> PICK n : n = Need(t)
        OBVIOUS
      <3>1. ~walk'.startedBet => walk'.maj = l_memRoot'
        BY <1>2, <1>6
      <3> QED
        BY <1>4, <3>1, SeenNothing
    <2>2. \E n, m, h : n = Need(t) /\ m = walk'.maj /\ h = walk'.min
      OBVIOUS
    <2> QED
      BY <1>3, <1>4, <2>1, <2>2, HolderSearches
  <1> QED
    BY <1>5, <1>7, <1>8

(* Any other step of the search that leaves the blocks alone.              *)
LEMMA MoveCounts ==
  ASSUME HeapOK, CountOK, NEW t \in Threads, pc[t] \in Search, NEW l \in Search \ {"root"},
         Goto(t, l),
         UNCHANGED <<heap_lock, major, minor, l_inuse, l_allocated, l_memRoot, call>>,
         NEW n, Need(t) = n, NEW m, walk'.maj = m, NEW h, walk'.min = h,
         \A x \in DOMAIN major : BlocksOf(x) = {} => l \in {"major", "place"} /\ x = m,
         l = "minor" => FullUpTo(m, h, n),
         l \in {"next", "grow1", "grow5"} => Full(m, n),
         ~walk'.startedBet => \E V \in SUBSET DOMAIN major' : Seen(V, n)'
  PROVE  CountOK'
  <1> USE DEF HeapOK, CountOK
  <1>1. pc'[t] = l /\ \A u \in Threads : u # t => pc'[u] \notin Search
    <2>1. pc' = [pc EXCEPT ![t] = l] /\ DOMAIN pc = Threads
      BY DEF Goto, LockInv
    <2> QED
      BY <2>1, HolderFacts
  <1>2. Need(t)' = n
    BY DEF Need, Size, Bytes
  <1>3. CounterInv'
    BY SameCounters
  <1>4. EmptyInv'
    <2> SUFFICES ASSUME NEW x \in DOMAIN major, BlocksOf(x)' = {}
                 PROVE  MajorHeader + Need(t)' <= major[x].size /\ l \in {"major", "place"} /\ x = m
      BY <1>1 DEF EmptyInv
    <2>1. BlocksOf(x) = {}
      BY SameBlocks
    <2>2. MajorHeader + Need(t) <= major[x].size
      BY <2>1, EmptyIsHolders
    <2> QED
      BY <1>2, <2>1, <2>2
  <1>5. SearchInv'
    <2>1. l = "minor" => FullUpTo(m, h, n)'
      BY SameBlocks
    <2>2. l \in {"next", "grow1", "grow5"} => Full(m, n)'
      BY SameBlocks
    <2> QED
      BY <1>1, <1>2, <2>1, <2>2, HolderSearches
  <1> QED
    BY <1>3, <1>4, <1>5

LEMMA FullWhenLittleRoom ==
  ASSUME HeapInv, CounterInv, NEW m \in DOMAIN major, BlocksOf(m) # {}, NEW n \in Nat, Room(m) < n
  PROVE  Full(m, n)
  <1> DEFINE B == BlocksOf(m)
  <1>1. /\ m \in Nat /\ MajorEnd(m) \in Nat /\ MajorEnd(m) = m + major[m].size
        /\ Room(m) \in Int /\ FirstInv(m)
    BY MajorTypes, RoomType DEF HeapInv, BlockInv, MajorEnd
  <1>2. ASSUME NEW x \in B
        PROVE  /\ x \in Nat /\ EndOf(x) \in Nat /\ x < EndOf(x) /\ EndOf(x) <= MajorEnd(m)
               /\ m + MajorHeader <= x /\ minor[x].block = m /\ NextInv(x)
    <2>1. x \in Live /\ minor[x].block = m
      BY DEF BlocksOf
    <2> QED
      BY <2>1, LiveFacts, MinorTypes DEF HeapInv, InsideInv
  <1> PICK first : first = major[m].first
    OBVIOUS
  <1>3. first \in B /\ \A x \in B : first <= x
    BY <1>1 DEF FirstInv
  <1>4. first - m - MajorHeader < n
    <2> PICK g : g = m + MajorHeader
      OBVIOUS
    <2>1. g \in Nat /\ first \in Nat /\ g <= first /\ first <= MajorEnd(m)
      BY <1>1, <1>2, <1>3, SizesAssumption
    <2>2. first - g <= Room(m)
      BY <1>3, <2>1, GapsFit
    <2> QED
      BY <1>1, <2>1, <2>2, SizesAssumption
  <1>5. ASSUME NEW x \in B
        PROVE  GapBehind(x) < n
    <2> PICK nx : nx = minor[x].next
      OBVIOUS
    <2> PICK e : e = IF nx = NULL THEN MajorEnd(m) ELSE nx
      OBVIOUS
    <2> PICK g : g = EndOf(x)
      OBVIOUS
    <2>1. \/ nx = NULL /\ \A y \in B : y <= x
          \/ nx # NULL /\ nx \in B /\ g <= nx /\ \A y \in B : y <= x \/ nx <= y
      BY <1>2 DEF NextInv
    <2>2. GapBehind(x) = e - g
      BY <1>1, <1>2 DEF GapBehind
    <2>3. g \in Nat /\ e \in Nat /\ g <= e /\ e <= MajorEnd(m) /\ m + MajorHeader <= g
      <3>1. e \in Nat /\ g <= e /\ e <= MajorEnd(m)
        BY <1>1, <1>2, <2>1
      <3> QED
        BY <1>1, <1>2, <3>1, SizesAssumption
    <2>4. ASSUME NEW y \in B PROVE EndOf(y) <= g \/ e <= y
      <3>1. CASE y <= x
        <4>1. y = x \/ EndOf(y) <= x
          BY <1>2, <3>1, BlocksApart
        <4> QED
          BY <1>2, <4>1
      <3>2. CASE ~(y <= x)
        BY <2>1, <3>2
      <3> QED
        BY <3>1, <3>2
    <2>5. e - g <= Room(m)
      BY <2>3, <2>4, GapsFit
    <2> QED
      BY <1>1, <2>2, <2>3, <2>5
  <1> QED
    BY <1>4, <1>5 DEF Full

(* A major without blocks has room for what the search needs.              *)
LEMMA EmptyHasRoom ==
  ASSUME HeapInv, CallInv, LockInv, EmptyInv, NEW t \in Threads, pc[t] \in Search,
         NEW m \in DOMAIN major, BlocksOf(m) = {}
  PROVE  Room(m) >= Need(t)
  <1>1. FirstInv(m) /\ NULL \notin BlocksOf(m)
    BY DEF HeapInv, BlockInv
  <1>2. major[m].usage = MajorHeader
    BY <1>1 DEF FirstInv
  <1>3. MajorHeader + Need(t) <= major[m].size
    BY EmptyIsHolders
  <1>4. major[m].size \in Nat /\ Need(t) \in Nat
    BY MajorTypes, NeedType DEF HeapInv
  <1> QED
    BY <1>2, <1>3, <1>4, SizesAssumption DEF Room

(* Past the last major: what was seen stays seen, or the search begins     *)
(* again at the root with nothing seen.                                    *)
LEMMA PastTheEndSeen ==
  ASSUME NEW t \in Threads, NEW w, NEW g, PastTheEnd(t, w, g), walk \in Walks,
         w.maj = walk.maj, w.min = walk.min, w.startedBet = walk.startedBet, w \in Walks,
         UNCHANGED <<major, minor, l_memRoot>>, NEW n,
         ~walk.startedBet => \E V \in SUBSET DOMAIN major : Seen(V, n)
  PROVE  \E l \in {"major", g} :
           /\ Goto(t, l) /\ (l = "major" \/ walk'.maj = walk.maj)
           /\ \E V \in SUBSET DOMAIN major' : Seen(V, n)'
  <1>1. CASE w.startedBet
    <2>1. Goto(t, "major") /\ walk' = [w EXCEPT !.maj = l_memRoot, !.startedBet = FALSE]
      BY <1>1 DEF PastTheEnd
    <2>2. walk'.maj = l_memRoot'
      BY <2>1 DEF Walks
    <2>3. \E V \in SUBSET DOMAIN major' : Seen(V, n)'
      BY <2>2, SeenNothing
    <2> QED
      BY <2>1, <2>3
  <1>2. CASE ~w.startedBet
    <2>1. Goto(t, g) /\ walk' = w
      BY <1>2 DEF PastTheEnd
    <2>2. \E V \in SUBSET DOMAIN major' : Seen(V, n)'
      BY <1>2, <2>1, SeenStays
    <2> QED
      BY <2>1, <2>2
  <1> QED
    BY <1>1, <1>2

LEMMA VisitMajorCounts ==
  ASSUME HeapOK, CountOK, NEW t \in Threads, VisitMajor(t)
  PROVE  CountOK'
  <1> USE DEF HeapOK, CountOK
  <1>1. pc[t] = "major" /\ pc[t] \in Search \ {"root"}
        /\ {"major", "place", "grow1"} \subseteq Search \ {"root"}
    BY DEF VisitMajor, Search
  <1> PICK m : m = walk.maj
    OBVIOUS
  <1> PICK n : n = Need(t)
    OBVIOUS
  <1>2. m \in DOMAIN major /\ walk \in Walks /\ n \in Nat /\ Room(m) \in Int
    BY <1>1, NeedType, RoomType DEF WalkInv
  <1>0. PICK w : w = [walk EXCEPT !.bestSize = IF walk.bestSize < Room(m) THEN Room(m) ELSE @]
    OBVIOUS
  <1>3. w \in Walks /\ w.maj = m /\ w.min = walk.min /\ w.startedBet = walk.startedBet
    BY <1>0, <1>2 DEF Walks
  <1>4. UNCHANGED <<heap_lock, major, minor, l_inuse, l_allocated, l_memRoot, call>>
    BY DEF VisitMajor, blocks
  <1>5. \/ Room(m) >= Need(t) /\ Goto(t, "place") /\ walk' = w
        \/ Room(m) < Need(t) /\ major[m].next # NULL /\ walk' = [w EXCEPT !.maj = major[m].next]
           /\ UNCHANGED pc
        \/ Room(m) < Need(t) /\ major[m].next = NULL /\ PastTheEnd(t, w, "grow1")
    BY <1>0 DEF VisitMajor
  <1>6. ~walk.startedBet => \E V \in SUBSET DOMAIN major : Seen(V, n)
    BY <1>1 DEF SearchInv
  <1>7. \A x \in DOMAIN major : BlocksOf(x) = {} => x = m /\ Room(m) >= n
    BY <1>1, EmptyIsHolders, EmptyHasRoom
  <1>8. Room(m) < n => Full(m, n) /\ \A x \in DOMAIN major : BlocksOf(x) # {}
    <2>1. Room(m) < n => \A x \in DOMAIN major : BlocksOf(x) # {}
      BY <1>2, <1>7
    <2> QED
      BY <1>2, <2>1, FullWhenLittleRoom
  <1>9. \E l \in {"major", "place", "grow1"} :
          /\ Goto(t, l)
          /\ \A x \in DOMAIN major : BlocksOf(x) = {} => l = "place" /\ x = walk'.maj
          /\ l = "grow1" => Full(walk'.maj, n)
          /\ ~walk'.startedBet => \E V \in SUBSET DOMAIN major' : Seen(V, n)'
    <2>1. CASE Room(m) >= Need(t) /\ Goto(t, "place") /\ walk' = w
      <3>1. ~walk'.startedBet => \E V \in SUBSET DOMAIN major' : Seen(V, n)'
        BY <1>3, <1>4, <1>6, <2>1, SeenStays
      <3> QED
        BY <1>3, <1>7, <2>1, <3>1
    <2>2. CASE Room(m) < Need(t) /\ major[m].next # NULL /\ walk' = [w EXCEPT !.maj = major[m].next]
               /\ UNCHANGED pc
      <3>1. Goto(t, "major")
        BY <1>1, <2>2 DEF Goto, LockInv
      <3>2. walk'.maj = major[m].next /\ walk'.startedBet = walk.startedBet
        BY <1>3, <2>2 DEF Walks
      <3>3. ~walk'.startedBet => \E V \in SUBSET DOMAIN major' : Seen(V, n)'
        BY <1>2, <1>4, <1>6, <1>8, <2>2, <3>2, SeenMoves
      <3> QED
        BY <1>8, <2>2, <3>1, <3>3
    <2>3. CASE Room(m) < Need(t) /\ major[m].next = NULL /\ PastTheEnd(t, w, "grow1")
      <3> PICK l \in {"major", "grow1"} :
             /\ Goto(t, l) /\ (l = "major" \/ walk'.maj = walk.maj)
             /\ \E V \in SUBSET DOMAIN major' : Seen(V, n)'
        <4>1. PastTheEnd(t, w, "grow1") /\ w.maj = walk.maj
          BY <1>3, <2>3
        <4> QED
          BY <1>2, <1>3, <1>4, <1>6, <4>1, PastTheEndSeen
      <3> QED
        BY <1>8, <2>3
    <2> QED
      BY <1>5, <2>1, <2>2, <2>3
  <1> PICK l \in {"major", "place", "grow1"} :
          /\ Goto(t, l)
          /\ \A x \in DOMAIN major : BlocksOf(x) = {} => l = "place" /\ x = walk'.maj
          /\ l = "grow1" => Full(walk'.maj, n)
          /\ ~walk'.startedBet => \E V \in SUBSET DOMAIN major' : Seen(V, n)'
    BY <1>9
  <1> PICK k, h : k = walk'.maj /\ h = walk'.min
    <2>1. \E k, h : k = walk'.maj /\ h = walk'.min
      OBVIOUS
    <2> QED
      BY <2>1
  <1> QED
    BY <1>1, <1>4, MoveCounts

LEMMA NextMajorCounts ==
  ASSUME HeapOK, CountOK, NEW t \in Threads, NextMajor(t)
  PROVE  CountOK'
  <1> USE DEF HeapOK, CountOK
  <1>1. pc[t] = "next" /\ pc[t] \in Search \ {"root"} /\ {"major", "grow5"} \subseteq Search \ {"root"}
    BY DEF NextMajor, Search
  <1> PICK m : m = walk.maj
    OBVIOUS
  <1> PICK n : n = Need(t)
    OBVIOUS
  <1>2. m \in DOMAIN major /\ walk \in Walks
    BY <1>1 DEF WalkInv
  <1>3. UNCHANGED <<heap_lock, major, minor, l_inuse, l_allocated, l_memRoot, call>>
    BY DEF NextMajor, heap, blocks
  <1>4. Full(m, n) /\ (~walk.startedBet => \E V \in SUBSET DOMAIN major : Seen(V, n))
    BY <1>1 DEF SearchInv
  <1>5. \A x \in DOMAIN major : BlocksOf(x) # {}
    BY <1>1, EmptyIsHolders
  <1>6. \E l \in {"major", "grow5"} :
          /\ Goto(t, l)
          /\ l = "grow5" => Full(walk'.maj, n)
          /\ ~walk'.startedBet => \E V \in SUBSET DOMAIN major' : Seen(V, n)'
    <2>1. CASE major[m].next = NULL
      <3>1. PastTheEnd(t, walk, "grow5")
        BY <2>1 DEF NextMajor
      <3> PICK l \in {"major", "grow5"} :
             /\ Goto(t, l) /\ (l = "major" \/ walk'.maj = walk.maj)
             /\ \E V \in SUBSET DOMAIN major' : Seen(V, n)'
        BY <1>2, <1>3, <1>4, <3>1, PastTheEndSeen
      <3> QED
        BY <1>4
    <2>2. CASE major[m].next # NULL
      <3>1. Goto(t, "major") /\ walk' = [walk EXCEPT !.maj = major[m].next]
        BY <2>2 DEF NextMajor
      <3>2. walk'.maj = major[m].next /\ walk'.startedBet = walk.startedBet
        BY <1>2, <3>1 DEF Walks
      <3>3. ~walk'.startedBet => \E V \in SUBSET DOMAIN major' : Seen(V, n)'
        BY <1>2, <1>3, <1>4, <3>2, SeenMoves
      <3> QED
        BY <3>1, <3>3
    <2> QED
      BY <2>1, <2>2
  <1> PICK l \in {"major", "grow5"} :
          /\ Goto(t, l)
          /\ l = "grow5" => Full(walk'.maj, n)
          /\ ~walk'.startedBet => \E V \in SUBSET DOMAIN major' : Seen(V, n)'
    BY <1>6
  <1> PICK k, h : k = walk'.maj /\ h = walk'.min
    <2>1. \E k, h : k = walk'.maj /\ h = walk'.min
      OBVIOUS
    <2> QED
      BY <2>1
  <1> QED
    BY <1>1, <1>3, <1>5, MoveCounts

(* The end of a call, with a block or without.                             *)
LEMMA ReturnSearches ==
  ASSUME LockInv, NEW t \in Threads, pc[t] \in Search, NEW ptr, Return(t, ptr),
         \A m \in DOMAIN major' : BlocksOf(m)' # {}
  PROVE  EmptyInv' /\ SearchInv'
  <1>1. PICK l : pc' = [pc EXCEPT ![t] = l] /\ l \in {"copy", "fault", "idle"}
    BY DEF Return, Goto
  <1>2. DOMAIN pc = Threads
    BY DEF LockInv
  <1>3. \A u \in Threads : pc'[u] \notin Search
    BY <1>1, <1>2, HolderFacts DEF Search
  <1> QED
    BY <1>3, NobodySearches

LEMMA InsertKeepsCounts ==
  ASSUME HeapOK, CountOK, NEW t \in Threads, pc[t] \in Search \ {"root"},
         NEW h \in Nat \ {NULL}, NEW pr, NEW nx, IsGap(t, h, pr, nx), Insert(t, h, pr, nx)
  PROVE  CountOK'
  <1> USE DEF HeapOK, CountOK
  <1>1. CounterInv'
    BY InsertCounts
  <1> PICK k : k = walk.maj
    OBVIOUS
  <1>2. /\ Live' = Live \cup {h} /\ minor'[h].block = k
        /\ \A x \in Live : minor'[x].block = minor[x].block
    <2>1. MinorsInserted(t, h, pr, nx)
      BY InsertMinors
    <2> QED
      BY <2>1 DEF MinorsInserted
  <1>3. BlocksOf(k)' # {} /\ \A m : m # k => BlocksOf(m)' = BlocksOf(m)
    <2>1. h \in BlocksOf(k)'
      BY <1>2 DEF BlocksOf
    <2>2. \A m : m # k => BlocksOf(m)' = BlocksOf(m)
      BY <1>2 DEF BlocksOf
    <2> QED
      BY <2>1, <2>2
  <1>4. \A m \in DOMAIN major : m # k => BlocksOf(m) # {}
    BY EmptyIsHolders
  <1>5. DOMAIN major' = DOMAIN major
    BY InsertMajors
  <1>6. Return(t, Payload(h))
    BY DEF Insert
  <1>7. EmptyInv' /\ SearchInv'
    <2>1. \A m \in DOMAIN major' : BlocksOf(m)' # {}
      BY <1>3, <1>4, <1>5
    <2> QED
      BY <1>6, <2>1, ReturnSearches
  <1> QED
    BY <1>1, <1>7

LEMMA ReturnNullCounts ==
  ASSUME HeapOK, CountOK, NEW t \in Threads, pc[t] \in Search, Return(t, NULL),
         UNCHANGED <<major, minor, l_inuse, l_allocated>>,
         \A m \in DOMAIN major : BlocksOf(m) # {}
  PROVE  CountOK'
  <1> USE DEF HeapOK, CountOK
  <1>1. CounterInv'
    BY SameCounters
  <1>2. \A m \in DOMAIN major' : BlocksOf(m)' # {}
    BY SameBlocks
  <1>3. EmptyInv' /\ SearchInv'
    BY <1>2, ReturnSearches
  <1> QED
    BY <1>1, <1>3

LEMMA PlaceCounts ==
  ASSUME HeapOK, CountOK, NEW t \in Threads, Place(t)
  PROVE  CountOK'
  <1> USE DEF HeapOK, CountOK
  <1> PICK m : m = walk.maj
    OBVIOUS
  <1> PICK first : first = major[m].first
    OBVIOUS
  <1>1. pc[t] = "place" /\ pc[t] \in Search \ {"root"} /\ "minor" \in Search \ {"root"}
    BY DEF Place, Search
  <1>2. m \in DOMAIN major /\ walk \in Walks /\ FirstInv(m) /\ m \in Nat \ {0} /\ first \in Nat
        /\ Need(t) \in Nat
    BY <1>1, MajorTypes, NeedType DEF WalkInv, HeapInv, BlockInv
  <1>3. CASE first = NULL \/ first - m - MajorHeader >= Need(t)
    <2> PICK h : h = m + MajorHeader
      OBVIOUS
    <2>1. h \in Nat \ {NULL}
      BY <1>2, SizesAssumption DEF NULL
    <2>2. Insert(t, h, NULL, first) /\ IsGap(t, h, NULL, first)
      BY <1>3, PlaceGap DEF Place
    <2> QED
      BY <1>1, <2>1, <2>2, InsertKeepsCounts
  <1>4. CASE ~(first = NULL \/ first - m - MajorHeader >= Need(t))
    <2>1. /\ walk' = [walk EXCEPT !.min = first] /\ Goto(t, "minor")
          /\ UNCHANGED <<heap_lock, major, minor, l_inuse, l_allocated, l_memRoot, call>>
      BY <1>4 DEF Place, heap, blocks
    <2>2. walk'.maj = m /\ walk'.min = first /\ walk'.startedBet = walk.startedBet
      BY <1>2, <2>1 DEF Walks
    <2>3. first \in BlocksOf(m)
      BY <1>2, <1>4 DEF FirstInv
    <2>4. \A x \in DOMAIN major : BlocksOf(x) # {}
      BY <1>1, <2>3, EmptyIsHolders
    <2> PICK n : n = Need(t)
      OBVIOUS
    <2>5. FullUpTo(m, first, n)
      <3>1. first - m - MajorHeader < n
        BY <1>2, <1>4, SizesAssumption
      <3>2. \A x \in BlocksOf(m) : ~(x < first)
        <4>1. \A x \in BlocksOf(m) : x \in Nat /\ first <= x
          BY <1>2, CountedTypes DEF FirstInv
        <4> QED
          BY <1>2, <4>1
      <3> QED
        BY <3>1, <3>2 DEF FullUpTo
    <2>6. ~walk'.startedBet => \E V \in SUBSET DOMAIN major' : Seen(V, n)'
      <3>1. ~walk.startedBet => \E V \in SUBSET DOMAIN major : Seen(V, n)
        BY <1>1 DEF SearchInv
      <3> QED
        BY <2>1, <2>2, <3>1, SeenStays
    <2> QED
      BY <1>1, <2>1, <2>2, <2>4, <2>5, <2>6, MoveCounts
  <1> QED
    BY <1>3, <1>4

LEMMA VisitMinorCounts ==
  ASSUME HeapOK, CountOK, NEW t \in Threads, VisitMinor(t)
  PROVE  CountOK'
  <1> USE DEF HeapOK, CountOK
  <1> PICK m : m = walk.maj
    OBVIOUS
  <1> PICK h : h = walk.min
    OBVIOUS
  <1> PICK nx : nx = minor[h].next
    OBVIOUS
  <1> PICK n : n = Need(t)
    OBVIOUS
  <1>1. pc[t] = "minor" /\ pc[t] \in Search \ {"root"} /\ {"minor", "next"} \subseteq Search \ {"root"}
    BY DEF VisitMinor, Search
  <1>2. /\ m \in DOMAIN major /\ walk \in Walks /\ h \in BlocksOf(m) /\ h \in Live
        /\ minor[h].block = m
    BY <1>1 DEF WalkInv, BlocksOf
  <1>3. CASE GapBehind(h) >= n
    <2> PICK e : e = EndOf(h)
      OBVIOUS
    <2>1. e \in Nat \ {NULL}
      BY <1>2, LiveFacts, MinorTypes DEF HeapInv, NULL
    <2>2. Insert(t, e, h, nx) /\ IsGap(t, e, h, nx)
      BY <1>1, <1>3, MinorGap DEF VisitMinor
    <2> QED
      BY <1>1, <2>1, <2>2, InsertKeepsCounts
  <1>4. CASE ~(GapBehind(h) >= n)
    <2> PICK l : l = IF nx = NULL THEN "next" ELSE "minor"
      OBVIOUS
    <2>1. /\ walk' = [walk EXCEPT !.min = nx] /\ Goto(t, l)
          /\ UNCHANGED <<heap_lock, major, minor, l_inuse, l_allocated, l_memRoot, call>>
      BY <1>4 DEF VisitMinor, heap, blocks
    <2>2. walk'.maj = m /\ walk'.min = nx /\ walk'.startedBet = walk.startedBet
      BY <1>2, <2>1 DEF Walks
    <2>3. \A x \in DOMAIN major : BlocksOf(x) # {}
      BY <1>1, EmptyIsHolders
    <2>4. FullUpTo(m, h, n) /\ (~walk.startedBet => \E V \in SUBSET DOMAIN major : Seen(V, n))
      BY <1>1 DEF SearchInv
    <2>5. GapBehind(h) < n
      <3>1. GapBehind(h) \in Int /\ n \in Nat
        <4>1. h \in DOMAIN minor /\ m \in Nat /\ major[m].size \in Nat
          BY <1>2, LiveFacts, MajorTypes DEF HeapInv
        <4>2. EndOf(h) \in Nat /\ minor[h].next \in Nat
          BY <4>1, MinorTypes DEF HeapInv
        <4> QED
          BY <1>2, <4>1, <4>2, NeedType DEF GapBehind
      <3> QED
        BY <1>4, <3>1
    <2>6. \A x \in BlocksOf(m) : nx = NULL \/ x < nx => x < h \/ x = h
      <3>1. \A x \in BlocksOf(m) : x \in Nat
        BY CountedTypes
      <3>2. NextInv(h)
        BY <1>2, LiveFacts
      <3> QED
        BY <1>2, <3>1, <3>2 DEF NextInv
    <2>7. /\ nx = NULL => Full(m, n)
          /\ nx # NULL => FullUpTo(m, nx, n)
      BY <1>2, <2>4, <2>5, <2>6 DEF Full, FullUpTo
    <2>8. ~walk'.startedBet => \E V \in SUBSET DOMAIN major' : Seen(V, n)'
      BY <2>1, <2>2, <2>4, SeenStays
    <2> QED
      BY <1>1, <2>1, <2>2, <2>3, <2>7, <2>8, MoveCounts
  <1> QED
    BY <1>3, <1>4

LEMMA CreateRootCounts ==
  ASSUME HeapOK, CountOK, NEW t \in Threads, NEW a \in Answers(Size(t)), CreateRoot(t, a)
  PROVE  CountOK'
  <1> USE DEF HeapOK, CountOK
  <1>1. pc[t] = "root" /\ pc[t] \in Search /\ l_memRoot = NULL
    BY DEF CreateRoot, Search
  <1>2. CASE a = NULL
    <2>1. Return(t, NULL) /\ UNCHANGED <<major, minor, l_inuse, l_allocated>>
      BY <1>2 DEF CreateRoot, blocks
    <2>2. \A m \in DOMAIN major : BlocksOf(m) # {}
      <3>1. NULL \notin DOMAIN major
        BY HeapLinks
      <3> QED
        BY <1>1, <3>1, EmptyIsHolders
    <2> QED
      BY <1>1, <2>1, <2>2, ReturnNullCounts
  <1>3. CASE a # NULL
    <2>1. /\ UNCHANGED <<heap_lock, pc, call, walk, l_bestBet>> /\ l_memRoot' = a
          /\ l_allocated' = l_allocated + major'[a].size
      BY <1>3 DEF CreateRoot
    <2>2. HeapInv' /\ MajorAdded(a, Size(t)) /\ DOMAIN major = {} /\ l_bestBet = NULL
      BY <1>3, CreateRootKeepsHeap
    <2>3. Size(t) \in Nat /\ Need(t) = Size(t) + MinorHeader /\ Need(t)' = Need(t)
      BY <2>1, NeedType DEF Need, Size, Bytes
    <2>4. CounterInv'
      BY <1>3, <2>1, <2>2, <2>3, MajorAddedCounts
    <2>5. DOMAIN major' = {a} /\ MajorHeader + Need(t) <= major'[a].size
      <3>1. Size(t) + MajorHeader + MinorHeader <= major'[a].size
        BY <1>3, <2>2, <2>3, MajorAddedKeepsBlocks
      <3>2. DOMAIN major' = {a} /\ major'[a].size \in Nat
        BY <2>2 DEF MajorAdded, Major
      <3> QED
        BY <2>3, <3>1, <3>2, SizesAssumption
    <2>6. EmptyInv'
      BY <1>1, <2>1, <2>2, <2>3, <2>5 DEF EmptyInv
    <2>7. SearchInv'
      <3>1. \A u \in Threads : pc'[u] \notin Search \ {"root"}
        BY <1>1, <2>1, HolderFacts
      <3> QED
        BY <3>1 DEF SearchInv, Search
    <2> QED
      BY <2>4, <2>6, <2>7
  <1> QED
    BY <1>2, <1>3

LEMMA GrowCounts ==
  ASSUME HeapOK, CountOK, NEW t \in Threads, NEW a \in Answers(Size(t)), Grow(t, a)
  PROVE  CountOK'
  <1> USE DEF HeapOK, CountOK
  <1>1. /\ pc[t] \in {"grow1", "grow5"} /\ pc[t] \in Search \ {"root"}
        /\ {"place", "major"} \subseteq Search \ {"root"}
    BY DEF Grow, Search
  <1>2. \A m \in DOMAIN major : BlocksOf(m) # {}
    BY <1>1, EmptyIsHolders
  <1>3. CASE a = NULL
    <2>1. Return(t, NULL) /\ UNCHANGED <<major, minor, l_inuse, l_allocated>>
      BY <1>3 DEF Grow, blocks
    <2> QED
      BY <1>1, <1>2, <2>1, ReturnNullCounts
  <1>4. CASE a # NULL
    <2> PICK w : w = walk.maj
      OBVIOUS
    <2> PICK l : l = IF pc[t] = "grow1" THEN "place" ELSE "major"
      OBVIOUS
    <2>1. /\ walk' = [walk EXCEPT !.maj = a] /\ Goto(t, l)
          /\ UNCHANGED <<heap_lock, call, minor, l_memRoot>> /\ l_allocated' = l_allocated + major'[a].size
      BY <1>4 DEF Grow, blocks
    <2>2. /\ HeapInv' /\ MajorAdded(a, Size(t))
          /\ \A m \in DOMAIN major : major'[m].next = IF m = w THEN a ELSE major[m].next
      BY <1>4, GrowKeepsHeap
    <2>3. Size(t) \in Nat /\ Need(t) = Size(t) + MinorHeader /\ Need(t)' = Need(t)
      BY <2>1, NeedType DEF Need, Size, Bytes
    <2>4. CounterInv'
      BY <1>4, <2>1, <2>2, <2>3, MajorAddedCounts
    <2>5. /\ BlocksOf(a)' = {} /\ \A m \in DOMAIN major : BlocksOf(m)' = BlocksOf(m) /\ m # a
          /\ MajorHeader + Need(t) <= major'[a].size /\ DOMAIN major' = DOMAIN major \cup {a}
      <3>1. /\ BlocksOf(a)' = {} /\ \A m \in DOMAIN major : BlocksOf(m)' = BlocksOf(m) /\ m # a
            /\ Size(t) + MajorHeader + MinorHeader <= major'[a].size
        BY <1>4, <2>2, <2>3, MajorAddedKeepsBlocks
      <3>2. major'[a].size \in Nat /\ DOMAIN major' = DOMAIN major \cup {a}
        BY <2>2 DEF MajorAdded, Major
      <3> QED
        BY <2>3, <3>1, <3>2, SizesAssumption
    <2>6. pc'[t] = l /\ l \in {"place", "major"} /\ \A u \in Threads : u # t => pc'[u] \notin Search
      <3>1. pc' = [pc EXCEPT ![t] = l] /\ DOMAIN pc = Threads
        BY <2>1 DEF Goto, LockInv
      <3> QED
        BY <1>1, <3>1, HolderFacts
    <2>7. w \in DOMAIN major /\ walk'.maj = a /\ walk'.startedBet = walk.startedBet
      BY <1>1, <2>1 DEF WalkInv, Walks
    <2>8. EmptyInv'
      BY <1>2, <2>3, <2>5, <2>6, <2>7 DEF EmptyInv
    <2> PICK n : n = Need(t)
      OBVIOUS
    <2>9. \A m \in DOMAIN major : Full(m, n) => Full(m, n)'
      <3> SUFFICES ASSUME NEW m \in DOMAIN major, Full(m, n) PROVE Full(m, n)'
        OBVIOUS
      <3>1. \A x \in BlocksOf(m) : GapBehind(x)' = GapBehind(x)
        <4>1. \A x \in BlocksOf(m) : minor[x].block = m /\ EndOf(x)' = EndOf(x)
          BY <2>1 DEF BlocksOf, EndOf
        <4> QED
          BY <2>1, <2>2, <4>1 DEF GapBehind, MajorAdded
      <3>2. major'[m].first = major[m].first
        BY <2>2 DEF MajorAdded
      <3> QED
        BY <2>5, <3>1, <3>2 DEF Full
    <2>10. ~walk'.startedBet => \E V \in SUBSET DOMAIN major' : Seen(V, n)'
      <3> SUFFICES ASSUME ~walk.startedBet PROVE \E V \in SUBSET DOMAIN major' : Seen(V, n)'
        BY <2>7
      <3>1. PICK V \in SUBSET DOMAIN major : Seen(V, n)
        BY <1>1 DEF SearchInv
      <3>2. Full(w, n)
        BY <1>1 DEF SearchInv
      <3> DEFINE W == V \cup {w}
      <3>3. W \in SUBSET DOMAIN major /\ W \in SUBSET DOMAIN major' /\ \A m \in W : Full(m, n)'
        BY <2>5, <2>7, <2>9, <3>1, <3>2 DEF Seen
      <3>4. l_memRoot' \in W \cup {walk'.maj}
        BY <2>1, <3>1 DEF Seen
      <3>5. \A m \in W : major'[m].next \in W \cup {walk'.maj}
        BY <2>2, <2>7, <3>1, <3>3 DEF Seen
      <3> HIDE DEF W
      <3>6. Seen(W, n)'
        BY <3>3, <3>4, <3>5 DEF Seen
      <3> QED
        BY <3>3, <3>6
    <2>11. SearchInv'
      <3> PICK h : h = walk'.min
        OBVIOUS
      <3>1. l \notin {"minor", "next", "grow1", "grow5"}
        BY <2>6
      <3> QED
        BY <2>3, <2>6, <2>7, <2>10, <3>1, HolderSearches
    <2> QED
      BY <2>4, <2>8, <2>11
  <1> QED
    BY <1>3, <1>4

-----------------------------------------------------------------------------
(* The entries, which find the lock free and so no empty major.            *)
LEMMA NothingIsEmpty ==
  ASSUME LockInv, EmptyInv, heap_lock = Nobody
  PROVE  (\A m \in DOMAIN major : BlocksOf(m) # {}) /\ \A u \in Threads : pc[u] \notin Search
  BY FreeLock, NothingEmpty DEF Search

LEMMA EntryCounts ==
  ASSUME HeapOK, CountOK, heap_lock = Nobody, UNCHANGED <<major, minor, l_inuse, l_allocated>>,
         \A u \in Threads : pc'[u] \notin Search \ {"root"}
  PROVE  CountOK'
  <1> USE DEF HeapOK, CountOK
  <1>1. CounterInv'
    BY SameCounters
  <1>2. \A m \in DOMAIN major' : BlocksOf(m)' # {}
    BY NothingIsEmpty, SameBlocks
  <1>3. EmptyInv' /\ SearchInv'
    BY <1>2, NobodySearches
  <1> QED
    BY <1>1, <1>3

LEMMA MallocCounts ==
  ASSUME HeapOK, CountOK, NEW t \in Threads, NEW op, NEW n, Malloc(t, op, n)
  PROVE  CountOK'
  <1> USE DEF HeapOK, CountOK
  <1>1. /\ heap_lock = Nobody /\ pc' = [pc EXCEPT ![t] = "root"]
        /\ UNCHANGED <<major, minor, l_inuse, l_allocated>>
    BY DEF Malloc, Acquire, Goto, heap, blocks
  <1>2. \A u \in Threads : pc'[u] \notin Search \ {"root"}
    BY <1>1, NothingIsEmpty DEF LockInv
  <1> QED
    BY <1>1, <1>2, EntryCounts

LEMMA ReallocAcquireCounts ==
  ASSUME HeapOK, CountOK, NEW t \in Threads, ReallocAcquire(t)
  PROVE  CountOK'
  <1> USE DEF HeapOK, CountOK
  <1>1. /\ heap_lock = Nobody /\ pc' = [pc EXCEPT ![t] = "root"]
        /\ UNCHANGED <<major, minor, l_inuse, l_allocated>>
    BY DEF ReallocAcquire, Acquire, Goto, heap, blocks
  <1>2. \A u \in Threads : pc'[u] \notin Search \ {"root"}
    BY <1>1, NothingIsEmpty DEF LockInv
  <1> QED
    BY <1>1, <1>2, EntryCounts

LEMMA CopyCounts ==
  ASSUME HeapOK, CountOK, NEW t \in Threads, Copy(t)
  PROVE  CountOK'
  <1> USE DEF HeapOK
  <1>1. PICK l \in {"fault", "drop"} : Goto(t, l)
    BY DEF Copy
  <1>2. pc[t] = "copy" /\ UNCHANGED <<heap, walk, call>>
    BY DEF Copy
  <1>3. DOMAIN pc = Threads
    BY DEF LockInv
  <1>4. \A u \in Threads : pc[u] \in Search \/ pc'[u] \in Search => pc'[u] = pc[u]
    BY <1>1, <1>2, <1>3 DEF Goto, Search
  <1> QED
    BY <1>2, <1>4, SameSearch

(* A free leaves no major empty: it gives the empty one back.              *)
LEMMA FreeCounts ==
  ASSUME HeapOK, CountOK, NEW t \in Threads, NEW r \in own[t], FreeBlock(r.ptr),
         heap_lock = Nobody, \A u \in Threads : pc'[u] \notin Search
  PROVE  CountOK'
  <1> USE DEF HeapOK, CountOK
  <1> PICK h : h = HeaderOf(r.ptr)
    OBVIOUS
  <1>1. h \in Live /\ minor[h].magic = "MAGIC"
    BY OwnedBlock
  <1>2. Unlink(h)
    BY <1>1 DEF FreeBlock
  <1>3. CounterInv'
    BY <1>1, <1>2, UnlinkCounts
  <1>4. HeapInv' /\ MinorsUnlinked(h) /\ MajorsUnlinked(h)
    BY <1>1, <1>2, UnlinkKeepsHeap, UnlinkMajors
  <1> PICK k : k = minor[h].block
    OBVIOUS
  <1>5. ASSUME NEW m \in DOMAIN major' PROVE BlocksOf(m)' # {}
    <2>1. CASE m = k
      <3>1. major'[m].first # NULL
        BY <1>4, <2>1 DEF MajorsUnlinked
      <3>2. FirstInv(m)'
        BY <1>4 DEF HeapInv, BlockInv
      <3> QED
        BY <3>1, <3>2 DEF FirstInv
    <2>2. CASE m # k
      <3>1. m \in DOMAIN major
        BY <1>4 DEF MajorsUnlinked
      <3>2. BlocksOf(m) # {}
        BY <3>1, NothingIsEmpty
      <3>3. BlocksOf(m)' = BlocksOf(m)
        BY <1>4, <2>2 DEF MinorsUnlinked, BlocksOf
      <3> QED
        BY <3>2, <3>3
    <2> QED
      BY <2>1, <2>2
  <1>6. EmptyInv' /\ SearchInv'
    BY <1>5, NobodySearches
  <1> QED
    BY <1>3, <1>6

LEMMA FreeStepCounts ==
  ASSUME HeapOK, CountOK, NEW t \in Threads, NEW r \in own[t], Free(t, r)
  PROVE  CountOK'
  <1> USE DEF HeapOK, CountOK
  <1>1. heap_lock = Nobody /\ FreeBlock(r.ptr) /\ UNCHANGED pc
    BY DEF Free
  <1> QED
    BY <1>1, NothingIsEmpty, FreeCounts

LEMMA DropCounts ==
  ASSUME HeapOK, CountOK, NEW t \in Threads, Drop(t)
  PROVE  CountOK'
  <1> USE DEF HeapOK, CountOK
  <1>1. /\ pc[t] = "drop" /\ heap_lock = Nobody /\ FreeBlock(call[t].old)
        /\ pc' = [pc EXCEPT ![t] = "idle"]
    BY DEF Drop, Goto
  <1> PICK r : r = [ptr |-> call[t].old, n |-> call[t].len]
    OBVIOUS
  <1>2. r \in own[t] /\ r.ptr = call[t].old
    BY <1>1 DEF CallInv
  <1>3. \A u \in Threads : pc'[u] \notin Search
    BY <1>1, NothingIsEmpty DEF LockInv, Search
  <1> QED
    BY <1>1, <1>2, <1>3, FreeCounts

LEMMA ReallocCounts ==
  ASSUME HeapOK, CountOK, NEW t \in Threads, NEW r \in own[t], NEW n, Realloc(t, r, n)
  PROVE  CountOK'
  <1> USE DEF HeapOK, CountOK
  <1> PICK h : h = HeaderOf(r.ptr)
    OBVIOUS
  <1>1. pc[t] = "idle" /\ heap_lock = Nobody /\ UNCHANGED <<major, l_inuse, l_allocated>>
    BY DEF Realloc
  <1>2. CASE minor[h].req_size >= n
    <2>1. minor' = [minor EXCEPT ![h].req_size = n] /\ UNCHANGED pc
      BY <1>2 DEF Realloc
    <2>2. h \in DOMAIN minor /\ \A x \in DOMAIN minor : minor[x] \in Minor
      BY OwnedBlock DEF HeapInv, HeaderTypes, Live
    <2>3. /\ DOMAIN minor' = DOMAIN minor
          /\ \A x \in DOMAIN minor : /\ minor'[x].magic = minor[x].magic
                                     /\ minor'[x].block = minor[x].block
                                     /\ minor'[x].size = minor[x].size
      BY <2>1, <2>2 DEF Minor
    <2>4. Live' = Live /\ \A m : BlocksOf(m)' = BlocksOf(m)
      <3>1. Live' = Live
        BY <2>3 DEF Live
      <3> QED
        BY <2>3, <3>1 DEF BlocksOf, Live
    <2>5. /\ \A m : Footprints(m)' = Footprints(m)
          /\ BlockSizes' = BlockSizes /\ MajorSizes' = MajorSizes
      <3>1. \A x \in Live : minor'[x].size = minor[x].size
        BY <2>3 DEF Live
      <3>2. \A m : Footprints(m)' = Footprints(m)
        BY <2>4, <3>1 DEF Footprints, BlocksOf
      <3>3. BlockSizes' = BlockSizes /\ MajorSizes' = MajorSizes
        BY <1>1, <2>4, <3>1 DEF BlockSizes, MajorSizes
      <3> QED
        BY <3>2, <3>3
    <2>6. CounterInv'
      BY <1>1, <2>5 DEF CounterInv
    <2>7. EmptyInv' /\ SearchInv'
      BY <1>1, <2>1, <2>4, NothingIsEmpty, NobodySearches
    <2> QED
      BY <2>6, <2>7
  <1>3. CASE ~(minor[h].req_size >= n)
    <2>1. UNCHANGED minor /\ pc' = [pc EXCEPT ![t] = "acquire"]
      BY <1>3 DEF Realloc, Goto
    <2>2. \A u \in Threads : pc'[u] \notin Search
      BY <1>1, <2>1, NothingIsEmpty DEF LockInv, Search
    <2> QED
      BY <1>1, <2>1, <2>2, EntryCounts
  <1> QED
    BY <1>2, <1>3

LEMMA StutterCounts ==
  ASSUME CountOK, UNCHANGED vars
  PROVE  CountOK'
  BY SameSearch DEF vars

LEMMA InitCounts ==
  ASSUME Init
  PROVE  CountOK
  <1>1. /\ DOMAIN major = {} /\ Live = {} /\ l_inuse = 0 /\ l_allocated = 0
        /\ \A t \in Threads : pc[t] \notin Search
    BY DEF Init, Live, Search
  <1>2. CounterInv
    <2>1. DOMAIN BlockSizes = {} /\ DOMAIN MajorSizes = {}
      BY <1>1 DEF BlockSizes, MajorSizes
    <2> QED
      BY <1>1, <2>1, SumEmpty DEF CounterInv
  <1>3. EmptyInv /\ SearchInv
    BY <1>1 DEF EmptyInv, SearchInv, Search
  <1> QED
    BY <1>2, <1>3 DEF CountOK

LEMMA NextCounts ==
  ASSUME HeapOK, CountOK, [Next]_vars
  PROVE  CountOK'
  <1>1. CASE UNCHANGED vars
    BY <1>1, StutterCounts
  <1>2. ASSUME NEW t \in Threads, NEW n \in Requests, Malloc(t, "malloc", n)
        PROVE  CountOK'
    BY <1>2, MallocCounts
  <1>3. ASSUME NEW t \in Threads, NEW n \in Products, Malloc(t, "calloc", n)
        PROVE  CountOK'
    BY <1>3, MallocCounts
  <1>4. ASSUME NEW t \in Threads, NEW r \in own[t], Free(t, r)
        PROVE  CountOK'
    BY <1>4, FreeStepCounts
  <1>5. ASSUME NEW t \in Threads, NEW ptr \in DOMAIN info, FreeAgain(t, ptr)
        PROVE  CountOK'
    BY <1>5, FreeAgainChangesNothing, StutterCounts
  <1>6. ASSUME NEW t \in Threads, NEW r \in own[t], NEW n \in Requests, Realloc(t, r, n)
        PROVE  CountOK'
    BY <1>6, ReallocCounts
  <1>7. ASSUME NEW t \in Threads, MallocStep(t)
        PROVE  CountOK'
    BY <1>7, StartWalkCounts, VisitMajorCounts, PlaceCounts, VisitMinorCounts, NextMajorCounts,
       CreateRootCounts, GrowCounts DEF MallocStep
  <1>8. ASSUME NEW t \in Threads, ReallocStep(t)
        PROVE  CountOK'
    BY <1>8, ReallocAcquireCounts, CopyCounts, DropCounts DEF ReallocStep
  <1> QED
    BY <1>1, <1>2, <1>3, <1>4, <1>5, <1>6, <1>7, <1>8 DEF Next

LEMMA CountOKAlways == Spec => [](HeapOK /\ CountOK)
  <1>1. Init => HeapOK /\ CountOK
    BY InitHeapOK, InitCounts
  <1>2. HeapOK /\ CountOK /\ [Next]_vars => HeapOK' /\ CountOK'
    BY NextKeepsHeapOK, NextCounts
  <1> QED
    BY <1>1, <1>2, PTL DEF Spec

LEMMA TypesOK ==
  ASSUME HeapOK, CountOK
  PROVE  TypeOK
  <1> USE DEF HeapOK, CountOK
  <1>1. heap_lock \in Threads \cup {Nobody}
    BY DEF LockInv
  <1>2. \A m \in DOMAIN major :
          /\ major[m].prev \in DOMAIN major \cup {NULL}
          /\ major[m].next \in DOMAIN major \cup {NULL}
          /\ major[m].first \in DOMAIN minor \cup {NULL}
          /\ major[m].usage \in MajorHeader .. major[m].size
    <2> SUFFICES ASSUME NEW m \in DOMAIN major
                 PROVE  /\ major[m].prev \in DOMAIN major \cup {NULL}
                        /\ major[m].next \in DOMAIN major \cup {NULL}
                        /\ major[m].first \in DOMAIN minor \cup {NULL}
                        /\ major[m].usage \in MajorHeader .. major[m].size
      OBVIOUS
    <2>1. major[m].prev \in DOMAIN major \cup {NULL} /\ major[m].next \in DOMAIN major \cup {NULL}
      BY DEF HeapInv, MajorsFormAList
    <2>2. major[m].first \in DOMAIN minor \cup {NULL}
      BY DEF HeapInv, BlockInv, FirstInv, BlocksOf, Live
    <2> QED
      BY <2>1, <2>2, UsageFits
  <1>3. \A h \in Live :
          /\ minor[h].prev \in DOMAIN minor \cup {NULL}
          /\ minor[h].next \in DOMAIN minor \cup {NULL}
          /\ minor[h].block \in DOMAIN major
    <2> SUFFICES ASSUME NEW h \in Live
                 PROVE  /\ minor[h].prev \in DOMAIN minor \cup {NULL}
                        /\ minor[h].next \in DOMAIN minor \cup {NULL}
                        /\ minor[h].block \in DOMAIN major
      OBVIOUS
    <2>1. InsideInv(h) /\ NextInv(h) /\ PrevInv(h)
      BY LiveFacts
    <2> QED
      BY <2>1 DEF InsideInv, NextInv, PrevInv, BlocksOf, Live
  <1>4. l_memRoot \in DOMAIN major \cup {NULL}
    BY HeapLinks
  <1>5. l_allocated \in Nat /\ l_inuse \in Nat
    <2>1. /\ IsFiniteSet(DOMAIN BlockSizes) /\ \A h \in DOMAIN BlockSizes : BlockSizes[h] \in Nat
          /\ IsFiniteSet(DOMAIN MajorSizes) /\ \A m \in DOMAIN MajorSizes : MajorSizes[m] \in Nat
      BY CountedTypes DEF BlockSizes, MajorSizes
    <2>2. SumFunction(BlockSizes) \in Nat
      BY <2>1, SumIsNat
    <2>3. SumFunction(MajorSizes) \in Nat
      BY <2>1, SumIsNat
    <2> QED
      BY <2>2, <2>3 DEF CounterInv
  <1>6. \A t \in Threads :
          /\ pc[t] \in {"idle", "root", "major", "place", "minor", "next", "grow1", "grow5",
                        "acquire", "copy", "drop", "fault"}
          /\ pc[t] \in {"root", "major", "place", "minor", "next", "grow1", "grow5"}
               => heap_lock = t
    BY DEF LockInv, Search
  <1> QED
    BY <1>1, <1>2, <1>3, <1>4, <1>5, <1>6 DEF TypeOK

(* Every field holds what it should: a link leads to a header or nowhere,  *)
(* and the usage of a major lies between its header and its size, so that  *)
(* the rooms which the search computes never wrap.                         *)
THEOREM HeapTypeOK == Spec => []TypeOK
  BY CountOKAlways, TypesOK, PTL

LEMMA CountsAreExact ==
  ASSUME HeapOK, CountOK
  PROVE  CountersAreExact
  <1>1. heap_lock = Nobody => \A m \in DOMAIN major : BlocksOf(m) # {}
    BY NothingIsEmpty DEF HeapOK, CountOK
  <1> QED
    BY <1>1 DEF CountersAreExact, CountOK, CounterInv, Footprints, BlockSizes, MajorSizes

(* usage, l_inuse and l_allocated are sums over what is really there after *)
(* every step of every call, and while nobody holds the lock no major is   *)
(* empty: kfree gives the last one's pages back.                           *)
THEOREM HeapCountersAreExact == Spec => []CountersAreExact
  BY CountOKAlways, CountsAreExact, PTL

(* What is seen when the search stands at the last major is every major.   *)
LEMMA AllAreFull ==
  ASSUME HeapInv, NEW n, NEW V \in SUBSET DOMAIN major, Seen(V, n),
         walk.maj \in DOMAIN major, major[walk.maj].next = NULL, Full(walk.maj, n)
  PROVE  \A x \in DOMAIN major : Full(x, n)
  <1> PICK m : m = walk.maj
    OBVIOUS
  <1> DEFINE S == V \cup {m, NULL}
  <1>1. S \in SUBSET (DOMAIN major \cup {NULL}) /\ l_memRoot \in S
    BY DEF Seen
  <1>2. ClosedUnderNext(S)
    BY DEF ClosedUnderNext, Seen
  <1>3. DOMAIN major \subseteq S
    BY <1>1, <1>2 DEF HeapInv, MajorsFormAList
  <1>4. \A x \in DOMAIN major : x \in V \/ x = m
    BY <1>3, HeapLinks
  <1> QED
    BY <1>4 DEF Seen

LEMMA WhoGrows ==
  ASSUME LockInv, NEW t \in Threads, Next, pc[t] \in {"major", "next"},
         pc'[t] \in {"grow1", "grow5"}
  PROVE  VisitMajor(t) \/ NextMajor(t)
  <1> DEFINE Moves(u, l) == pc' = [pc EXCEPT ![u] = l]
             others == {"idle", "root", "major", "place", "minor", "next", "acquire", "copy",
                        "drop", "fault"}
  <1>1. \A u \in Threads : \A l : Moves(u, l) => u = t /\ l \notin others
    BY DEF LockInv
  <1>2. pc' # pc
    OBVIOUS
  <1> HIDE DEF Moves
  <1> SUFFICES ASSUME NEW u \in Threads,
                      \/ \E n \in Requests : Malloc(u, "malloc", n)
                      \/ \E n \in Products : Malloc(u, "calloc", n)
                      \/ \E r \in own[u] : Free(u, r)
                      \/ \E ptr \in DOMAIN info : FreeAgain(u, ptr)
                      \/ \E r \in own[u], n \in Requests : Realloc(u, r, n)
                      \/ MallocStep(u)
                      \/ ReallocStep(u)
               PROVE  u = t /\ (VisitMajor(u) \/ NextMajor(u))
    BY DEF Next
  <1>3. ASSUME NEW op, NEW n, Malloc(u, op, n) PROVE FALSE
    BY <1>1, <1>3 DEF Malloc, Goto, Moves
  <1>4. ASSUME NEW r, Free(u, r) PROVE FALSE
    BY <1>2, <1>4 DEF Free
  <1>5. ASSUME NEW ptr, FreeAgain(u, ptr) PROVE FALSE
    BY <1>2, <1>5 DEF FreeAgain
  <1>6. ASSUME NEW r, NEW n, Realloc(u, r, n) PROVE FALSE
    BY <1>1, <1>2, <1>6 DEF Realloc, Goto, Moves
  <1>7. ASSUME NEW ptr, Return(u, ptr) PROVE FALSE
    BY <1>1, <1>7 DEF Return, Goto, Moves
  <1>8. ASSUME NEW h, NEW pr, NEW nx, Insert(u, h, pr, nx) PROVE FALSE
    BY <1>7, <1>8 DEF Insert
  <1>9. ASSUME NEW a, CreateRoot(u, a) PROVE FALSE
    BY <1>2, <1>7, <1>9 DEF CreateRoot
  <1>10. ASSUME StartWalk(u) PROVE FALSE
    BY <1>1, <1>10 DEF StartWalk, Goto, Moves
  <1>11. ASSUME Place(u) PROVE FALSE
    BY <1>1, <1>8, <1>11 DEF Place, Goto, Moves
  <1>12. ASSUME VisitMinor(u) PROVE FALSE
    BY <1>1, <1>8, <1>12 DEF VisitMinor, Goto, Moves
  <1>13. ASSUME NEW a, Grow(u, a) PROVE FALSE
    BY <1>1, <1>7, <1>13 DEF Grow, Goto, Moves
  <1>14. ASSUME ReallocStep(u) PROVE FALSE
    BY <1>1, <1>14 DEF ReallocStep, ReallocAcquire, Copy, Drop, Goto, Moves
  <1>15. ASSUME VisitMajor(u) \/ NextMajor(u) PROVE u = t
    <2>1. \/ UNCHANGED pc
          \/ \E l : Moves(u, l)
      BY <1>15 DEF VisitMajor, NextMajor, PastTheEnd, Goto, Moves
    <2> QED
      BY <1>1, <1>2, <2>1
  <1> QED
    BY <1>3, <1>4, <1>5, <1>6, <1>9, <1>10, <1>11, <1>12, <1>13, <1>14, <1>15 DEF MallocStep

LEMMA GrowsWhenFull ==
  ASSUME HeapOK, CountOK, NEW t \in Threads, Next, pc[t] \in {"major", "next"},
         pc'[t] \in {"grow1", "grow5"}
  PROVE  \A x \in DOMAIN major : Full(x, Need(t))
  <1> USE DEF HeapOK, CountOK
  <1> PICK m : m = walk.maj
    OBVIOUS
  <1> PICK n : n = Need(t)
    OBVIOUS
  <1>1. pc[t] \in Search \ {"root"}
    BY DEF Search
  <1>2. m \in DOMAIN major /\ walk \in Walks /\ n \in Nat /\ Room(m) \in Int /\ DOMAIN pc = Threads
    BY <1>1, NeedType, RoomType DEF WalkInv, LockInv
  <1>3. ~walk.startedBet => \E V \in SUBSET DOMAIN major : Seen(V, n)
    BY <1>1 DEF SearchInv
  <1>4. ASSUME NEW w, NEW g, PastTheEnd(t, w, g) PROVE ~w.startedBet
    <2>1. w.startedBet => pc' = [pc EXCEPT ![t] = "major"]
      BY <1>4 DEF PastTheEnd, Goto
    <2> QED
      BY <1>2, <2>1
  <1>5. Full(m, n) /\ major[m].next = NULL /\ ~walk.startedBet
    <2>1. CASE VisitMajor(t)
      <3>1. Room(m) < n /\ major[m].next = NULL
            /\ \E w : w.startedBet = walk.startedBet /\ PastTheEnd(t, w, "grow1")
        <4> PICK b : b = IF walk.bestSize < Room(m) THEN Room(m) ELSE walk.bestSize
          OBVIOUS
        <4>1. \/ Goto(t, "place")
              \/ UNCHANGED pc
              \/ /\ Room(m) < n /\ major[m].next = NULL
                 /\ PastTheEnd(t, [walk EXCEPT !.bestSize = b], "grow1")
          BY <2>1 DEF VisitMajor
        <4>2. ~Goto(t, "place") /\ pc' # pc
          BY <1>2 DEF Goto
        <4>3. [walk EXCEPT !.bestSize = b].startedBet = walk.startedBet
          BY <1>2 DEF Walks
        <4> QED
          BY <4>1, <4>2, <4>3
      <3>2. \A x \in DOMAIN major : BlocksOf(x) = {} => Room(x) >= n /\ x = m
        BY <1>1, <2>1, EmptyIsHolders, EmptyHasRoom DEF VisitMajor
      <3>3. BlocksOf(m) # {}
        BY <1>2, <3>1, <3>2
      <3> QED
        BY <1>2, <1>4, <3>1, <3>3, FullWhenLittleRoom
    <2>2. CASE NextMajor(t)
      <3>1. Full(m, n)
        BY <2>2 DEF NextMajor, SearchInv
      <3>2. major[m].next = NULL /\ PastTheEnd(t, walk, "grow5")
        <4>1. major[m].next # NULL => pc' = [pc EXCEPT ![t] = "major"]
          BY <2>2 DEF NextMajor, Goto
        <4>2. pc' # [pc EXCEPT ![t] = "major"]
          BY <1>2
        <4> QED
          BY <2>2, <4>1, <4>2 DEF NextMajor
      <3> QED
        BY <1>4, <3>1, <3>2
    <2> QED
      BY <2>1, <2>2, WhoGrows
  <1> QED
    BY <1>2, <1>3, <1>5, AllAreFull

(* liballoc asks for pages only when no gap of any major fits the request, *)
(* wherever its search began, and whatever of the list it passed over for  *)
(* want of room.                                                           *)
THEOREM HeapGrowsOnlyWhenFull == Spec => GrowsOnlyWhenFull
  <1> DEFINE A == \A t \in Threads :
                    /\ pc[t] \in {"major", "next"}
                    /\ pc'[t] \in {"grow1", "grow5"}
                    => \A m \in DOMAIN major :
                         /\ BlocksOf(m) # {}
                         /\ major[m].first - m - MajorHeader < Need(t)
                         /\ \A h \in BlocksOf(m) : GapBehind(h) < Need(t)
  <1>1. HeapOK /\ CountOK /\ [Next]_vars => [A]_vars
    BY GrowsWhenFull DEF Full
  <1> QED
    BY <1>1, CountOKAlways, PTL DEF Spec, GrowsOnlyWhenFull

=============================================================================
