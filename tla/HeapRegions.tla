---------------------------- MODULE HeapRegions -----------------------------
(***************************************************************************)
(* What kmalloc, kfree and krealloc promise: the memory in use is a set of *)
(* regions that lie apart from each other and start on an aligned address. *)
(* A region only appears whole, disappears whole, or shrinks at its end.   *)
(***************************************************************************)
EXTENDS Integers

CONSTANT ALIGNMENT

VARIABLE live   \* the regions in use, records [ptr, n] of n bytes at ptr

Apart(r, s) == r.ptr + r.n <= s.ptr \/ s.ptr + s.n <= r.ptr

Init == live = {}

Allocate ==
  \E r \in live' \ live :
    /\ live' = live \cup {r}
    /\ r.ptr % ALIGNMENT = 0
    /\ \A s \in live : s.ptr # r.ptr /\ Apart(r, s)

Release == \E r \in live : live' = live \ {r}

Shrink ==
  \E r \in live, s \in live' :
    /\ s.ptr = r.ptr
    /\ s.n <= r.n
    /\ live' = (live \ {r}) \cup {s}

Next == Allocate \/ Release \/ Shrink

Spec == Init /\ [][Next]_live

=============================================================================
