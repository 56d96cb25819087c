---------------------------- MODULE MCOliveHeap -----------------------------
(* Small physical memories for checking OliveHeap. *)
EXTENDS OliveHeap

CONSTANT t1

E(t, b, n) == [type |-> t, base |-> b, length |-> n]

(* Room for one major of 16 pages and the array, and for two.              *)
MCMaps ==
  { << E("reserved", 0, 1), E("usable", 1, 17), E("reclaimable", 20, 1) >>,
    << E("reserved", 0, 1), E("usable", 1, 33), E("reclaimable", 40, 1) >> }

=============================================================================
