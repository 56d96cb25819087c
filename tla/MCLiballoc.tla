----------------------------- MODULE MCLiballoc -----------------------------
(* Model values, request sizes and page sources for checking HeapClients.  *)
EXTENDS HeapClients, TLC

CONSTANTS t1, t2

Symmetry == Permutations(Threads)

(* In majors of 16 pages of 4096 bytes: a third and two thirds of the     *)
(* room in a major, to the last byte.                                      *)
Thirds == {21760, 43592}

(* A third to the last byte, more than that by a header, and one byte more *)
(* than all of the room.                                                   *)
Fractions == {21760, 21800, 65425}

(* Places for two majors, and for three, in no order of neighbours.        *)
TwoSites   == {65536, 196608}
ThreeSites == {65536, 196608, 327680}

=============================================================================
