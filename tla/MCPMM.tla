------------------------------- MODULE MCPMM --------------------------------
(* Model values and memory maps for checking PMMClients. *)
EXTENDS PMMClients

CONSTANTS c1, c2, c3

MCClients == {c1, c2, c3}

E(t, b, n) == [type |-> t, base |-> b, length |-> n]

(* Four slots per page.  A single page; one region; regions around a hole with the array  *)
(* in the lower one; a top region that the array uses up; no usable page;  *)
(* more usable fragments than a page has slots, none of which fits.        *)
MCMaps ==
  { << E("usable", 1, 6) >>,
    << E("usable", 1, 5), E("reserved", 6, 2), E("usable", 8, 1) >>,
    << E("reclaimable", 1, 1), E("usable", 2, 3), E("framebuffer", 5, 2), E("usable", 7, 2) >>,
    << E("reserved", 1, 4), E("framebuffer", 9, 1) >>,
    << E("usable", 2, 1), E("usable", 4, 1), E("usable", 6, 1),
       E("usable", 8, 1), E("usable", 10, 1) >>,
    << E("usable", 3, 1) >> }

(* Two regions of four pages; the upper one gives two to the array.        *)
TwoRegions == { << E("usable", 2, 4), E("reserved", 6, 2), E("usable", 8, 4) >> }

=============================================================================
