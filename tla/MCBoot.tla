------------------------------ MODULE MCBoot -------------------------------
(* Memory maps and a kernel image for checking Boot. *)
EXTENDS Boot

E(t, b, n) == [type |-> t, base |-> b, length |-> n]

(* The image at the end of the address space, the direct map in its middle. *)
MCText   == [from |-> 1025, to |-> 1026]
MCRodata == [from |-> 1027, to |-> 1027]
MCData   == [from |-> 1028, to |-> 1029]

Kernel == E("kernel", 17, 8)

(* Sorted by address: a framebuffer between memory below and above, with   *)
(* windows that run into each other and over the array; the array behind   *)
(* all windows; memory only above, and no framebuffer.                     *)
Roomy ==
  { << E("reserved", 0, 1), E("reclaimable", 1, 2), E("usable", 3, 14), Kernel,
       E("framebuffer", 26, 2), E("usable", 30, 12), E("reclaimable", 42, 2) >>,
    << E("reclaimable", 1, 1), E("usable", 2, 15), Kernel, E("usable", 25, 16),
       E("framebuffer", 42, 1) >>,
    << E("framebuffer", 2, 2), E("reclaimable", 5, 1), Kernel, E("usable", 25, 25) >>,
    << E("reclaimable", 5, 1), Kernel, E("usable", 25, 25) >> }

(* The windows of the first map, which reach over the array, and memory    *)
(* that lasts for the tables and a major, or not quite.                    *)
Edge ==
  { << E("reclaimable", 1, 2), E("usable", 3, n), Kernel,
       E("framebuffer", 26, 2), E("usable", 30, 12) >> : n \in 1 .. 14 }

(* Memory that runs out somewhere on the way, or at once.                  *)
Tight ==
  { << E("reclaimable", 1, 1), E("usable", 2, n), Kernel, E("framebuffer", 26, 2) >>
    : n \in 1 .. 15 }

(* More usable fragments than a page has slots.                            *)
Fragments ==
  { << E("reclaimable", 1, 1), E("framebuffer", 2, 1) >>
      \o [k \in 1 .. 9 |-> E("usable", 2 * k + 2, 1)] }

(* A framebuffer that begins in the middle of its first page: nothing      *)
(* below it, or the window of an entry below it over that page.            *)
Skewed ==
  { << E("reclaimable", 1, 1), E("usable", 2, 15), Kernel, E("framebuffer", 27, 2),
       E("usable", 30, 12) >>,
    << E("reclaimable", 2, 1), E("framebuffer", 3, 2), Kernel, E("reclaimable", 25, 1),
       E("usable", 26, 24) >> }

MCUnaligned == {3, 27}

MCMaps == Roomy \cup Edge \cup Tight \cup Fragments \cup Skewed

=============================================================================
