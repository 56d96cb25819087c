----------------------------- MODULE MCPMMSteps -----------------------------
(* Model values and memory maps for checking PMMSteps. *)
EXTENDS PMMSteps, TLC

CONSTANTS c1, c2, lock

E(t, b, n) == [type |-> t, base |-> b, length |-> n]

MCLockOf == c1 :> lock @@ c2 :> lock

MCMaps ==
  { << E("usable", 1, 3), E("reserved", 4, 1), E("usable", 5, 3) >>,
    << E("usable", 1, 4), E("usable", 6, 1) >> }

(* Bound on the page numbers: mixed run sizes let them drift upwards.      *)
MaxPage == 8

PagesBounded == \A s \in DOMAIN pm_stack : pm_stack[s] <= MaxPage

=============================================================================
