------------------------------- MODULE MCIdt --------------------------------
(* The chains of frames for checking Idt. *)
EXTENDS Idt

MCChains ==
  { [frames |-> 1, end |-> "null"], [frames |-> 3, end |-> "null"],
    [frames |-> 1, end |-> "unmapped"], [frames |-> 2, end |-> "itself"] }

=============================================================================
