----------------------------- MODULE MCConsole ------------------------------
(* CPUs and programs for checking Console. *)
EXTENDS Console, TLC

CONSTANTS c1, c2

Text(n) == [fn |-> "printf", length |-> n]

Line(n) == [fn |-> "puts", length |-> n]

(* Two printing CPUs, one of them with a text that fills the buffer, or    *)
(* one of them with a puts.                                                *)
TwoCpus ==
  { (c1 :> <<Text(2), Text(3), Text(1)>>) @@ (c2 :> <<Text(2), Text(1)>>),
    (c1 :> <<Text(1)>>) @@ (c2 :> <<Text(1), Line(1)>>) }

OneCpu == {c1 :> <<Text(2)>>}

=============================================================================
