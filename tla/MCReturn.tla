------------------------------ MODULE MCReturn ------------------------------
(* Small instances of Return: r1 walks home with a finish time of its own, *)
(* r2 is a carried fruit without one.                                      *)
EXTENDS Return, TLC

CONSTANTS r1, r2

WalkAndFruit ==
  r1 :> [carry |-> FALSE, requirement |-> 2, resource |-> FALSE, finish |-> 2] @@
  r2 :> [carry |-> TRUE, requirement |-> 0, resource |-> TRUE, finish |-> 0]
=============================================================================
