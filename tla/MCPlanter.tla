------------------------------ MODULE MCPlanter -----------------------------
(* Small instances of Planter: s1 is planted before s2. *)
EXTENDS Planter, TLC

CONSTANTS s1, s2

ShortFirst == s1 :> 1 @@ s2 :> 2
=============================================================================
