----------------------------- MODULE MCPlanting -----------------------------
(* Small instances of PlantingControl. *)
EXTENDS PlantingControl
=============================================================================
