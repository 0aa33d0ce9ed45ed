------------------------------- MODULE MCNectar -------------------------------
(* Small instances of NectarClaim. *)
EXTENDS NectarClaim
=============================================================================
