----------------------------- MODULE MCDispatch -----------------------------
(* Small instances of Dispatch: expedition t2 may be a gift for Pikmin p2. *)
EXTENDS Dispatch, TLC

CONSTANTS t2, p2

GiftOwner == t2 :> p2
NoOwner   == [t \in {} |-> p2]
=============================================================================
