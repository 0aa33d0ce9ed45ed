-------------------------- MODULE MutationJournal --------------------------
(***************************************************************************)
(* What the planter promises about its requests, whatever becomes of the   *)
(* answers and of the process: each is written down before it is sent, is  *)
(* sent at most once, and is not struck out or written over while it can   *)
(* still take effect.  Planter implements it.                              *)
(***************************************************************************)
CONSTANTS Mutation, None

VARIABLES
  journal,  \* the request written down, None if there is none
  fresh,    \* it was written and may still be sent
  live      \* the requests that were sent and can still take effect

vars == <<journal, fresh, live>>

Init == journal = None /\ fresh = FALSE /\ live = {}

Write(m) ==
  /\ live = {} /\ ~fresh
  /\ journal' = m /\ fresh' = TRUE
  /\ UNCHANGED live

(* A request may have become pointless before it reaches the server. *)
Send ==
  /\ fresh
  /\ fresh' = FALSE
  /\ live' \in {{}, {journal}}
  /\ UNCHANGED journal

(* The process dies before it sends. *)
Abandon == fresh /\ fresh' = FALSE /\ UNCHANGED <<journal, live>>

(* The server has done it, or it has become impossible. *)
Settle == live' = {} /\ UNCHANGED <<journal, fresh>>

Forget ==
  /\ live = {} /\ ~fresh
  /\ journal' = None
  /\ UNCHANGED <<fresh, live>>

Next == (\E m \in Mutation : Write(m)) \/ Send \/ Abandon \/ Settle \/ Forget

Spec == Init /\ [][Next]_vars
=============================================================================
