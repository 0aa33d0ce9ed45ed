-------------------------- MODULE ExpeditionLease ---------------------------
(***************************************************************************)
(* What the dispatcher promises about Pikmin, whatever becomes of its      *)
(* requests: a Pikmin is leased to one expedition at a time, a request     *)
(* takes exactly the Pikmin leased for it, and no lease ends while the     *)
(* server may still act on the request.  Dispatch implements it.           *)
(***************************************************************************)
CONSTANTS Pikmin, Task

VARIABLES
  lease,  \* lease[t]: the Pikmin that belong to expedition t's request
  asked   \* asked[t]: the team of a request the server may still grant

vars == <<lease, asked>>

Init ==
  /\ lease = [t \in Task |-> {}]
  /\ asked = [t \in Task |-> {}]

(* Leases may end, but for what is asked. *)
Shrunk(l) ==
  /\ l \in [Task -> SUBSET Pikmin]
  /\ \A t \in Task : asked[t] \subseteq l[t] /\ l[t] \subseteq lease[t]

(* Expedition t is leased the team S, and the server asked for it: in vain *)
(* if the expedition is no longer there to be granted.                     *)
Ask(t, S) ==
  /\ asked[t] = {} /\ S # {}
  /\ asked' \in {asked, [asked EXCEPT ![t] = S]}
  /\ lease'[t] = S
  /\ Shrunk([lease' EXCEPT ![t] = {}])
  /\ \A u \in Task \ {t} : lease'[u] \cap S = {}

(* The server decides, or the expedition goes away first. *)
Answer(t) ==
  /\ asked' = [asked EXCEPT ![t] = {}]
  /\ UNCHANGED lease

Release == Shrunk(lease') /\ UNCHANGED asked

Next ==
  \/ \E t \in Task : Answer(t) \/ \E S \in SUBSET Pikmin : Ask(t, S)
  \/ Release

Spec == Init /\ [][Next]_vars
=============================================================================
