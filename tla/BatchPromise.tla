---------------------------- MODULE BatchPromise ----------------------------
(***************************************************************************)
(* What the return engine promises about a batch, whatever it could read   *)
(* and whatever was answered: it asks for one task at a time and for each  *)
(* only once, never for more than the limit says at that moment, and it    *)
(* counts a task when everything it has asked for is gone from the server. *)
(* A batch may be abandoned at any time.  Return implements it.            *)
(***************************************************************************)
EXTENDS Naturals, FiniteSets

CONSTANT Task

VARIABLES
  asked,    \* what the batch has asked for
  count,    \* how many of these it reports as done
  gone,     \* the tasks the server no longer has
  bounded,  \* there is a limit
  limit     \* the limit

vars == <<asked, count, gone, bounded, limit>>

Init ==
  /\ asked = {} /\ count = 0 /\ gone = {}
  /\ bounded \in BOOLEAN /\ limit \in Nat

(* The old batch goes on, if nothing of it is open, or a new one begins. *)
Ask(t) ==
  \E old \in {asked, {}} :
    /\ old = asked => count = Cardinality(asked)
    /\ t \notin old
    /\ bounded => Cardinality(old) < limit
    /\ asked' = old \cup {t} /\ count' = Cardinality(old)
    /\ UNCHANGED <<gone, bounded, limit>>

Count ==
  /\ count < Cardinality(asked) /\ asked \subseteq gone
  /\ count' = Cardinality(asked)
  /\ UNCHANGED <<asked, gone, bounded, limit>>

Abandon ==
  /\ asked' = {} /\ count' = 0
  /\ UNCHANGED <<gone, bounded, limit>>

(* On the server tasks end, whoever asked. *)
Vanish ==
  /\ gone \subseteq gone' /\ gone' \subseteq Task
  /\ UNCHANGED <<asked, count, bounded, limit>>

Control ==
  /\ bounded' \in BOOLEAN /\ limit' \in Nat
  /\ UNCHANGED <<asked, count, gone>>

Next == (\E t \in Task : Ask(t)) \/ Count \/ Abandon \/ Vanish \/ Control

Spec == Init /\ [][Next]_vars
=============================================================================
