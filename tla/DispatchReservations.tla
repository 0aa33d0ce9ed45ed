------------------------ MODULE DispatchReservations ------------------------
(***************************************************************************)
(* The ledger of Pikmin promised to expeditions: class                     *)
(* DispatchReservations of dispatch_safety.h, which armed and batch        *)
(* dispatch share.  A ledger h maps every Pikmin to its hold; the code     *)
(* keeps only the Pikmin that have one, in a std::map.  The operators are  *)
(* the methods of the class: each takes the ledger and gives the next one. *)
(*                                                                         *)
(* sent_ms is only ever compared with the start time of a task-list scan   *)
(* (reconcile_tasks), so the hold keeps the answer of that comparison:     *)
(* new is TRUE from the send to the end of the scan that sent it.          *)
(***************************************************************************)
CONSTANTS
  Pikmin,   \* the Pikmin of the account
  Task,     \* the expeditions the task list can name
  NoTask    \* the empty id

ASSUME NoTaskAssumption == NoTask \notin Task

Hold == [owner : Task \cup {NoTask}, sent : BOOLEAN, saw_busy : BOOLEAN, new : BOOLEAN]

NoHold == [owner |-> NoTask, sent |-> FALSE, saw_busy |-> FALSE, new |-> FALSE]

Ledger == [Pikmin -> Hold]

EmptyLedger == [p \in Pikmin |-> NoHold]

(* The Pikmin of task t's request, and those only selected for it. *)
SentTeam(h, t) == {p \in Pikmin : h[p].owner = t /\ h[p].sent}

UnsentTeam(h, t) == {p \in Pikmin : h[p].owner = t /\ ~h[p].sent}

-----------------------------------------------------------------------------

HasSent(h, t) == \E p \in Pikmin : h[p].owner = t /\ h[p].sent

(* Mutant: any selection that is not sent can be taken over. *)
PermitsUnsent(h, p, t) == ~h[p].sent

Permits(h, p, t) ==
  \/ h[p].owner = NoTask
  \/ h[p].owner = t /\ ~h[p].sent

(* The refusals of reserve(); a team is a set, so it has no duplicates. *)
CanReserve(h, t, team) ==
  /\ team # {}
  /\ ~HasSent(h, t)
  /\ \A p \in team : Permits(h, p, t)

(* Mutant: cancelling takes back what was sent. *)
CancelAll(h, owners) == [p \in Pikmin |-> IF h[p].owner \in owners THEN NoHold ELSE h[p]]

(* cancel() for every owner in owners: what was sent stays. *)
Cancel(h, owners) ==
  [p \in Pikmin |-> IF h[p].owner \in owners /\ ~h[p].sent THEN NoHold ELSE h[p]]

Reserve(h, t, team) ==
  [p \in Pikmin |-> IF p \in team THEN [NoHold EXCEPT !.owner = t]
                                  ELSE Cancel(h, {t})[p]]

Sent(h, t) ==
  [p \in Pikmin |-> IF h[p].owner = t THEN [h[p] EXCEPT !.sent = TRUE, !.new = TRUE]
                                      ELSE h[p]]

(* Mutant: an available Pikmin is free, whether it was seen busy or not. *)
ObserveEager(h, busy, available) ==
  [p \in Pikmin |-> IF h[p].sent /\ p \in available THEN NoHold ELSE h[p]]

(* observe() for the Pikmin a pass over the inventory has read: those it    *)
(* found busy and those it found available.  A sent hold ends when its      *)
(* Pikmin was seen busy and is available again.                             *)
Observe(h, busy, available) ==
  [p \in Pikmin |->
     CASE h[p].sent /\ p \in busy -> [h[p] EXCEPT !.saw_busy = TRUE]
       [] h[p].sent /\ p \in available \ busy /\ h[p].saw_busy -> NoHold
       [] OTHER -> h[p]]

(* Mutant: only what was seen busy is released. *)
ReconcileBusy(h, live) ==
  [p \in Pikmin |-> IF h[p].saw_busy /\ ~h[p].new /\ h[p].owner \notin live THEN NoHold
                                                                           ELSE h[p]]

(* reconcile_tasks() with the ids of a complete task list. *)
Reconcile(h, live) ==
  [p \in Pikmin |-> IF h[p].sent /\ ~h[p].new /\ h[p].owner \notin live THEN NoHold
                                                                       ELSE h[p]]

(* The scan is over: a later one has an observed_ms above every sent_ms. *)
Aged(h) == [p \in Pikmin |-> [h[p] EXCEPT !.new = FALSE]]

-----------------------------------------------------------------------------

(* The map has no entry for a Pikmin without an owner, and observe() marks *)
(* only what was sent.                                                     *)
Regular(h) ==
  \A p \in Pikmin :
    /\ h[p].owner = NoTask => h[p] = NoHold
    /\ ~h[p].sent => ~h[p].saw_busy
=============================================================================
