------------------------------ MODULE Dispatch ------------------------------
(***************************************************************************)
(* The expedition dispatcher of nectar_rpc.cpp: the periodic task-list     *)
(* scan write_dispatch_candidates, the requests it sends with              *)
(* StartExpeditionAsync and the polls that watch their managed Tasks.      *)
(* Everything runs on the game's update thread, so a scan is not           *)
(* interrupted by a poll or by a change of the game's inventory; the       *)
(* control files and the location gates it reads again half way are not    *)
(* so protected, and change between any two steps.                         *)
(*                                                                         *)
(* The game server, the game's inventory projection and the player are     *)
(* the environment.  The projection follows the server one item at a time  *)
(* and as late as it likes.  Time is what may have passed: a settling      *)
(* time, the 20 s of a selection and the 30 s of a watched Task are        *)
(* choices of the steps that compare a clock with them.                    *)
(***************************************************************************)
EXTENDS DispatchReservations, Naturals, FiniteSets

CONSTANTS
  Gift,              \* the expeditions that are gift boxes
  Owner,             \* Owner[t]: the Pikmin gift t designates
  Modes,             \* the modes the controller uses; see DispatchMode
  MaxInFlight,       \* kArmedMaxInFlight
  MaxStartsPerScan,  \* kArmedMaxStartsPerScan
  MaxEpoch,          \* bound of the model on location gate resets
  CanHide,           \* may a scan meet task-list entries it cannot read?
  Manual             \* the expeditions and Pikmin the player also handles

(* "farm" is dispatch mode armed with the kind filter farm; every other    *)
(* filter of the armed mode is "armed".                                    *)
DispatchMode == {"off", "armed", "farm", "batch", "route"}

ASSUME DispatchAssumption ==
  /\ Gift \subseteq Task
  /\ Owner \in [Gift -> Pikmin]
  /\ Modes \subseteq DispatchMode
  /\ "off" \in Modes
  /\ MaxInFlight \in Nat
  /\ MaxStartsPerScan \in Nat
  /\ MaxEpoch \in Nat
  /\ CanHide \in BOOLEAN
  /\ Manual \subseteq Task \cup Pikmin
  /\ IsFiniteSet(Task)

Armed  == {"armed", "farm", "route"}
Nearby == {"armed", "route"}

(* The gate a nearby mode trusts: dispatch_location_ready/epoch. *)
Gate == {"nearby", "route"}
GateOf(m) == IF m = "route" THEN "route" ELSE "nearby"

(* A walk begins with a reset of its gate. *)
InitialEpoch == [g \in Gate |-> IF g = "route" THEN 1 ELSE 0]

VARIABLES
  mode,       \* the dispatch mode file, with the kind filter
  target,     \* the batch target file
  epoch,      \* epoch[g]: number of resets of location gate g
  holds,      \* dispatch_reservations
  picks,      \* nearby_selections: picks[t].team is {} when t has none
  settling,   \* batch_selection_settling_id and _team
  inflight,   \* armed_dispatches: is t in it, and is its Task still polled
  lock,       \* dispatch_confirmation_pending_id
  watch,      \* pending_expedition_task_id while pending_expedition_task is set
  scan        \* the locals of a write_dispatch_candidates call

VARIABLES     \* the environment
  server,     \* what the server knows of each expedition
  unanswered, \* requests of each expedition the server has not decided
  crew,       \* the team of the expedition's request
  errand,     \* Pikmin the player sent out by hand
  seen,       \* the projected task list
  status      \* the projected status of each Pikmin

control == <<mode, target, epoch>>
memory  == <<holds, picks, settling, inflight, lock, watch>>
remote  == <<server, unanswered, crew, errand>>
view    == <<seen, status>>
vars    == <<control, memory, scan, remote, view>>

(* under is the mode the selection was made in; the code does not keep it. *)
Selection == [team : SUBSET Pikmin, under : Modes \cup {"off"}, epoch : Nat]

NoSelection == [team |-> {}, under |-> "off", epoch |-> 0]

NotSettling == [id |-> NoTask, team |-> {}]

Scan == [on : BOOLEAN, mode : Modes, target : Task \cup {NoTask}, ready : BOOLEAN,
         due : BOOLEAN, confirmed : BOOLEAN, starts : Nat, todo : SUBSET Task,
         live : SUBSET Task, complete : BOOLEAN]

NoScan == [on |-> FALSE, mode |-> "off", target |-> NoTask, ready |-> FALSE,
           due |-> FALSE, confirmed |-> FALSE, starts |-> 0, todo |-> {},
           live |-> {}, complete |-> FALSE]

TypeOK ==
  /\ mode \in Modes
  /\ target \in Task \cup {NoTask}
  /\ epoch \in [Gate -> Nat]
  /\ holds \in Ledger
  /\ picks \in [Task -> Selection]
  /\ settling \in [id : Task \cup {NoTask}, team : SUBSET Pikmin]
  /\ inflight \in [Task -> {"none", "polled", "retained"}]
  /\ lock \in Task \cup {NoTask}
  /\ watch \in Task \cup {NoTask}
  /\ scan \in Scan
  /\ server \in [Task -> {"open", "ours", "players", "gone"}]
  /\ unanswered \in [Task -> Nat]
  /\ crew \in [Task -> SUBSET Pikmin]
  /\ errand \subseteq Pikmin
  /\ seen \in [Task -> {"open", "underway", "absent"}]
  /\ status \in [Pikmin -> {"available", "busy"}]

Init ==
  /\ mode = "off" /\ target = NoTask
  /\ epoch = InitialEpoch
  /\ holds = EmptyLedger
  /\ picks = [t \in Task |-> NoSelection]
  /\ settling = NotSettling
  /\ inflight = [t \in Task |-> "none"]
  /\ lock = NoTask /\ watch = NoTask
  /\ scan = NoScan
  /\ server = [t \in Task |-> "open"]
  /\ unanswered = [t \in Task |-> 0]
  /\ crew = [t \in Task |-> {}]
  /\ errand = {}
  /\ seen = [t \in Task |-> "open"]
  /\ status = [p \in Pikmin |-> "available"]

Pending  == {t \in Task : picks[t].team # {}}
InFlight == {t \in Task : inflight[t] # "none"}
Listed   == {t \in Task : seen[t] # "absent"}

-----------------------------------------------------------------------------
(* The scan *)

(* Mutant: a gate of the same age speaks for any mode. *)
OutdatedByGate(m, ready) == {t \in Pending : ~ready \/ picks[t].epoch # epoch[GateOf(m)]}

(* A selection the scan's first loop throws away, besides those over 20 s. *)
Outdated(m, ready) ==
  {t \in Pending : \/ m \notin Nearby
                   \/ ~ready
                   \/ picks[t].epoch # epoch[GateOf(m)]}

(* The settling selection is for another target, or for no batch at all. *)
Unsettled(m, tgt) == m # "batch" \/ settling.id # tgt

(* Mutant: the erased selections take their place in the map along. *)
Shortened(selections, ts) == [t \in Task \ ts |-> selections[t]]

Without(selections, ts) == [t \in Task |-> IF t \in ts THEN NoSelection ELSE selections[t]]

BeginScan(ready, old, hidden) ==
  LET dropped == old \cup Outdated(mode, ready)
      moved   == Unsettled(mode, target)
  IN
  /\ holds' = Cancel(holds, dropped \cup IF moved THEN {settling.id} ELSE {})
  /\ picks' = Without(picks, dropped)
  /\ settling' = IF moved THEN NotSettling ELSE settling
  /\ inflight' = IF mode \in Armed THEN inflight ELSE [t \in Task |-> "none"]
  /\ lock' = IF mode = "off" THEN NoTask ELSE lock
  /\ scan' = [on |-> TRUE, mode |-> mode, target |-> target, ready |-> ready,
              due |-> lock' # NoTask, confirmed |-> FALSE, starts |-> 0,
              todo |-> Listed \ hidden, live |-> Listed \ hidden,
              complete |-> hidden = {}]
  /\ UNCHANGED <<control, watch, remote, view>>

(* ready: the gate of the mode is open; old: the selections over 20 s;     *)
(* hidden: the entries of the task list that cannot be read.               *)
ScanBegin ==
  /\ ~scan.on
  /\ \E ready \in BOOLEAN, old \in SUBSET Pending,
        hidden \in IF CanHide THEN SUBSET Listed ELSE {{}} : BeginScan(ready, old, hidden)

Confirmation(t) == scan.due /\ lock = t

(* Mutant: any expedition counts as the one to be confirmed. *)
VisitedConfirming(t) == [scan EXCEPT !.todo = @ \ {t}, !.confirmed = TRUE]

Visited(t) == [scan EXCEPT !.todo = @ \ {t}, !.confirmed = @ \/ Confirmation(t)]

(* An expedition under way confirms the request that asked for it. *)
VisitUnderway(t) ==
  /\ scan.on /\ t \in scan.todo /\ seen[t] = "underway"
  /\ lock' = IF Confirmation(t) THEN NoTask ELSE lock
  /\ inflight' = [inflight EXCEPT ![t] = "none"]
  /\ scan' = Visited(t)
  /\ UNCHANGED <<control, holds, picks, settling, watch, remote, view>>

-----------------------------------------------------------------------------
(* A visit to an open expedition.  It begins with                          *)
(* available_expedition_pikmins, which shows the ledger the Pikmin it can  *)
(* read; the rest has an unknown status, or follows a record that stopped  *)
(* it.  What comes next is one branch of the loop body.                    *)

Visiting(t) == scan.on /\ t \in scan.todo /\ seen[t] = "open"

Observed(read) ==
  Observe(holds, {p \in read : status[p] = "busy"}, {p \in read : status[p] = "available"})

(* Mutant: a gift takes any Pikmin. *)
EligibleForAll(t, read) ==
  {p \in read : status[p] = "available" /\ Permits(Observed(read), p, t)}

(* The Pikmin the visit may still give to t. *)
Eligible(t, read) ==
  {p \in read : /\ status[p] = "available"
                /\ Permits(Observed(read), p, t)
                /\ t \in Gift => p = Owner[t]}

Requested(t) ==
  \/ scan.mode = "armed"
  \/ scan.mode \in {"farm", "route"} /\ t \notin Gift
  \/ scan.mode = "batch" /\ scan.ready /\ t = scan.target

(* Mutant: what is in flight does not count. *)
ArmedCapacityUnsent(t, h) ==
  /\ scan.mode \in Armed
  /\ ~HasSent(h, t)
  /\ scan.starts < MaxStartsPerScan
  /\ t \notin InFlight
  /\ scan.mode \in Nearby => scan.ready /\ Cardinality(Pending) < MaxInFlight

ArmedCapacity(t, h) ==
  /\ scan.mode \in Armed
  /\ ~HasSent(h, t)
  /\ Cardinality(InFlight) < MaxInFlight
  /\ scan.starts < MaxStartsPerScan
  /\ t \notin InFlight
  /\ scan.mode \in Nearby =>
       scan.ready /\ Cardinality(InFlight) + Cardinality(Pending) < MaxInFlight

(* Mutant: the lock is not looked at. *)
BatchCapacityAlways == scan.mode = "batch"

BatchCapacity == scan.mode = "batch" /\ lock = NoTask

SelectedTeamMatches(shown, team) == shown # {} /\ shown = team

(* StartExpeditionAsync sends the team the game has selected, shown. *)
StartExpedition(t, shown) ==
  /\ unanswered' = [unanswered EXCEPT ![t] = @ + 1]
  /\ crew' = [crew EXCEPT ![t] = shown]
  /\ UNCHANGED <<server, errand>>

(* It may hand back no Task to poll. *)
SubmitArmed(t, shown) ==
  /\ StartExpedition(t, shown)
  /\ \E how \in {"polled", "retained"} : inflight' = [inflight EXCEPT ![t] = how]

(* nearby: this expedition has a selection, and a nearby mode goes on. *)
PickedEarlier(t) == scan.mode \in Nearby /\ t \in Pending

(* batch: some expedition is settling. *)
BatchPending == scan.mode = "batch" /\ settling.id # NoTask

(* Too young a selection waits for a later scan. *)
KeepSelection(t, read) ==
  /\ Visiting(t) /\ PickedEarlier(t)
  /\ holds' = Observed(read)
  /\ scan' = Visited(t)
  /\ UNCHANGED <<control, picks, settling, inflight, lock, watch, remote, view>>

(* Mutant of SafeToStart: mode and gate are not read again. *)
SafeToStartUnread(t, shown, read) ==
  /\ Requested(t)
  /\ picks[t].team \subseteq Eligible(t, read)
  /\ SelectedTeamMatches(shown, picks[t].team)
  /\ scan.starts < MaxStartsPerScan
  /\ Cardinality(InFlight) < MaxInFlight

(* The second check of a nearby selection.  CanTryStart, the duration, the *)
(* carrying power and the distance are the game's and may fail: then, or   *)
(* when any other part fails, DropSelection.                               *)
SafeToStart(t, shown, read) ==
  /\ Requested(t)
  /\ picks[t].team \subseteq Eligible(t, read)
  /\ SelectedTeamMatches(shown, picks[t].team)
  /\ picks[t].epoch = epoch[GateOf(scan.mode)]
  /\ mode = scan.mode
  /\ scan.starts < MaxStartsPerScan
  /\ Cardinality(InFlight) < MaxInFlight

SubmitSelection(t, read) ==
  /\ Visiting(t) /\ PickedEarlier(t)
  /\ \E shown \in SUBSET Pikmin :
       SafeToStart(t, shown, read) /\ SubmitArmed(t, shown)
  /\ holds' = Cancel(Sent(Observed(read), t), {t})
  /\ picks' = Without(picks, {t})
  /\ scan' = [Visited(t) EXCEPT !.starts = @ + 1]
  /\ UNCHANGED <<control, settling, lock, watch, view>>

DropSelection(t, read) ==
  /\ Visiting(t) /\ PickedEarlier(t)
  /\ holds' = Cancel(Observed(read), {t})
  /\ picks' = Without(picks, {t})
  /\ scan' = Visited(t)
  /\ UNCHANGED <<control, settling, inflight, lock, watch, remote, view>>

(* Batch: only the settling expedition moves, and only after its wait. *)
KeepSettling(t, read) ==
  /\ Visiting(t) /\ BatchPending
  /\ holds' = Observed(read)
  /\ scan' = Visited(t)
  /\ UNCHANGED <<control, picks, settling, inflight, lock, watch, remote, view>>

SettledGate(t, shown, read) ==
  /\ Requested(t)
  /\ settling.team \subseteq Eligible(t, read)
  /\ SelectedTeamMatches(shown, settling.team)

SubmitSettled(t, read) ==
  /\ Visiting(t) /\ BatchPending /\ settling.id = t
  /\ \E shown \in SUBSET Pikmin :
       SettledGate(t, shown, read) /\ StartExpedition(t, shown)
  /\ watch' \in {t, watch}
  /\ holds' = Cancel(Sent(Observed(read), t), {t})
  /\ settling' = NotSettling
  /\ lock' = t
  /\ scan' = [Visited(t) EXCEPT !.starts = @ + 1]
  /\ UNCHANGED <<control, picks, inflight, view>>

DropSettled(t, read) ==
  /\ Visiting(t) /\ BatchPending /\ settling.id = t
  /\ holds' = Cancel(Observed(read), {t})
  /\ settling' = NotSettling
  /\ scan' = Visited(t)
  /\ UNCHANGED <<control, picks, inflight, lock, watch, remote, view>>

(* A new selection: the fastest team the game's picker offers, if all of   *)
(* it is eligible and the ledger grants it.                                *)
CanSelect(t, team, read) ==
  /\ Visiting(t) /\ ~PickedEarlier(t) /\ ~BatchPending
  /\ ArmedCapacity(t, Observed(read)) \/ BatchCapacity
  /\ Requested(t)
  /\ team \subseteq Eligible(t, read)
  /\ CanReserve(Observed(read), t, team)

SelectNearby(t, team, read) ==
  /\ CanSelect(t, team, read) /\ scan.mode \in Nearby
  /\ holds' = Reserve(Observed(read), t, team)
  /\ picks' = [picks EXCEPT ![t] = [team |-> team, under |-> scan.mode,
                                    epoch |-> epoch[GateOf(scan.mode)]]]
  /\ scan' = Visited(t)
  /\ UNCHANGED <<control, settling, inflight, lock, watch, remote, view>>

SelectBatch(t, team, read) ==
  /\ CanSelect(t, team, read) /\ scan.mode = "batch"
  /\ holds' = Reserve(Observed(read), t, team)
  /\ settling' = [id |-> t, team |-> team]
  /\ scan' = Visited(t)
  /\ UNCHANGED <<control, picks, inflight, lock, watch, remote, view>>

(* The flower farm sends in the same visit. *)
SelectFarm(t, team, read) ==
  /\ CanSelect(t, team, read) /\ scan.mode = "farm"
  /\ \E shown \in SUBSET Pikmin :
       SelectedTeamMatches(shown, team) /\ SubmitArmed(t, shown)
  /\ holds' = Cancel(Sent(Reserve(Observed(read), t, team), t), {t})
  /\ scan' = [Visited(t) EXCEPT !.starts = @ + 1]
  /\ UNCHANGED <<control, picks, settling, lock, watch, view>>

(* The game refuses the team after SetPikmins. *)
RejectTeam(t, team, read) ==
  /\ CanSelect(t, team, read)
  /\ holds' = Cancel(Reserve(Observed(read), t, team), {t})
  /\ scan' = Visited(t)
  /\ UNCHANGED <<control, picks, settling, inflight, lock, watch, remote, view>>

(* No capacity, no request, no team: the expedition is only reported. *)
PassOver(t, read) ==
  /\ Visiting(t) /\ ~PickedEarlier(t) /\ ~BatchPending
  /\ holds' = Observed(read)
  /\ scan' = Visited(t)
  /\ UNCHANGED <<control, picks, settling, inflight, lock, watch, remote, view>>

(* Mutant: an incomplete list proves absence, too. *)
GoneFromAnyList == Task \ scan.live

(* The expeditions that a completely read list no longer has. *)
Gone == IF scan.complete THEN Task \ scan.live ELSE {}

(* After the loop: absence confirms a start, and releases the holds and    *)
(* the selections of what is gone.                                         *)
ScanEnd ==
  /\ scan.on /\ scan.todo = {}
  /\ lock' = IF scan.due /\ ~scan.confirmed THEN NoTask ELSE lock
  /\ inflight' = [t \in Task |-> IF t \in scan.live THEN inflight[t] ELSE "none"]
  /\ holds' = Aged(Cancel(Reconcile(holds, Task \ Gone), Pending \cap Gone))
  /\ picks' = Without(picks, Gone)
  /\ scan' = NoScan
  /\ UNCHANGED <<control, settling, watch, remote, view>>

-----------------------------------------------------------------------------
(* poll_pending_expedition_task and poll_armed_expedition_tasks, which the *)
(* one-second tick runs between scans.  A Task stops being polled when it  *)
(* has completed, well or with a fault, or after 30 s.  A fault says       *)
(* nothing of what the server did, or will still do.                       *)
PollPending ==
  /\ ~scan.on /\ watch # NoTask
  /\ watch' = NoTask
  /\ lock' \in {lock, IF lock = watch THEN NoTask ELSE lock}
  /\ UNCHANGED <<control, holds, picks, settling, inflight, scan, remote, view>>

PollArmed(over, faulted) ==
  /\ ~scan.on
  /\ over # {} /\ \A t \in over : inflight[t] = "polled"
  /\ inflight' = [t \in Task |-> CASE t \notin over -> inflight[t]
                                   [] t \in faulted -> "none"
                                   [] OTHER         -> "retained"]
  /\ UNCHANGED <<control, holds, picks, settling, lock, watch, scan, remote, view>>

-----------------------------------------------------------------------------
(* The controller and the location gates *)

(* The control files change at any time.  The target counts in batch only. *)
Control ==
  /\ mode' \in Modes
  /\ target' \in IF mode' = "batch" THEN Task ELSE {NoTask}
  /\ UNCHANGED <<epoch, memory, scan, remote, view>>

(* A jump, a stale fix or a lost lease resets a gate; update_nearby_location *)
(* also runs in the middle of a scan.                                        *)
GateReset(g) ==
  /\ epoch[g] < MaxEpoch
  /\ epoch' = [epoch EXCEPT ![g] = @ + 1]
  /\ UNCHANGED <<mode, target, memory, scan, remote, view>>

-----------------------------------------------------------------------------
(* The server, the projection and the player.  Nothing of this is read     *)
(* while a scan runs on the update thread.                                 *)

ServerBusy == errand \cup UNION {crew[t] : t \in {u \in Task : server[u] = "ours"}}

Accept(t) ==
  /\ ~scan.on /\ unanswered[t] > 0
  /\ server[t] = "open" /\ crew[t] \cap ServerBusy = {}
  /\ server' = [server EXCEPT ![t] = "ours"]
  /\ unanswered' = [unanswered EXCEPT ![t] = @ - 1]
  /\ UNCHANGED <<control, memory, scan, crew, errand, view>>

Refuse(t) ==
  /\ ~scan.on /\ unanswered[t] > 0
  /\ unanswered' = [unanswered EXCEPT ![t] = @ - 1]
  /\ crew' = [crew EXCEPT ![t] = IF server[t] = "ours" THEN @ ELSE {}]
  /\ UNCHANGED <<control, memory, scan, server, errand, view>>

(* An expedition is over and collected, or an open one expires. *)
Leave(t) ==
  /\ ~scan.on /\ server[t] # "gone"
  /\ server' = [server EXCEPT ![t] = "gone"]
  /\ crew' = [crew EXCEPT ![t] = IF server[t] = "ours" THEN {} ELSE @]
  /\ UNCHANGED <<control, memory, scan, unanswered, errand, view>>

(* The player starts an expedition by hand, with Pikmin of no interest. *)
PlayerStarts(t) ==
  /\ ~scan.on /\ t \in Manual /\ server[t] = "open"
  /\ server' = [server EXCEPT ![t] = "players"]
  /\ UNCHANGED <<control, memory, scan, unanswered, crew, errand, view>>

PlayerSends(p) ==
  /\ ~scan.on /\ p \in Manual \ ServerBusy
  /\ errand' = errand \cup {p}
  /\ UNCHANGED <<control, memory, scan, server, unanswered, crew, view>>

(* Assumed: an errand takes longer than the server takes to decide on a    *)
(* request, so a Pikmin does not come home before a request that names it  *)
(* is decided.                                                             *)
PlayerReturns(p) ==
  /\ ~scan.on /\ p \in errand
  /\ \A t \in Task : unanswered[t] > 0 => p \notin crew[t]
  /\ errand' = errand \ {p}
  /\ UNCHANGED <<control, memory, scan, server, unanswered, crew, view>>

Forgotten(t) ==
  /\ unanswered[t] = 0 /\ seen[t] = "absent"
  /\ \A p \in Pikmin : holds[p].owner # t
  /\ t \notin Pending \cup InFlight \cup {lock, watch, settling.id}

(* A new expedition; its id is one that nobody remembers. *)
Appear(t) ==
  /\ ~scan.on /\ server[t] = "gone" /\ Forgotten(t)
  /\ server' = [server EXCEPT ![t] = "open"]
  /\ UNCHANGED <<control, memory, scan, unanswered, crew, errand, view>>

TaskView(t) ==
  CASE server[t] = "open" -> "open"
    [] server[t] = "gone" -> "absent"
    [] OTHER              -> "underway"

PikminView(p) == IF p \in ServerBusy THEN "busy" ELSE "available"

RefreshTask(t) ==
  /\ ~scan.on /\ seen[t] # TaskView(t)
  /\ seen' = [seen EXCEPT ![t] = TaskView(t)]
  /\ UNCHANGED <<control, memory, scan, remote, status>>

RefreshPikmin(p) ==
  /\ ~scan.on /\ status[p] # PikminView(p)
  /\ status' = [status EXCEPT ![p] = PikminView(p)]
  /\ UNCHANGED <<control, memory, scan, remote, seen>>

(* The game process ends and is started again.  By the time it has logged  *)
(* in and read its inventory, every earlier request is decided.            *)
Restart ==
  /\ ~scan.on /\ \A t \in Task : unanswered[t] = 0
  /\ holds' = EmptyLedger
  /\ picks' = [t \in Task |-> NoSelection]
  /\ settling' = NotSettling
  /\ inflight' = [t \in Task |-> "none"]
  /\ lock' = NoTask /\ watch' = NoTask
  /\ epoch' = InitialEpoch
  /\ seen' = [t \in Task |-> TaskView(t)]
  /\ status' = [p \in Pikmin |-> PikminView(p)]
  /\ UNCHANGED <<mode, target, scan, remote>>

-----------------------------------------------------------------------------

VisitOpen(t, read) ==
  \/ KeepSelection(t, read) \/ SubmitSelection(t, read) \/ DropSelection(t, read)
  \/ KeepSettling(t, read) \/ SubmitSettled(t, read) \/ DropSettled(t, read)
  \/ \E team \in SUBSET Pikmin :
       \/ SelectNearby(t, team, read) \/ SelectBatch(t, team, read)
       \/ SelectFarm(t, team, read) \/ RejectTeam(t, team, read)
  \/ PassOver(t, read)

Visit(t) == VisitUnderway(t) \/ \E read \in SUBSET Pikmin : VisitOpen(t, read)

Module ==
  \/ ScanBegin \/ (\E t \in Task : Visit(t)) \/ ScanEnd
  \/ PollPending
  \/ \E over \in SUBSET InFlight : \E faulted \in SUBSET over : PollArmed(over, faulted)

World ==
  \/ Control
  \/ \E m \in Modes \cap Nearby : GateReset(GateOf(m))
  \/ \E t \in Task :
       Accept(t) \/ Refuse(t) \/ Leave(t) \/ PlayerStarts(t) \/ Appear(t) \/ RefreshTask(t)
  \/ \E p \in Pikmin : PlayerSends(p) \/ PlayerReturns(p) \/ RefreshPikmin(p)
  \/ Restart

Next == Module \/ World

Spec == Init /\ [][Next]_vars

-----------------------------------------------------------------------------
(* Properties *)

(* A Pikmin reserved and not yet sent always belongs to a selection that   *)
(* can still be sent or dropped, and every selection keeps its whole team: *)
(* no reset, timeout, mode change or failed start leaves an orphan hold or *)
(* lets another expedition take a member.                                  *)
LeaseDiscipline ==
  \A t \in Task :
    UnsentTeam(holds, t) = IF t = settling.id THEN settling.team ELSE picks[t].team

(* Selections count as starts to come: never more than kArmedMaxInFlight   *)
(* expeditions are selected or in flight, whatever the interleaving of     *)
(* scans, faults and mode changes.                                         *)
InFlightBound == Cardinality(InFlight) + Cardinality(Pending) <= MaxInFlight

(* Batch never has a second expedition under selection while the first is  *)
(* still to be confirmed.                                                  *)
BatchOneAtATime == lock # NoTask => settling = NotSettling

(* The server never has two requests for one expedition to decide, and     *)
(* none for one that it already granted (README.md:67).                    *)
NoDuplicateStart ==
  \A t \in Task : unanswered[t] <= IF server[t] = "ours" THEN 0 ELSE 1

(* The server may still grant a request. *)
Undecided(t) == server[t] = "open" /\ unanswered[t] > 0

(* The Pikmin of a request the server may grant, or has granted. *)
Committed(t) == IF server[t] = "ours" \/ Undecided(t) THEN crew[t] ELSE {}

(* No Pikmin is asked for twice: neither a fault, a timeout, a restart nor *)
(* a late projection makes the module send a Pikmin that another request   *)
(* may still take.                                                         *)
NoDoubleBooking ==
  \A t, u \in Task : t # u => Committed(t) \cap Committed(u) = {}

(* Only the Pikmin a gift designates is ever sent for it. *)
GiftOnlyOwner == \A t \in Gift : crew[t] \subseteq {Owner[t]}

(* The team of t that waits to be sent. *)
SelectedTeam(t) == IF t = settling.id THEN settling.team ELSE picks[t].team

(* What was selected in one scan and is sent in a later one still holds    *)
(* when it is sent: it is the selected team, no member has become busy     *)
(* since, and a nearby selection goes out only in the mode the file holds  *)
(* at that moment and under a gate that was not reset since, although both *)
(* change while the scan runs.                                             *)
SentAsSelected ==
  [][\A t \in Task : unanswered'[t] > unanswered[t] =>
       /\ \A p \in crew'[t] : status[p] = "available"
       /\ SelectedTeam(t) # {} => crew'[t] = SelectedTeam(t)
       /\ t \in Pending => mode = scan.mode /\ picks[t].epoch = epoch[GateOf(mode)]]_vars

Lease == INSTANCE ExpeditionLease WITH
  lease <- [t \in Task |-> SentTeam(holds, t)],
  asked <- [t \in Task |-> IF Undecided(t) THEN crew[t] ELSE {}]

(* The dispatcher keeps the promises of ExpeditionLease: a request takes   *)
(* exactly the team that is leased for it, and none of it is released      *)
(* while the server may still act.                                         *)
RefinesLease == Lease!Spec

(* The scan is called again and again while the game runs, and comes to an *)
(* end; the projection catches up; every expedition expires or is over     *)
(* some day.                                                               *)
Fairness ==
  /\ WF_vars(ScanBegin) /\ WF_vars(ScanEnd)
  /\ \A t \in Task : WF_vars(Visit(t)) /\ SF_vars(RefreshTask(t)) /\ SF_vars(Leave(t))

FairSpec == Spec /\ Fairness

(* No Pikmin stays leased for ever, not even when its request was lost or  *)
(* refused and nobody said so.                                             *)
SentHoldEnds == \A t \in Task : HasSent(holds, t) ~> ~HasSent(holds, t)

(* The batch lock is always released in the end. *)
LockEnds == \A t \in Task : lock = t ~> lock # t

-----------------------------------------------------------------------------
(* Why the properties hold: inductive invariants *)

(* Only one kind of selection exists during a scan, that of its mode. *)
SelectionInv ==
  /\ LeaseDiscipline
  /\ settling.id = NoTask => settling.team = {}
  /\ settling.id # NoTask => picks[settling.id].team = {}
  /\ scan.on /\ scan.mode # "batch" => settling.id = NoTask
  /\ scan.on /\ scan.mode \notin Nearby => Pending = {}

(* Pikmin p is leased for t, and the ledger is not about to let it go. *)
Held(t, p) ==
  holds[p].owner = t /\ holds[p].sent /\ (holds[p].saw_busy => status[p] = "busy")

(* The team of a request stays held until the server has decided or the    *)
(* expedition is gone: what makes a member look busy before that is an     *)
(* errand, which lasts longer.                                             *)
WaitingHeld ==
  \A t \in Task : unanswered[t] > 0 /\ seen[t] # "absent" =>
    /\ crew[t] # {}
    /\ \A p \in crew[t] : Held(t, p) /\ (status[p] = "busy" => p \in errand)

(* So does the team of an expedition under way, or the module was restarted *)
(* and sees it busy.                                                        *)
UnderwayHeld ==
  \A t \in Task : server[t] = "ours" =>
    /\ crew[t] # {}
    /\ \A p \in crew[t] :
         Held(t, p) \/ (holds[p].owner = NoTask /\ status[p] = "busy" /\ seen[t] # "open")

(* What the task list no longer has, the server does not grant. *)
AbsentIsOver ==
  \A t \in Task : seen[t] = "absent" =>
    server[t] # "ours" /\ (unanswered[t] > 0 => server[t] = "gone")

(* A selection is made for an expedition that was not asked for. *)
SelectedNotSent ==
  \A t \in Task : t \in Pending \/ t = settling.id => ~HasSent(holds, t)

CompleteScan == scan.on /\ scan.complete => scan.live = Listed

RequestInv ==
  /\ NoDuplicateStart /\ NoDoubleBooking
  /\ WaitingHeld /\ UnderwayHeld
  /\ AbsentIsOver /\ SelectedNotSent
  /\ CompleteScan
  /\ Regular(holds)

-----------------------------------------------------------------------------
(* What comments and documents say, and the code does not do *)

(* nectar_rpc.cpp:2975: a fault releases only its own id for a later retry.  *)
(* So an expedition whose request faulted can be asked for again.            *)
FaultAllowsRetry ==
  [][\A t \in Task : ~scan.on /\ inflight[t] = "polled" /\ inflight'[t] = "none"
                       => ~HasSent(holds', t)]_vars

(* nectar_rpc.cpp:1587: only a complete task list that no longer has the     *)
(* expedition confirms an armed start by absence.                            *)
AbsenceNeedsCompleteList ==
  [][\A t \in InFlight : ScanEnd /\ inflight'[t] = "none" => scan.complete]_vars

(* NEARBY_SAFETY_2026-09-06.md:67: a mode change releases the selections     *)
(* that are not yet sent, so a scan only finds those of its own mode.        *)
ModeChangeDropsSelections ==
  \A t \in Pending : scan.on => picks[t].under = scan.mode
=============================================================================
