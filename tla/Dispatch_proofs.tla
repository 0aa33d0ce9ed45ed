--------------------------- MODULE Dispatch_proofs ---------------------------
(***************************************************************************)
(* Theorems about the dispatcher, for any number of expeditions, Pikmin    *)
(* and modes and any limits.                                               *)
(***************************************************************************)
EXTENDS Dispatch, DispatchReservations_proofs, FiniteSetTheorems

USE DispatchAssumption, NoTaskAssumption

-----------------------------------------------------------------------------
(* Types *)

LEMMA InitTypeOK == Init => TypeOK
<1>1. EmptyLedger \in Ledger
  BY EmptyLedgerFacts
<1>2. QED
  BY <1>1 DEF Init, TypeOK, Gate, InitialEpoch, Selection, NoSelection, NotSettling, Scan, NoScan

(* A visit keeps the locals of the scan well typed. *)
LEMMA VisitedType ==
  ASSUME scan \in Scan, NEW t \in Task
  PROVE  /\ Visited(t) \in Scan
         /\ [Visited(t) EXCEPT !.starts = @ + 1] \in Scan
<1>1. Confirmation(t) \in BOOLEAN
  BY DEF Confirmation, Scan
<1>2. Visited(t) \in Scan
  BY <1>1 DEF Visited, Scan
<1>3. [Visited(t) EXCEPT !.starts = @ + 1] \in Scan
  BY <1>2 DEF Scan
<1>4. QED
  BY <1>2, <1>3

LEMMA ObservedType == holds \in Ledger => \A read : Observed(read) \in Ledger
BY ObserveType DEF Observed

LEMMA WithoutType ==
  \A f \in [Task -> Selection] : \A ts : Without(f, ts) \in [Task -> Selection]
BY DEF Without, NoSelection, Selection

(* A request keeps the environment well typed. *)
LEMMA StartType ==
  ASSUME TypeOK, NEW t \in Task, NEW shown \in SUBSET Pikmin, StartExpedition(t, shown)
  PROVE  /\ unanswered' \in [Task -> Nat]
         /\ crew' \in [Task -> SUBSET Pikmin]
         /\ server' \in [Task -> {"open", "ours", "players", "gone"}]
         /\ errand' \subseteq Pikmin
BY DEF TypeOK, StartExpedition

LEMMA ScanBeginType == TypeOK /\ ScanBegin => TypeOK'
<1> SUFFICES ASSUME TypeOK,
                    NEW ready \in BOOLEAN, NEW old \in SUBSET Pending, NEW hidden,
                    BeginScan(ready, old, hidden)
             PROVE  TypeOK'
  BY DEF ScanBegin
<1>2. holds' \in Ledger
  BY CancelType DEF TypeOK, BeginScan
<1>3. picks' \in [Task -> Selection]
  BY WithoutType DEF TypeOK, BeginScan
<1>4. /\ settling' \in [id : Task \cup {NoTask}, team : SUBSET Pikmin]
      /\ inflight' \in [Task -> {"none", "polled", "retained"}]
      /\ lock' \in Task \cup {NoTask}
  BY DEF TypeOK, NotSettling, BeginScan
<1>5. scan' \in Scan
  BY DEF TypeOK, Scan, Listed, BeginScan
<1>6. QED
  BY <1>2, <1>3, <1>4, <1>5 DEF TypeOK, BeginScan, control, remote, view

LEMMA VisitOpenType ==
  ASSUME TypeOK, NEW t \in Task, NEW read \in SUBSET Pikmin, VisitOpen(t, read)
  PROVE  TypeOK'
<1> DEFINE h == Observed(read)
<1>1. h \in Ledger
  BY ObservedType DEF TypeOK
<1>2. /\ Visited(t) \in Scan
      /\ [Visited(t) EXCEPT !.starts = @ + 1] \in Scan
  BY VisitedType DEF TypeOK
<1>3. /\ Cancel(h, {t}) \in Ledger
      /\ Cancel(Sent(h, t), {t}) \in Ledger
  BY <1>1, CancelType, SentType
<1>4. \A team : /\ Reserve(h, t, team) \in Ledger
                /\ Cancel(Reserve(h, t, team), {t}) \in Ledger
                /\ Cancel(Sent(Reserve(h, t, team), t), {t}) \in Ledger
  <2> TAKE team
  <2>1. Reserve(h, t, team) \in Ledger
    BY <1>1, ReserveType
  <2>2. QED
    BY <2>1, CancelType, SentType
<1>5. Without(picks, {t}) \in [Task -> Selection]
  BY WithoutType DEF TypeOK
<1> HIDE DEF h
<1> USE DEF TypeOK, control, remote, view
<1>6. CASE KeepSelection(t, read)
  BY <1>1, <1>2, <1>6 DEF KeepSelection, h
<1>7. CASE SubmitSelection(t, read)
  <2>1. PICK shown \in SUBSET Pikmin : SafeToStart(t, shown, read) /\ SubmitArmed(t, shown)
    BY <1>7 DEF SubmitSelection
  <2>2. inflight' \in [Task -> {"none", "polled", "retained"}]
    BY <2>1 DEF SubmitArmed
  <2>3. StartExpedition(t, shown)
    BY <2>1 DEF SubmitArmed
  <2>4. QED
    BY <1>2, <1>3, <1>5, <1>7, <2>2, <2>3, StartType DEF SubmitSelection, h
<1>8. CASE DropSelection(t, read)
  BY <1>2, <1>3, <1>5, <1>8 DEF DropSelection, h
<1>9. CASE KeepSettling(t, read)
  BY <1>1, <1>2, <1>9 DEF KeepSettling, h
<1>10. CASE SubmitSettled(t, read)
  <2>1. PICK shown \in SUBSET Pikmin :
          SettledGate(t, shown, read) /\ StartExpedition(t, shown)
    BY <1>10 DEF SubmitSettled
  <2>2. QED
    BY <1>2, <1>3, <1>10, <2>1, StartType DEF SubmitSettled, h, NotSettling
<1>11. CASE DropSettled(t, read)
  BY <1>2, <1>3, <1>11 DEF DropSettled, h, NotSettling
<1>12. ASSUME NEW team \in SUBSET Pikmin, SelectNearby(t, team, read)
       PROVE  TypeOK'
  <2>1. [team |-> team, under |-> scan.mode, epoch |-> epoch[GateOf(scan.mode)]] \in Selection
    BY DEF Selection, Scan, GateOf, Gate
  <2>2. QED
    BY <1>2, <1>4, <1>12, <2>1 DEF SelectNearby, h
<1>13. ASSUME NEW team \in SUBSET Pikmin, SelectBatch(t, team, read)
       PROVE  TypeOK'
  BY <1>2, <1>4, <1>13 DEF SelectBatch, h
<1>14. ASSUME NEW team \in SUBSET Pikmin, SelectFarm(t, team, read)
       PROVE  TypeOK'
  <2>1. PICK shown \in SUBSET Pikmin : SubmitArmed(t, shown)
    BY <1>14 DEF SelectFarm
  <2>2. inflight' \in [Task -> {"none", "polled", "retained"}]
    BY <2>1 DEF SubmitArmed
  <2>3. StartExpedition(t, shown)
    BY <2>1 DEF SubmitArmed
  <2>4. QED
    BY <1>2, <1>4, <1>14, <2>2, <2>3, StartType DEF SelectFarm, h
<1>15. ASSUME NEW team \in SUBSET Pikmin, RejectTeam(t, team, read)
       PROVE  TypeOK'
  BY <1>2, <1>4, <1>15 DEF RejectTeam, h
<1>16. CASE PassOver(t, read)
  BY <1>1, <1>2, <1>16 DEF PassOver, h
<1>17. QED
  BY <1>6, <1>7, <1>8, <1>9, <1>10, <1>11, <1>12, <1>13, <1>14, <1>15, <1>16 DEF VisitOpen

LEMMA ModuleType == TypeOK /\ Module => TypeOK'
<1> SUFFICES ASSUME TypeOK, Module PROVE TypeOK'
  OBVIOUS
<1>1. CASE ScanBegin
  BY <1>1, ScanBeginType
<1>2. ASSUME NEW t \in Task, VisitUnderway(t)
      PROVE  TypeOK'
  BY <1>2, VisitedType DEF VisitUnderway, TypeOK, control, remote, view
<1>3. ASSUME NEW t \in Task, NEW read \in SUBSET Pikmin, VisitOpen(t, read)
      PROVE  TypeOK'
  BY <1>3, VisitOpenType
<1>4. CASE ScanEnd
  <2>1. holds' \in Ledger
    <3>1. Reconcile(holds, Task \ Gone) \in Ledger
      BY ReconcileType DEF TypeOK
    <3>2. QED
      BY <1>4, <3>1, CancelType, AgedType DEF ScanEnd
  <2>2. picks' \in [Task -> Selection]
    BY <1>4, WithoutType DEF ScanEnd, TypeOK
  <2>3. scan' \in Scan
    BY <1>4 DEF ScanEnd, Scan, NoScan
  <2>4. QED
    BY <1>4, <2>1, <2>2, <2>3 DEF ScanEnd, TypeOK, control, remote, view
<1>5. CASE PollPending
  BY <1>5 DEF PollPending, TypeOK, control, remote, view
<1>6. ASSUME NEW over, NEW faulted, PollArmed(over, faulted)
      PROVE  TypeOK'
  BY <1>6 DEF PollArmed, TypeOK, control, remote, view
<1>7. QED
  BY <1>1, <1>2, <1>3, <1>4, <1>5, <1>6 DEF Module, Visit

LEMMA WorldType == TypeOK /\ World => TypeOK'
<1> SUFFICES ASSUME TypeOK, World PROVE TypeOK'
  OBVIOUS
<1> USE DEF TypeOK, control, memory, remote, view
<1>1. CASE Control
  BY <1>1 DEF Control
<1>2. ASSUME NEW g \in Gate, GateReset(g)
      PROVE  TypeOK'
  BY <1>2 DEF GateReset
<1>3. ASSUME NEW t \in Task, Accept(t)
      PROVE  TypeOK'
  BY <1>3 DEF Accept
<1>4. ASSUME NEW t \in Task, Refuse(t)
      PROVE  TypeOK'
  BY <1>4 DEF Refuse
<1>5. ASSUME NEW t \in Task, Leave(t)
      PROVE  TypeOK'
  BY <1>5 DEF Leave
<1>6. ASSUME NEW t \in Task, PlayerStarts(t) \/ Appear(t)
      PROVE  TypeOK'
  BY <1>6 DEF PlayerStarts, Appear
<1>7. ASSUME NEW t \in Task, RefreshTask(t)
      PROVE  TypeOK'
  BY <1>7 DEF RefreshTask, TaskView
<1>8. ASSUME NEW p \in Pikmin, PlayerSends(p) \/ PlayerReturns(p)
      PROVE  TypeOK'
  BY <1>8 DEF PlayerSends, PlayerReturns
<1>9. ASSUME NEW p \in Pikmin, RefreshPikmin(p)
      PROVE  TypeOK'
  BY <1>9 DEF RefreshPikmin, PikminView
<1>10. CASE Restart
  <2>1. EmptyLedger \in Ledger /\ InitialEpoch \in [Gate -> Nat]
    BY EmptyLedgerFacts DEF InitialEpoch
  <2>2. QED
    BY <1>10, <2>1 DEF Restart, NoSelection, Selection, NotSettling, TaskView, PikminView
<1>11. \A m \in Modes \cap Nearby : GateOf(m) \in Gate
  BY DEF GateOf, Gate
<1>12. QED
  BY <1>1, <1>2, <1>3, <1>4, <1>5, <1>6, <1>7, <1>8, <1>9, <1>10, <1>11 DEF World

LEMMA NextType == TypeOK /\ [Next]_vars => TypeOK'
<1> SUFFICES ASSUME TypeOK, [Next]_vars PROVE TypeOK'
  OBVIOUS
<1>1. CASE Next
  BY <1>1, ModuleType, WorldType DEF Next
<1>2. CASE UNCHANGED vars
  BY <1>2 DEF vars, control, memory, remote, view, TypeOK
<1>3. QED
  BY <1>1, <1>2

(* Every variable of the dispatcher keeps to its type. *)
THEOREM TypeCorrect == Spec => []TypeOK
BY InitTypeOK, NextType, PTL DEF Spec

-----------------------------------------------------------------------------
(* Selections and their holds *)

LEMMA ObservedUnsent ==
  holds \in Ledger =>
    \A t \in Task : \A read : UnsentTeam(Observed(read), t) = UnsentTeam(holds, t)
BY ObserveUnsent DEF Observed

LEMMA InitSelection == Init => SelectionInv
<1> SUFFICES ASSUME Init PROVE SelectionInv
  OBVIOUS
<1>1. \A t \in Task : UnsentTeam(holds, t) = {}
  BY EmptyLedgerFacts DEF Init
<1>2. \A t \in Task : picks[t].team = {}
  BY DEF Init, NoSelection
<1>3. settling.id = NoTask /\ settling.team = {} /\ ~scan.on
  BY DEF Init, NotSettling, NoScan
<1>4. LeaseDiscipline
  BY <1>1, <1>2, <1>3 DEF LeaseDiscipline
<1>5. QED
  BY <1>3, <1>4 DEF SelectionInv

LEMMA ScanBeginSelection == TypeOK /\ SelectionInv /\ ScanBegin => SelectionInv'
<1> SUFFICES ASSUME TypeOK, SelectionInv,
                    NEW ready \in BOOLEAN, NEW old \in SUBSET Pending, NEW hidden,
                    BeginScan(ready, old, hidden)
             PROVE  SelectionInv'
  BY DEF ScanBegin
<1> DEFINE dropped == old \cup Outdated(mode, ready)
           moved   == Unsettled(mode, target)
           owners  == dropped \cup IF moved THEN {settling.id} ELSE {}
<1>1. /\ holds' = Cancel(holds, owners)
      /\ picks' = Without(picks, dropped)
      /\ settling' = IF moved THEN NotSettling ELSE settling
      /\ scan'.on /\ scan'.mode = mode
  BY DEF BeginScan
<1>2. dropped \subseteq Pending
  BY DEF Outdated
<1>3. settling.id \notin dropped
  BY <1>2 DEF SelectionInv, Pending
<1> HIDE DEF dropped
<1>4. ASSUME NEW t \in Task
      PROVE  UnsentTeam(holds', t) = IF t = settling'.id THEN settling'.team ELSE picks'[t].team
  <2>1. UnsentTeam(holds', t) = IF t \in owners THEN {} ELSE UnsentTeam(holds, t)
    BY <1>1, CancelUnsent DEF TypeOK
  <2>2. picks'[t] = IF t \in dropped THEN NoSelection ELSE picks[t]
    BY <1>1 DEF Without
  <2>3. UnsentTeam(holds, t) = IF t = settling.id THEN settling.team ELSE picks[t].team
    BY DEF SelectionInv, LeaseDiscipline
  <2>4. CASE moved
    <3>1. t # settling'.id /\ (t = settling.id => picks[t].team = {})
      BY <1>1, <2>4, NoTaskAssumption DEF NotSettling, SelectionInv
    <3>2. t \in owners <=> t \in dropped \/ t = settling.id
      BY <2>4
    <3>3. CASE t \in dropped \/ t = settling.id
      <4>1. picks'[t].team = {}
        BY <2>2, <3>1, <3>3 DEF NoSelection
      <4>2. QED
        BY <2>1, <3>1, <3>2, <3>3, <4>1
    <3>4. CASE ~(t \in dropped \/ t = settling.id)
      <4>1. picks'[t] = picks[t]
        BY <2>2, <3>4
      <4>2. QED
        BY <2>1, <2>3, <3>1, <3>2, <3>4, <4>1
    <3>5. QED
      BY <3>3, <3>4
  <2>5. CASE ~moved
    BY <1>1, <1>3, <2>1, <2>2, <2>3, <2>5 DEF NoSelection
  <2>6. QED
    BY <2>4, <2>5
<1>5. settling'.id # NoTask => picks'[settling'.id].team = {}
  BY <1>1, <1>3 DEF NotSettling, SelectionInv, Without, TypeOK
<1>6. settling'.id = NoTask => settling'.team = {}
  BY <1>1 DEF NotSettling, SelectionInv
<1>7. mode # "batch" => settling'.id = NoTask
  BY <1>1 DEF Unsettled, NotSettling
<1>8. ASSUME mode \notin Nearby
      PROVE  Pending' = {}
  <2>1. Pending \subseteq dropped
    BY <1>8 DEF Outdated, dropped
  <2>2. QED
    BY <1>1, <2>1 DEF Pending, Without, NoSelection
<1>9. QED
  BY <1>1, <1>4, <1>5, <1>6, <1>7, <1>8 DEF SelectionInv, LeaseDiscipline

LEMMA VisitOpenSelection ==
  ASSUME TypeOK, SelectionInv, NEW t \in Task, NEW read \in SUBSET Pikmin,
         scan.on, VisitOpen(t, read)
  PROVE  SelectionInv'
<1> DEFINE h == Observed(read)
<1>1. h \in Ledger
  BY ObservedType DEF TypeOK
<1>2. \A u \in Task : UnsentTeam(h, u) = UnsentTeam(holds, u)
  BY ObservedUnsent DEF TypeOK
<1>3. /\ Visited(t).on = scan.on
      /\ Visited(t).mode = scan.mode
      /\ [Visited(t) EXCEPT !.starts = @ + 1].on = scan.on
      /\ [Visited(t) EXCEPT !.starts = @ + 1].mode = scan.mode
  BY DEF Visited, TypeOK, Scan
<1>4. \A u \in Task : UnsentTeam(Cancel(h, {t}), u) = IF u = t THEN {} ELSE UnsentTeam(h, u)
  BY <1>1, CancelUnsent
<1>5. \A u \in Task :
        UnsentTeam(Cancel(Sent(h, t), {t}), u) = IF u = t THEN {} ELSE UnsentTeam(h, u)
  <2>1. Sent(h, t) \in Ledger
    BY <1>1, SentType
  <2>2. QED
    BY <1>1, <2>1, CancelUnsent, SentUnsent
<1>6. ASSUME NEW team \in SUBSET Pikmin, CanReserve(h, t, team)
      PROVE  \A u \in Task :
        /\ UnsentTeam(Reserve(h, t, team), u) = IF u = t THEN team ELSE UnsentTeam(h, u)
        /\ UnsentTeam(Cancel(Reserve(h, t, team), {t}), u) =
              IF u = t THEN {} ELSE UnsentTeam(h, u)
        /\ UnsentTeam(Cancel(Sent(Reserve(h, t, team), t), {t}), u) =
              IF u = t THEN {} ELSE UnsentTeam(h, u)
  <2>1. Reserve(h, t, team) \in Ledger
    BY <1>1, ReserveType
  <2>2. Sent(Reserve(h, t, team), t) \in Ledger
    BY <2>1, SentType
  <2>3. \A u \in Task :
          UnsentTeam(Reserve(h, t, team), u) = IF u = t THEN team ELSE UnsentTeam(h, u)
    BY <1>1, <1>6, ReserveUnsent
  <2>4. QED
    BY <2>1, <2>2, <2>3, CancelUnsent, SentUnsent
<1>7. \A u \in Task : Without(picks, {t})[u] = IF u = t THEN NoSelection ELSE picks[u]
  BY DEF Without
<1> HIDE DEF h
<1>8. \A u \in Task : UnsentTeam(h, u) = IF u = settling.id THEN settling.team ELSE picks[u].team
  BY <1>2 DEF SelectionInv, LeaseDiscipline
<1>9. settling.id # NoTask => settling.id \in Task
  BY DEF TypeOK
(* Only the expedition of this visit loses its selection. *)
<1>10. ASSUME /\ holds' = h
              /\ UNCHANGED <<picks, settling>>
              /\ scan'.on = scan.on /\ scan'.mode = scan.mode
       PROVE  SelectionInv'
  BY <1>8, <1>10 DEF SelectionInv, LeaseDiscipline, Pending
<1>11. ASSUME /\ \A u \in Task : UnsentTeam(holds', u) = IF u = t THEN {} ELSE UnsentTeam(h, u)
              /\ picks' = Without(picks, {t}) /\ settling' = settling
              /\ settling.id # t
              /\ scan'.on = scan.on /\ scan'.mode = scan.mode
       PROVE  SelectionInv'
  <2>1. \A u \in Task : picks'[u].team = IF u = t THEN {} ELSE picks[u].team
    <3>1. \A u \in Task : picks'[u] = IF u = t THEN NoSelection ELSE picks[u]
      BY <1>7, <1>11
    <3>2. NoSelection.team = {}
      BY DEF NoSelection
    <3>3. QED
      BY <3>1, <3>2
  <2>2. ASSUME NEW u \in Task
        PROVE  UnsentTeam(holds', u) =
                 IF u = settling'.id THEN settling'.team ELSE picks'[u].team
    <3>1. CASE u = t
      BY <1>11, <2>1, <3>1
    <3>2. CASE u # t
      BY <1>8, <1>11, <2>1, <3>2
    <3>3. QED
      BY <3>1, <3>2
  <2>3. Pending' \subseteq Pending
    BY <2>1 DEF Pending
  <2>4. QED
    BY <1>9, <1>11, <2>1, <2>2, <2>3 DEF SelectionInv, LeaseDiscipline
<1>12. ASSUME /\ \A u \in Task : UnsentTeam(holds', u) = IF u = t THEN {} ELSE UnsentTeam(h, u)
              /\ picks' = picks /\ settling' = NotSettling
              /\ settling.id = t
              /\ scan'.on = scan.on /\ scan'.mode = scan.mode
       PROVE  SelectionInv'
  BY <1>8, <1>12, NoTaskAssumption DEF SelectionInv, LeaseDiscipline, Pending, NotSettling
<1>13. ASSUME /\ \A u \in Task : UnsentTeam(holds', u) = IF u = t THEN {} ELSE UnsentTeam(h, u)
              /\ UNCHANGED <<picks, settling>>
              /\ settling.id = NoTask /\ picks[t].team = {}
              /\ scan'.on = scan.on /\ scan'.mode = scan.mode
       PROVE  SelectionInv'
  BY <1>8, <1>13, NoTaskAssumption DEF SelectionInv, LeaseDiscipline, Pending
(* The new selection finds no other. *)
<1>14. ASSUME NEW team \in SUBSET Pikmin, CanSelect(t, team, read)
       PROVE  settling.id = NoTask /\ picks[t].team = {} /\ CanReserve(h, t, team)
  BY <1>14 DEF CanSelect, PickedEarlier, BatchPending, SelectionInv, Pending, h
<1>15. CASE KeepSelection(t, read) \/ KeepSettling(t, read) \/ PassOver(t, read)
  BY <1>3, <1>10, <1>15 DEF KeepSelection, KeepSettling, PassOver, h
<1>16. CASE SubmitSelection(t, read) \/ DropSelection(t, read)
  <2>1. settling.id # t
    BY <1>16 DEF SubmitSelection, DropSelection, PickedEarlier, SelectionInv, Pending
  <2>2. QED
    BY <1>3, <1>4, <1>5, <1>11, <1>16, <2>1 DEF SubmitSelection, DropSelection, h
<1>17. CASE SubmitSettled(t, read) \/ DropSettled(t, read)
  BY <1>3, <1>4, <1>5, <1>12, <1>17 DEF SubmitSettled, DropSettled, h
<1>18. ASSUME NEW team \in SUBSET Pikmin,
              RejectTeam(t, team, read) \/ SelectFarm(t, team, read)
       PROVE  SelectionInv'
  <2>1. CanSelect(t, team, read)
    BY <1>18 DEF RejectTeam, SelectFarm
  <2>2. settling.id = NoTask /\ picks[t].team = {} /\ CanReserve(h, t, team)
    BY <1>14, <2>1
  <2>3. \A u \in Task : UnsentTeam(holds', u) = IF u = t THEN {} ELSE UnsentTeam(h, u)
    <3>1. CASE RejectTeam(t, team, read)
      BY <1>6, <2>2, <3>1 DEF RejectTeam, h
    <3>2. CASE SelectFarm(t, team, read)
      BY <1>6, <2>2, <3>2 DEF SelectFarm, h
    <3>3. QED
      BY <1>18, <3>1, <3>2
  <2>4. UNCHANGED <<picks, settling>> /\ scan'.on = scan.on /\ scan'.mode = scan.mode
    BY <1>3, <1>18 DEF RejectTeam, SelectFarm
  <2>5. QED
    BY <1>13, <2>2, <2>3, <2>4
<1>19. ASSUME NEW team \in SUBSET Pikmin, SelectNearby(t, team, read)
       PROVE  SelectionInv'
  <2>1. CanSelect(t, team, read)
    BY <1>19 DEF SelectNearby
  <2>2. \A u \in Task : picks'[u].team = IF u = t THEN team ELSE picks[u].team
    BY <1>19 DEF SelectNearby, TypeOK, Selection
  <2>3. \A u \in Task : UnsentTeam(holds', u) = IF u = t THEN team ELSE UnsentTeam(h, u)
    BY <1>6, <1>14, <1>19, <2>1 DEF SelectNearby, h
  <2>4. /\ settling' = settling /\ settling.id = NoTask
        /\ scan'.on = scan.on /\ scan'.mode = scan.mode /\ scan.mode \in Nearby
    BY <1>3, <1>14, <1>19, <2>1 DEF SelectNearby
  <2>5. QED
    BY <1>8, <2>2, <2>3, <2>4, NoTaskAssumption DEF SelectionInv, LeaseDiscipline
<1>20. ASSUME NEW team \in SUBSET Pikmin, SelectBatch(t, team, read)
       PROVE  SelectionInv'
  <2>1. CanSelect(t, team, read)
    BY <1>20 DEF SelectBatch
  <2>2. \A u \in Task : UnsentTeam(holds', u) = IF u = t THEN team ELSE UnsentTeam(h, u)
    BY <1>6, <1>14, <1>20, <2>1 DEF SelectBatch, h
  <2>3. /\ settling' = [id |-> t, team |-> team] /\ settling.id = NoTask /\ picks' = picks
        /\ scan'.on = scan.on /\ scan'.mode = scan.mode /\ scan.mode = "batch"
        /\ picks[t].team = {}
    BY <1>3, <1>14, <1>20, <2>1 DEF SelectBatch
  <2>4. QED
    BY <1>8, <2>2, <2>3, NoTaskAssumption DEF SelectionInv, LeaseDiscipline, Pending
<1>21. QED
  BY <1>15, <1>16, <1>17, <1>18, <1>19, <1>20 DEF VisitOpen

LEMMA VisitingOn ==
  ASSUME NEW t \in Task, NEW read \in SUBSET Pikmin, VisitOpen(t, read)
  PROVE  Visiting(t)
BY DEF VisitOpen, KeepSelection, SubmitSelection, DropSelection, KeepSettling, SubmitSettled,
       DropSettled, SelectNearby, SelectBatch, SelectFarm, RejectTeam, CanSelect, PassOver

LEMMA ScanEndSelection == TypeOK /\ SelectionInv /\ ScanEnd => SelectionInv'
<1> SUFFICES ASSUME TypeOK, SelectionInv, ScanEnd PROVE SelectionInv'
  OBVIOUS
<1>1. ASSUME NEW t \in Task
      PROVE  UnsentTeam(holds', t) = IF t \in Pending \cap Gone THEN {} ELSE UnsentTeam(holds, t)
  <2> DEFINE r == Reconcile(holds, Task \ Gone)
             c == Cancel(r, Pending \cap Gone)
  <2>1. r \in Ledger /\ UnsentTeam(r, t) = UnsentTeam(holds, t)
    BY ReconcileType, ReconcileUnsent DEF TypeOK
  <2>2. c \in Ledger
        /\ UnsentTeam(c, t) = IF t \in Pending \cap Gone THEN {} ELSE UnsentTeam(r, t)
    BY <2>1, CancelType, CancelUnsent
  <2>3. holds' = Aged(c)
    BY DEF ScanEnd
  <2> HIDE DEF r, c
  <2>4. QED
    BY <2>1, <2>2, <2>3, AgedUnsent
<1>2. \A t \in Task : picks'[t].team = IF t \in Gone THEN {} ELSE picks[t].team
  <2>1. \A t \in Task : picks'[t] = IF t \in Gone THEN NoSelection ELSE picks[t]
    BY DEF ScanEnd, Without
  <2>2. NoSelection.team = {}
    BY DEF NoSelection
  <2>3. QED
    BY <2>1, <2>2
<1>3. settling' = settling /\ ~scan'.on
  BY DEF ScanEnd, NoScan
<1>4. ASSUME NEW t \in Task
      PROVE  UnsentTeam(holds', t) = IF t = settling'.id THEN settling'.team ELSE picks'[t].team
  <2>1. UnsentTeam(holds, t) = IF t = settling.id THEN settling.team ELSE picks[t].team
    BY DEF SelectionInv, LeaseDiscipline
  <2>2. CASE t = settling.id
    <3>1. t \notin Pending
      BY <2>2, NoTaskAssumption DEF SelectionInv, Pending
    <3>2. QED
      BY <1>1, <1>3, <2>1, <2>2, <3>1
  <2>3. CASE t # settling.id
    BY <1>1, <1>2, <1>3, <2>1, <2>3 DEF Pending
  <2>4. QED
    BY <2>2, <2>3
<1>5. settling.id # NoTask => settling.id \in Task
  BY DEF TypeOK
<1>6. QED
  BY <1>2, <1>3, <1>4, <1>5 DEF SelectionInv, LeaseDiscipline

(* Nothing else touches the ledger or the selections, but a restart. *)
LEMMA SelectionStutter ==
  ASSUME SelectionInv, UNCHANGED <<holds, picks, settling>>,
         scan'.on = scan.on /\ scan'.mode = scan.mode
  PROVE  SelectionInv'
BY DEF SelectionInv, LeaseDiscipline, Pending

LEMMA RestartSelection == Restart /\ SelectionInv => SelectionInv'
<1> SUFFICES ASSUME Restart PROVE SelectionInv'
  OBVIOUS
<1>1. \A t \in Task : UnsentTeam(holds', t) = {}
  BY EmptyLedgerFacts DEF Restart
<1>2. \A t \in Task : picks'[t].team = {}
  BY DEF Restart, NoSelection
<1>3. settling'.id = NoTask /\ settling'.team = {} /\ ~scan'.on
  BY DEF Restart, NotSettling
<1>4. QED
  BY <1>1, <1>2, <1>3 DEF SelectionInv, LeaseDiscipline

LEMMA NextSelection == TypeOK /\ SelectionInv /\ [Next]_vars => SelectionInv'
<1> SUFFICES ASSUME TypeOK, SelectionInv, [Next]_vars PROVE SelectionInv'
  OBVIOUS
<1> USE DEF vars, control, memory, remote, view
<1>1. CASE Module
  <2>1. ASSUME NEW t \in Task, VisitUnderway(t)
        PROVE  SelectionInv'
    <3>1. scan'.on = scan.on /\ scan'.mode = scan.mode
      BY <2>1 DEF VisitUnderway, Visited, TypeOK, Scan
    <3>2. QED
      BY <2>1, <3>1, SelectionStutter DEF VisitUnderway
  <2>2. ASSUME NEW t \in Task, NEW read \in SUBSET Pikmin, VisitOpen(t, read)
        PROVE  SelectionInv'
    BY <2>2, VisitOpenSelection, VisitingOn DEF Visiting
  <2>3. CASE PollPending
    BY <2>3, SelectionStutter DEF PollPending
  <2>4. ASSUME NEW over, NEW faulted, PollArmed(over, faulted)
        PROVE  SelectionInv'
    BY <2>4, SelectionStutter DEF PollArmed
  <2>5. QED
    BY <1>1, <2>1, <2>2, <2>3, <2>4, ScanBeginSelection, ScanEndSelection DEF Module, Visit
<1>2. CASE World
  <2>1. CASE Restart
    BY <2>1, RestartSelection
  <2>2. CASE ~Restart
    <3>1. UNCHANGED <<holds, picks, settling, scan>>
      BY <1>2, <2>2 DEF World, Control, GateReset, Accept, Refuse, Leave, PlayerStarts, Appear,
                        RefreshTask, PlayerSends, PlayerReturns, RefreshPikmin
    <3>2. QED
      BY <3>1, SelectionStutter
  <2>3. QED
    BY <2>1, <2>2
<1>3. CASE UNCHANGED vars
  BY <1>3, SelectionStutter
<1>4. QED
  BY <1>1, <1>2, <1>3 DEF Next

(* The two kinds of selection exclude each other, a scan finds only those  *)
(* of its own mode, and each holds its whole team.                         *)
THEOREM SelectionsConsistent == Spec => []SelectionInv
<1>1. Init => SelectionInv
  BY InitSelection
<1>2. TypeOK /\ SelectionInv /\ [Next]_vars => SelectionInv'
  BY NextSelection
<1>3. QED
  BY <1>1, <1>2, TypeCorrect, PTL DEF Spec

(* Every selection keeps its whole team, and no reset, timeout, mode       *)
(* change or failed start leaves an orphan hold.                           *)
THEOREM LeaseDisciplined == Spec => []LeaseDiscipline
<1>1. SelectionInv => LeaseDiscipline
  BY DEF SelectionInv
<1>2. QED
  BY <1>1, SelectionsConsistent, PTL

-----------------------------------------------------------------------------
(* Batch and gifts *)

LEMMA BatchInit == Init => BatchOneAtATime
BY DEF Init, BatchOneAtATime

LEMMA VisitOpenBatch ==
  ASSUME TypeOK, BatchOneAtATime, NEW t \in Task, NEW read \in SUBSET Pikmin,
         VisitOpen(t, read)
  PROVE  BatchOneAtATime'
<1>1. ASSUME NEW team \in SUBSET Pikmin, SelectBatch(t, team, read)
      PROVE  lock = NoTask /\ lock' = lock
  BY <1>1 DEF SelectBatch, CanSelect, ArmedCapacity, BatchCapacity, Armed
<1>2. ASSUME NEW team \in SUBSET Pikmin,
             \/ SelectNearby(t, team, read) \/ SelectFarm(t, team, read)
             \/ RejectTeam(t, team, read)
      PROVE  UNCHANGED <<lock, settling>>
  BY <1>2 DEF SelectNearby, SelectFarm, RejectTeam
<1>3. CASE SubmitSettled(t, read) \/ DropSettled(t, read)
  BY <1>3 DEF SubmitSettled, DropSettled, BatchOneAtATime
<1>4. CASE \/ KeepSelection(t, read) \/ SubmitSelection(t, read) \/ DropSelection(t, read)
           \/ KeepSettling(t, read) \/ PassOver(t, read)
  BY <1>4 DEF KeepSelection, SubmitSelection, DropSelection, KeepSettling, PassOver,
              BatchOneAtATime
<1>5. QED
  BY <1>1, <1>2, <1>3, <1>4 DEF VisitOpen, BatchOneAtATime

LEMMA NextBatch == TypeOK /\ BatchOneAtATime /\ [Next]_vars => BatchOneAtATime'
<1> SUFFICES ASSUME TypeOK, BatchOneAtATime, [Next]_vars PROVE BatchOneAtATime'
  OBVIOUS
<1> USE DEF vars, control, memory, remote, view, BatchOneAtATime
<1>1. CASE ScanBegin
  BY <1>1 DEF ScanBegin, BeginScan
<1>2. ASSUME NEW t \in Task, VisitUnderway(t)
      PROVE  BatchOneAtATime'
  BY <1>2 DEF VisitUnderway
<1>3. ASSUME NEW t \in Task, NEW read \in SUBSET Pikmin, VisitOpen(t, read)
      PROVE  BatchOneAtATime'
  BY <1>3, VisitOpenBatch
<1>4. CASE ScanEnd
  BY <1>4 DEF ScanEnd
<1>5. CASE PollPending
  BY <1>5 DEF PollPending
<1>6. ASSUME NEW over, NEW faulted, PollArmed(over, faulted)
      PROVE  BatchOneAtATime'
  BY <1>6 DEF PollArmed
<1>7. CASE Restart
  BY <1>7 DEF Restart
<1>8. CASE World /\ ~Restart
  BY <1>8 DEF World, Control, GateReset, Accept, Refuse, Leave, PlayerStarts, Appear,
              RefreshTask, PlayerSends, PlayerReturns, RefreshPikmin
<1>9. CASE UNCHANGED vars
  BY <1>9
<1>10. QED
  BY <1>1, <1>2, <1>3, <1>4, <1>5, <1>6, <1>7, <1>8, <1>9 DEF Next, Module, Visit

(* Batch settles no second expedition before the first is confirmed. *)
THEOREM BatchOneAtATimeHolds == Spec => []BatchOneAtATime
BY BatchInit, NextBatch, TypeCorrect, PTL DEF Spec

(* What a visit sends is eligible: for a gift, its designated Pikmin. *)
LEMMA SentIsEligible ==
  ASSUME NEW t \in Task, NEW read \in SUBSET Pikmin, VisitOpen(t, read)
  PROVE  \/ UNCHANGED <<unanswered, crew>>
         \/ \E shown \in SUBSET Eligible(t, read) : StartExpedition(t, shown)
<1>1. CASE SubmitSelection(t, read)
  <2>1. PICK shown \in SUBSET Pikmin : SafeToStart(t, shown, read) /\ SubmitArmed(t, shown)
    BY <1>1 DEF SubmitSelection
  <2>2. shown \in SUBSET Eligible(t, read) /\ StartExpedition(t, shown)
    BY <2>1 DEF SafeToStart, SelectedTeamMatches, SubmitArmed
  <2>3. QED
    BY <2>2
<1>2. CASE SubmitSettled(t, read)
  <2>1. PICK shown \in SUBSET Pikmin :
          SettledGate(t, shown, read) /\ StartExpedition(t, shown)
    BY <1>2 DEF SubmitSettled
  <2>2. shown \in SUBSET Eligible(t, read)
    BY <2>1 DEF SettledGate, SelectedTeamMatches
  <2>3. QED
    BY <2>1, <2>2
<1>3. ASSUME NEW team \in SUBSET Pikmin, SelectFarm(t, team, read)
      PROVE  \E shown \in SUBSET Eligible(t, read) : StartExpedition(t, shown)
  <2>1. PICK shown \in SUBSET Pikmin : SelectedTeamMatches(shown, team) /\ SubmitArmed(t, shown)
    BY <1>3 DEF SelectFarm
  <2>2. shown \in SUBSET Eligible(t, read) /\ StartExpedition(t, shown)
    BY <1>3, <2>1 DEF SelectFarm, CanSelect, SelectedTeamMatches, SubmitArmed
  <2>3. QED
    BY <2>2
<1>4. ASSUME NEW team \in SUBSET Pikmin,
             \/ SelectNearby(t, team, read) \/ SelectBatch(t, team, read)
             \/ RejectTeam(t, team, read)
      PROVE  UNCHANGED <<unanswered, crew>>
  BY <1>4 DEF SelectNearby, SelectBatch, RejectTeam, remote
<1>5. CASE \/ KeepSelection(t, read) \/ DropSelection(t, read)
           \/ KeepSettling(t, read) \/ DropSettled(t, read) \/ PassOver(t, read)
  BY <1>5 DEF KeepSelection, DropSelection, KeepSettling, DropSettled, PassOver, remote
<1>6. QED
  BY <1>1, <1>2, <1>3, <1>4, <1>5 DEF VisitOpen

LEMMA NextGift == TypeOK /\ GiftOnlyOwner /\ [Next]_vars => GiftOnlyOwner'
<1> SUFFICES ASSUME TypeOK, GiftOnlyOwner, [Next]_vars PROVE GiftOnlyOwner'
  OBVIOUS
<1>1. ASSUME NEW t \in Task, NEW read \in SUBSET Pikmin, VisitOpen(t, read)
      PROVE  GiftOnlyOwner'
  <2>1. CASE UNCHANGED crew
    BY <2>1 DEF GiftOnlyOwner
  <2>2. ASSUME NEW shown \in SUBSET Eligible(t, read), StartExpedition(t, shown)
        PROVE  GiftOnlyOwner'
    <3>1. t \in Gift => shown \subseteq {Owner[t]}
      BY DEF Eligible
    <3>2. crew' = [crew EXCEPT ![t] = shown]
      BY <2>2 DEF StartExpedition
    <3>3. QED
      BY <3>1, <3>2 DEF GiftOnlyOwner, TypeOK
  <2>3. QED
    BY <1>1, <2>1, <2>2, SentIsEligible
<1>2. ASSUME NEW t \in Task, Refuse(t) \/ Leave(t)
      PROVE  GiftOnlyOwner'
  BY <1>2 DEF Refuse, Leave, GiftOnlyOwner, TypeOK
<1>3. CASE ScanBegin \/ ScanEnd \/ PollPending
  BY <1>3 DEF ScanBegin, BeginScan, ScanEnd, PollPending, remote, GiftOnlyOwner
<1>4. ASSUME NEW over, NEW faulted, PollArmed(over, faulted)
      PROVE  GiftOnlyOwner'
  BY <1>4 DEF PollArmed, remote, GiftOnlyOwner
<1>5. ASSUME NEW t \in Task, VisitUnderway(t)
      PROVE  GiftOnlyOwner'
  BY <1>5 DEF VisitUnderway, remote, GiftOnlyOwner
<1>6. CASE World /\ UNCHANGED crew
  BY <1>6 DEF GiftOnlyOwner
<1>7. CASE World /\ ~\E t \in Task : Refuse(t) \/ Leave(t)
  <2>1. UNCHANGED crew
    BY <1>7 DEF World, Control, GateReset, Accept, PlayerStarts, Appear, RefreshTask,
                PlayerSends, PlayerReturns, RefreshPikmin, Restart, remote
  <2>2. QED
    BY <1>6, <1>7, <2>1
<1>8. CASE UNCHANGED vars
  BY <1>8 DEF vars, remote, GiftOnlyOwner
<1>9. QED
  BY <1>1, <1>2, <1>3, <1>4, <1>5, <1>7, <1>8 DEF Next, Module, Visit

(* Only the Pikmin a gift designates is ever sent for it. *)
THEOREM GiftOnlyOwnerHolds == Spec => []GiftOnlyOwner
<1>1. Init => GiftOnlyOwner
  BY DEF Init, GiftOnlyOwner
<1>2. QED
  BY <1>1, NextGift, TypeCorrect, PTL DEF Spec

-----------------------------------------------------------------------------
(* The limit of kArmedMaxInFlight *)

LEMMA FiniteCounts ==
  /\ \A S \in SUBSET Task : IsFiniteSet(S) /\ Cardinality(S) \in Nat
  /\ \A S, T \in SUBSET Task : S \subseteq T => Cardinality(S) <= Cardinality(T)
  /\ \A S \in SUBSET Task, t \in Task :
       /\ Cardinality(S \cup {t}) <= Cardinality(S) + 1
       /\ t \in S => Cardinality(S \ {t}) = Cardinality(S) - 1
<1>1. \A S \in SUBSET Task : IsFiniteSet(S)
  BY FS_Subset
<1>2. \A S \in SUBSET Task : Cardinality(S) \in Nat
  BY <1>1, FS_CardinalityType
<1>3. \A S, T \in SUBSET Task : S \subseteq T => Cardinality(S) <= Cardinality(T)
  BY <1>1, FS_Subset
<1>4. ASSUME NEW S \in SUBSET Task, NEW t \in Task
      PROVE  Cardinality(S \cup {t}) <= Cardinality(S) + 1
  <2>1. Cardinality(S \cup {t}) = IF t \in S THEN Cardinality(S) ELSE Cardinality(S) + 1
    BY <1>1, FS_AddElement
  <2>2. QED
    BY <1>2, <2>1
<1>5. ASSUME NEW S \in SUBSET Task, NEW t \in S
      PROVE  Cardinality(S \ {t}) = Cardinality(S) - 1
  BY <1>1, FS_RemoveElement
<1>6. QED
  BY <1>1, <1>2, <1>3, <1>4, <1>5

(* Fewer selections and fewer requests keep the bound. *)
LEMMA FewerInFlight ==
  ASSUME InFlightBound, InFlight' \subseteq InFlight, Pending' \subseteq Pending
  PROVE  InFlightBound'
<1>1. /\ InFlight \in SUBSET Task /\ Pending \in SUBSET Task
      /\ InFlight' \in SUBSET Task /\ Pending' \in SUBSET Task
  BY DEF InFlight, Pending
<1> DEFINE i == Cardinality(InFlight)
           j == Cardinality(Pending)
<1>2. /\ i \in Nat /\ j \in Nat /\ i' \in Nat /\ j' \in Nat
      /\ i' <= i /\ j' <= j
  BY <1>1, FiniteCounts
<1>3. i + j <= MaxInFlight
  BY DEF InFlightBound
<1>4. i' + j' <= MaxInFlight
  BY <1>2, <1>3
<1>5. QED
  BY <1>4 DEF InFlightBound, i, j

LEMMA SubmitArmedInFlight ==
  ASSUME TypeOK, NEW t \in Task, NEW shown, SubmitArmed(t, shown)
  PROVE  InFlight' = InFlight \cup {t}
BY DEF TypeOK, SubmitArmed, InFlight

LEMMA VisitOpenBound ==
  ASSUME TypeOK, SelectionInv, InFlightBound, NEW t \in Task, NEW read \in SUBSET Pikmin,
         VisitOpen(t, read)
  PROVE  InFlightBound'
<1>1. /\ InFlight \in SUBSET Task /\ Pending \in SUBSET Task
      /\ InFlight' \in SUBSET Task /\ Pending' \in SUBSET Task
  BY DEF InFlight, Pending
<1> DEFINE i == Cardinality(InFlight)
           j == Cardinality(Pending)
<1>2. /\ i \in Nat /\ j \in Nat /\ i' \in Nat /\ j' \in Nat
      /\ i + j <= MaxInFlight
  BY <1>1, FiniteCounts DEF InFlightBound
<1>3. i' + j' <= MaxInFlight => InFlightBound'
  BY DEF InFlightBound
(* The armed expedition takes the place of its selection. *)
<1>4. CASE SubmitSelection(t, read)
  <2>1. PICK shown \in SUBSET Pikmin : SubmitArmed(t, shown)
    BY <1>4 DEF SubmitSelection
  <2>2. InFlight' = InFlight \cup {t}
    BY <2>1, SubmitArmedInFlight
  <2>3. t \in Pending /\ Pending' = Pending \ {t}
    BY <1>4 DEF SubmitSelection, PickedEarlier, Pending, Without, NoSelection
  <2>4. i' <= i + 1 /\ j' = j - 1
    BY <1>1, <2>2, <2>3, FiniteCounts
  <2>5. QED
    BY <1>2, <1>3, <2>4
<1>5. ASSUME NEW team \in SUBSET Pikmin, SelectNearby(t, team, read)
      PROVE  InFlightBound'
  <2>1. i + j < MaxInFlight
    BY <1>5 DEF SelectNearby, CanSelect, ArmedCapacity, BatchCapacity, Nearby
  <2>2. InFlight' = InFlight
    BY <1>5 DEF SelectNearby, InFlight
  <2>3. Pending' \subseteq Pending \cup {t}
    BY <1>5 DEF SelectNearby, Pending, TypeOK
  <2>4. i' = i /\ j' <= j + 1
    <3>1. Cardinality(Pending') <= Cardinality(Pending \cup {t})
      BY <1>1, <2>3, FiniteCounts
    <3>2. Cardinality(Pending \cup {t}) <= j + 1 /\ Cardinality(Pending \cup {t}) \in Nat
      BY <1>1, FiniteCounts
    <3>3. i' = i
      BY <2>2
    <3>4. QED
      BY <1>2, <3>1, <3>2, <3>3
  <2>5. QED
    BY <1>2, <1>3, <2>1, <2>4
(* Outside the nearby modes there is no selection to count. *)
<1>6. ASSUME NEW team \in SUBSET Pikmin, SelectFarm(t, team, read)
      PROVE  InFlightBound'
  <2>1. PICK shown \in SUBSET Pikmin : SubmitArmed(t, shown)
    BY <1>6 DEF SelectFarm
  <2>2. InFlight' = InFlight \cup {t}
    BY <2>1, SubmitArmedInFlight
  <2>3. Visiting(t) /\ scan.mode = "farm" /\ Pending' = Pending
    BY <1>6 DEF SelectFarm, CanSelect, Pending
  <2>4. Pending = {}
    BY <2>3 DEF SelectionInv, Visiting, Nearby
  <2>5. i < MaxInFlight
    BY <1>6, <2>3 DEF SelectFarm, CanSelect, ArmedCapacity, BatchCapacity
  <2>6. i' <= i + 1 /\ j' = 0
    BY <1>1, <2>2, <2>3, <2>4, FiniteCounts, FS_EmptySet
  <2>7. QED
    BY <1>2, <1>3, <2>5, <2>6
<1>7. ASSUME NEW team \in SUBSET Pikmin, SelectBatch(t, team, read) \/ RejectTeam(t, team, read)
      PROVE  InFlightBound'
  BY <1>7, FewerInFlight DEF SelectBatch, RejectTeam, InFlight, Pending
<1>8. CASE KeepSelection(t, read) \/ DropSelection(t, read)
  BY <1>8, FewerInFlight DEF KeepSelection, DropSelection, InFlight, Pending, Without, NoSelection
<1>9. CASE \/ KeepSettling(t, read) \/ SubmitSettled(t, read) \/ DropSettled(t, read)
           \/ PassOver(t, read)
  BY <1>9, FewerInFlight
     DEF KeepSettling, SubmitSettled, DropSettled, PassOver, InFlight, Pending
<1>10. QED
  BY <1>4, <1>5, <1>6, <1>7, <1>8, <1>9 DEF VisitOpen

LEMMA NextBound ==
  TypeOK /\ SelectionInv /\ InFlightBound /\ [Next]_vars => InFlightBound'
<1> SUFFICES ASSUME TypeOK, SelectionInv, InFlightBound, [Next]_vars PROVE InFlightBound'
  OBVIOUS
<1>1. CASE ScanBegin
  <2>1. InFlight' \subseteq InFlight /\ Pending' \subseteq Pending
    BY <1>1 DEF ScanBegin, BeginScan, InFlight, Pending, Without, NoSelection
  <2>2. QED
    BY <2>1, FewerInFlight
<1>2. ASSUME NEW t \in Task, VisitUnderway(t)
      PROVE  InFlightBound'
  BY <1>2, FewerInFlight DEF VisitUnderway, InFlight, Pending, TypeOK
<1>3. ASSUME NEW t \in Task, NEW read \in SUBSET Pikmin, VisitOpen(t, read)
      PROVE  InFlightBound'
  BY <1>3, VisitOpenBound
<1>4. CASE ScanEnd
  <2>1. InFlight' \subseteq InFlight /\ Pending' \subseteq Pending
    BY <1>4 DEF ScanEnd, InFlight, Pending, Without, NoSelection
  <2>2. QED
    BY <2>1, FewerInFlight
<1>5. ASSUME NEW over, NEW faulted, PollArmed(over, faulted)
      PROVE  InFlightBound'
  <2>1. InFlight' \subseteq InFlight /\ Pending' \subseteq Pending
    BY <1>5 DEF PollArmed, InFlight, Pending
  <2>2. QED
    BY <2>1, FewerInFlight
<1>6. CASE Restart
  <2>1. InFlight' = {} /\ Pending' = {}
    BY <1>6 DEF Restart, InFlight, Pending, NoSelection
  <2>2. QED
    BY <2>1, FewerInFlight
<1>7. CASE PollPending \/ (World /\ ~Restart) \/ UNCHANGED vars
  <2>1. UNCHANGED <<inflight, picks>>
    BY <1>7 DEF PollPending, World, Control, GateReset, Accept, Refuse, Leave, PlayerStarts,
                Appear, RefreshTask, PlayerSends, PlayerReturns, RefreshPikmin, vars, memory
  <2>2. QED
    BY <2>1, FewerInFlight DEF InFlight, Pending
<1>8. QED
  BY <1>1, <1>2, <1>3, <1>4, <1>5, <1>6, <1>7 DEF Next, Module, Visit

(* Selected and sent expeditions never exceed kArmedMaxInFlight. *)
THEOREM InFlightBounded == Spec => []InFlightBound
<1>1. Init => InFlightBound
  <2> SUFFICES ASSUME Init PROVE InFlightBound
    OBVIOUS
  <2>1. InFlight = {} /\ Pending = {}
    BY DEF Init, InFlight, Pending, NoSelection
  <2>2. QED
    BY <2>1, FS_EmptySet DEF InFlightBound
<1>2. Init => SelectionInv
  BY InitSelection
<1>3. TypeOK /\ SelectionInv /\ [Next]_vars => SelectionInv'
  BY NextSelection
<1>4. QED
  BY <1>1, <1>2, <1>3, NextBound, TypeCorrect, PTL DEF Spec

-----------------------------------------------------------------------------
(* What is sent is what was selected, and still stands *)

Stands(t) ==
  /\ \A p \in crew'[t] : status[p] = "available"
  /\ SelectedTeam(t) # {} => crew'[t] = SelectedTeam(t)
  /\ t \in Pending => mode = scan.mode /\ picks[t].epoch = epoch[GateOf(mode)]

(* A visit sends for its own expedition only. *)
LEMMA StartsOne ==
  ASSUME TypeOK, NEW t \in Task, NEW shown, StartExpedition(t, shown)
  PROVE  /\ crew'[t] = shown
         /\ \A u \in Task : unanswered'[u] > unanswered[u] => u = t
BY DEF StartExpedition, TypeOK

LEMMA VisitOpenStands ==
  ASSUME TypeOK, SelectionInv, NEW t \in Task, NEW read \in SUBSET Pikmin, VisitOpen(t, read),
         NEW u \in Task, unanswered'[u] > unanswered[u]
  PROVE  Stands(u)
<1>1. CASE SubmitSelection(t, read)
  <2>1. PICK shown \in SUBSET Pikmin : SafeToStart(t, shown, read) /\ SubmitArmed(t, shown)
    BY <1>1 DEF SubmitSelection
  <2>2. u = t /\ crew'[t] = shown
    BY <2>1, StartsOne DEF SubmitArmed
  <2>3. t \in Pending /\ settling.id # t
    BY <1>1 DEF SubmitSelection, PickedEarlier, SelectionInv, Pending
  <2>4. shown = picks[t].team /\ shown \subseteq Eligible(t, read)
    BY <2>1 DEF SafeToStart, SelectedTeamMatches
  <2>5. mode = scan.mode /\ picks[t].epoch = epoch[GateOf(mode)]
    BY <2>1 DEF SafeToStart
  <2>6. QED
    BY <2>2, <2>3, <2>4, <2>5 DEF Stands, SelectedTeam, Eligible
<1>2. CASE SubmitSettled(t, read)
  <2>1. PICK shown \in SUBSET Pikmin : SettledGate(t, shown, read) /\ StartExpedition(t, shown)
    BY <1>2 DEF SubmitSettled
  <2>2. u = t /\ crew'[t] = shown
    BY <2>1, StartsOne
  <2>3. settling.id = t /\ t \notin Pending
    BY <1>2 DEF SubmitSettled, BatchPending, SelectionInv, Pending
  <2>4. shown = settling.team /\ shown \subseteq Eligible(t, read)
    BY <2>1 DEF SettledGate, SelectedTeamMatches
  <2>5. QED
    BY <2>2, <2>3, <2>4 DEF Stands, SelectedTeam, Eligible
(* The flower farm has no selection that waits. *)
<1>3. ASSUME NEW team \in SUBSET Pikmin, SelectFarm(t, team, read)
      PROVE  Stands(u)
  <2>1. PICK shown \in SUBSET Pikmin : SelectedTeamMatches(shown, team) /\ SubmitArmed(t, shown)
    BY <1>3 DEF SelectFarm
  <2>2. u = t /\ crew'[t] = shown
    BY <2>1, StartsOne DEF SubmitArmed
  <2>3. scan.on /\ scan.mode = "farm" /\ team \subseteq Eligible(t, read)
    BY <1>3 DEF SelectFarm, CanSelect, Visiting
  <2>4. t \notin Pending /\ settling.id = NoTask
    BY <2>3 DEF SelectionInv, Nearby
  <2>5. SelectedTeam(t) = {}
    BY <2>4 DEF SelectedTeam, Pending
  <2>6. QED
    BY <2>1, <2>2, <2>3, <2>4, <2>5 DEF Stands, Eligible, SelectedTeamMatches
<1>4. ASSUME NEW team \in SUBSET Pikmin,
             SelectNearby(t, team, read) \/ SelectBatch(t, team, read) \/ RejectTeam(t, team, read)
      PROVE  FALSE
  BY <1>4 DEF SelectNearby, SelectBatch, RejectTeam, remote, TypeOK
<1>5. CASE \/ KeepSelection(t, read) \/ DropSelection(t, read) \/ KeepSettling(t, read)
           \/ DropSettled(t, read) \/ PassOver(t, read)
  BY <1>5 DEF KeepSelection, DropSelection, KeepSettling, DropSettled, PassOver, remote, TypeOK
<1>6. QED
  BY <1>1, <1>2, <1>3, <1>4, <1>5 DEF VisitOpen

(* Only a visit sends. *)
LEMMA NextStands ==
  ASSUME TypeOK, SelectionInv, [Next]_vars, NEW u \in Task, unanswered'[u] > unanswered[u]
  PROVE  Stands(u)
<1>1. ASSUME NEW t \in Task, NEW read \in SUBSET Pikmin, VisitOpen(t, read)
      PROVE  Stands(u)
  BY <1>1, VisitOpenStands
<1>2. CASE ScanBegin \/ ScanEnd \/ PollPending \/ \E t \in Task : VisitUnderway(t)
  <2>1. unanswered' = unanswered
    <3>1. ASSUME NEW ready, NEW old, NEW hidden, BeginScan(ready, old, hidden)
          PROVE  UNCHANGED remote
      BY <3>1 DEF BeginScan
    <3>2. UNCHANGED remote
      BY <1>2, <3>1 DEF ScanBegin, ScanEnd, PollPending, VisitUnderway
    <3>3. QED
      BY <3>2 DEF remote
  <2>2. QED
    BY <2>1 DEF TypeOK
<1>3. ASSUME NEW over, NEW faulted, PollArmed(over, faulted) PROVE FALSE
  BY <1>3 DEF PollArmed, remote, TypeOK
<1>4. ASSUME NEW t \in Task, Accept(t) \/ Refuse(t) PROVE FALSE
  BY <1>4 DEF Accept, Refuse, TypeOK
<1>5. CASE World /\ ~(\E t \in Task : Accept(t) \/ Refuse(t))
  <2>1. unanswered' = unanswered
    BY <1>5 DEF World, Control, GateReset, Leave, PlayerStarts, Appear, RefreshTask, PlayerSends,
                PlayerReturns, RefreshPikmin, Restart, remote
  <2>2. QED
    BY <2>1 DEF TypeOK
<1>6. CASE UNCHANGED vars
  BY <1>6 DEF vars, remote, TypeOK
<1>7. QED
  BY <1>1, <1>2, <1>3, <1>4, <1>5, <1>6 DEF Next, Module, Visit

(* A selection is sent as it was made, with members that are still         *)
(* available and, nearby, in its scan's mode and under an unbroken gate.   *)
THEOREM SentAsSelectedHolds == Spec => SentAsSelected
<1>1. TypeOK /\ SelectionInv /\ [Next]_vars =>
        [\A t \in Task : unanswered'[t] > unanswered[t] =>
           /\ \A p \in crew'[t] : status[p] = "available"
           /\ SelectedTeam(t) # {} => crew'[t] = SelectedTeam(t)
           /\ t \in Pending => mode = scan.mode /\ picks[t].epoch = epoch[GateOf(mode)]]_vars
  <2> SUFFICES ASSUME TypeOK, SelectionInv, [Next]_vars, NEW t \in Task,
                      unanswered'[t] > unanswered[t]
               PROVE  /\ \A p \in crew'[t] : status[p] = "available"
                      /\ SelectedTeam(t) # {} => crew'[t] = SelectedTeam(t)
                      /\ t \in Pending => mode = scan.mode /\ picks[t].epoch = epoch[GateOf(mode)]
    OBVIOUS
  <2>1. Stands(t)
    BY NextStands
  <2>2. QED
    BY <2>1 DEF Stands
<1>2. QED
  BY <1>1, SelectionsConsistent, TypeCorrect, PTL DEF Spec, SentAsSelected
=============================================================================
