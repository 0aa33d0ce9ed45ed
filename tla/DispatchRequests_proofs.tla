----------------------- MODULE DispatchRequests_proofs -----------------------
(***************************************************************************)
(* No Pikmin and no expedition is asked for twice, for any number of       *)
(* expeditions, Pikmin and modes.  The argument is RequestInv: the ledger  *)
(* holds the team of a request until the server has decided.  By the same  *)
(* invariant Dispatch implements ExpeditionLease.                          *)
(***************************************************************************)
EXTENDS Dispatch_proofs

(* The names Dispatch gives its groups of variables. *)
USE DEF control, memory, remote, view

-----------------------------------------------------------------------------
(* A visit and the ledger *)

(* A visit to t keeps what is held, leaves alone what looks busy, and sends *)
(* nothing for another expedition.                                          *)
Kept(t) ==
  \A p \in Pikmin :
    /\ \A u \in Task : Held(u, p) =>
         /\ holds'[p].owner = u /\ holds'[p].sent
         /\ holds'[p].saw_busy => status[p] = "busy"
    /\ holds[p].owner = NoTask /\ status[p] = "busy" => holds'[p].owner = NoTask
    /\ holds'[p].sent /\ holds'[p].owner # t =>
         holds[p].sent /\ holds[p].owner = holds'[p].owner

LEMMA ObservedKeeps ==
  ASSUME TypeOK, Regular(holds), NEW read \in SUBSET Pikmin
  PROVE  /\ Observed(read) \in Ledger /\ Regular(Observed(read))
         /\ \A p \in Pikmin :
              /\ \A u \in Task : Held(u, p) =>
                   /\ Observed(read)[p].owner = u /\ Observed(read)[p].sent
                   /\ Observed(read)[p].saw_busy => status[p] = "busy"
              /\ holds[p].owner = NoTask => Observed(read)[p] = NoHold
              /\ ~holds[p].sent => Observed(read)[p] = holds[p]
              /\ Observed(read)[p].sent =>
                   holds[p].sent /\ holds[p].owner = Observed(read)[p].owner
<1> DEFINE busy      == {p \in read : status[p] = "busy"}
           available == {p \in read : status[p] = "available"}
           o         == Observe(holds, busy, available)
<1>1. Observed(read) = o
  BY DEF Observed
<1>2. holds \in Ledger
  BY DEF TypeOK
<1>3. o \in Ledger /\ Regular(o)
  BY <1>2, ObserveType, RegularKept
<1>4. ASSUME NEW p \in Pikmin, ~holds[p].sent
      PROVE  o[p] = holds[p]
  BY <1>4 DEF Observe
<1>5. ASSUME NEW p \in Pikmin, holds[p].sent, p \in busy
      PROVE  o[p].owner = holds[p].owner /\ o[p].sent /\ status[p] = "busy"
  <2>1. o[p] = [holds[p] EXCEPT !.saw_busy = TRUE] /\ holds[p] \in Hold
    BY <1>2, <1>5 DEF Observe, Ledger
  <2>2. QED
    BY <1>5, <2>1 DEF Hold
<1>6. ASSUME NEW p \in Pikmin, holds[p].sent, p \notin busy
      PROVE  \/ o[p] = holds[p]
             \/ o[p] = NoHold /\ holds[p].saw_busy /\ status[p] = "available"
  BY <1>6 DEF Observe
<1> HIDE DEF o, busy, available
<1>7. ASSUME NEW p \in Pikmin, NEW u \in Task, Held(u, p)
      PROVE  o[p].owner = u /\ o[p].sent /\ (o[p].saw_busy => status[p] = "busy")
  BY <1>5, <1>6, <1>7 DEF Held
<1>8. ASSUME NEW p \in Pikmin, holds[p].owner = NoTask
      PROVE  o[p] = NoHold
  <2>1. holds[p] = NoHold
    BY <1>8 DEF Regular
  <2>2. ~holds[p].sent
    BY <2>1 DEF NoHold
  <2>3. QED
    BY <1>4, <2>1, <2>2
<1>9. ASSUME NEW p \in Pikmin, o[p].sent
      PROVE  holds[p].sent /\ holds[p].owner = o[p].owner
  BY <1>4, <1>5, <1>6, <1>9 DEF NoHold
<1>10. QED
  BY <1>1, <1>3, <1>4, <1>7, <1>8, <1>9

(* It is enough to look at what follows the observation. *)
LEMMA KeepsKept ==
  ASSUME TypeOK, Regular(holds), NEW read \in SUBSET Pikmin, NEW t \in Task, NEW g \in Ledger,
         holds' = g, Keeps(Observed(read), g, t), Regular(g),
         \A p \in Pikmin : Observed(read)[p] = NoHold /\ status[p] = "busy" => g[p] = NoHold
  PROVE  Kept(t) /\ Regular(holds')
<1> DEFINE o == Observed(read)
<1>1. /\ o \in Ledger /\ Regular(o)
      /\ \A p \in Pikmin :
           /\ \A u \in Task : Held(u, p) =>
                /\ o[p].owner = u /\ o[p].sent
                /\ o[p].saw_busy => status[p] = "busy"
           /\ holds[p].owner = NoTask => o[p] = NoHold
           /\ o[p].sent => holds[p].sent /\ holds[p].owner = o[p].owner
  BY ObservedKeeps
<1> HIDE DEF o
<1>2. Keeps(o, g, t) /\ \A p \in Pikmin : o[p] = NoHold /\ status[p] = "busy" => g[p] = NoHold
  BY DEF o
<1>3. ASSUME NEW p \in Pikmin, NEW u \in Task, Held(u, p)
      PROVE  g[p].owner = u /\ g[p].sent /\ (g[p].saw_busy => status[p] = "busy")
  BY <1>1, <1>2, <1>3 DEF Keeps
<1>4. ASSUME NEW p \in Pikmin, holds[p].owner = NoTask, status[p] = "busy"
      PROVE  g[p].owner = NoTask
  <2>1. g[p] = NoHold
    BY <1>1, <1>2, <1>4
  <2>2. QED
    BY <2>1 DEF NoHold
<1>5. ASSUME NEW p \in Pikmin, g[p].sent, g[p].owner # t
      PROVE  holds[p].sent /\ holds[p].owner = g[p].owner
  BY <1>1, <1>2, <1>5 DEF Keeps
<1>6. QED
  BY <1>3, <1>4, <1>5 DEF Kept

(* What a visit does with the ledger after the observation. *)
LEMMA LedgerSteps ==
  ASSUME TypeOK, Regular(holds), NEW read \in SUBSET Pikmin, NEW t \in Task
  PROVE  LET o == Observed(read) IN
         /\ holds' \in {o, Cancel(o, {t}), Cancel(Sent(o, t), {t})} =>
              Kept(t) /\ Regular(holds')
         /\ \A team \in SUBSET Eligible(t, read) :
              /\ CanReserve(o, t, team)
              /\ holds' \in {Reserve(o, t, team), Cancel(Reserve(o, t, team), {t}),
                             Cancel(Sent(Reserve(o, t, team), t), {t})}
              => Kept(t) /\ Regular(holds')
<1> DEFINE o == Observed(read)
           Fine(g) == /\ g \in Ledger /\ Regular(g) /\ Keeps(o, g, t)
                      /\ \A p \in Pikmin : o[p] = NoHold /\ status[p] = "busy" => g[p] = NoHold
<1>1. Fine(o)
  BY ObservedKeeps DEF Keeps
<1>2. ASSUME NEW g, Fine(g)
      PROVE  Fine(Cancel(g, {t}))
  <2>1. Cancel(g, {t}) \in Ledger /\ Regular(Cancel(g, {t}))
    BY <1>2, CancelType, RegularKept
  <2>2. Keeps(o, Cancel(g, {t}), t)
    BY <1>1, <1>2, <2>1, CancelKeeps, KeepsTransitive
  <2>3. QED
    BY <1>2, <2>1, <2>2, FreeStaysFree
<1>3. ASSUME NEW g, Fine(g)
      PROVE  Fine(Sent(g, t))
  <2>1. Sent(g, t) \in Ledger /\ Regular(Sent(g, t))
    BY <1>3, SentType, RegularKept
  <2>2. Keeps(o, Sent(g, t), t)
    BY <1>1, <1>3, <2>1, SentKeeps, KeepsTransitive
  <2>3. QED
    BY <1>3, <2>1, <2>2, FreeStaysFree
<1>4. ASSUME NEW team \in SUBSET Eligible(t, read), CanReserve(o, t, team)
      PROVE  Fine(Reserve(o, t, team))
  <2>1. team \in SUBSET Pikmin /\ \A p \in team : status[p] # "busy"
    BY DEF Eligible
  <2>2. Reserve(o, t, team) \in Ledger /\ Regular(Reserve(o, t, team))
    BY <1>1, ReserveType, RegularKept
  <2>3. Keeps(o, Reserve(o, t, team), t)
    BY <1>1, <1>4, <2>1, ReserveKeeps
  <2>4. QED
    BY <1>1, <2>1, <2>2, <2>3, FreeStaysFree
<1>5. ASSUME NEW g, Fine(g), holds' = g
      PROVE  Kept(t) /\ Regular(holds')
  BY <1>5, KeepsKept
<1> HIDE DEF Fine
<1>6. holds' \in {o, Cancel(o, {t}), Cancel(Sent(o, t), {t})} => Kept(t) /\ Regular(holds')
  BY <1>1, <1>2, <1>3, <1>5
<1>7. ASSUME NEW team \in SUBSET Eligible(t, read), CanReserve(o, t, team),
             holds' \in {Reserve(o, t, team), Cancel(Reserve(o, t, team), {t}),
                         Cancel(Sent(Reserve(o, t, team), t), {t})}
      PROVE  Kept(t) /\ Regular(holds')
  BY <1>2, <1>3, <1>4, <1>5, <1>7
<1>8. QED
  BY <1>6, <1>7

LEMMA VisitOpenKept ==
  ASSUME TypeOK, Regular(holds), NEW read \in SUBSET Pikmin, NEW t \in Task, VisitOpen(t, read)
  PROVE  Kept(t) /\ Regular(holds')
<1>1. ASSUME NEW team \in SUBSET Pikmin, CanSelect(t, team, read)
      PROVE  team \in SUBSET Eligible(t, read) /\ CanReserve(Observed(read), t, team)
  BY <1>1 DEF CanSelect
<1>2. ASSUME NEW team \in SUBSET Pikmin, SelectNearby(t, team, read) \/ SelectBatch(t, team, read)
      PROVE  Kept(t) /\ Regular(holds')
  <2>1. CanSelect(t, team, read) /\ holds' = Reserve(Observed(read), t, team)
    BY <1>2 DEF SelectNearby, SelectBatch
  <2>2. QED
    BY <1>1, <2>1, LedgerSteps
<1>3. ASSUME NEW team \in SUBSET Pikmin, SelectFarm(t, team, read)
      PROVE  Kept(t) /\ Regular(holds')
  <2>1. /\ CanSelect(t, team, read)
        /\ holds' = Cancel(Sent(Reserve(Observed(read), t, team), t), {t})
    BY <1>3 DEF SelectFarm
  <2>2. QED
    BY <1>1, <2>1, LedgerSteps
<1>4. ASSUME NEW team \in SUBSET Pikmin, RejectTeam(t, team, read)
      PROVE  Kept(t) /\ Regular(holds')
  <2>1. /\ CanSelect(t, team, read)
        /\ holds' = Cancel(Reserve(Observed(read), t, team), {t})
    BY <1>4 DEF RejectTeam
  <2>2. QED
    BY <1>1, <2>1, LedgerSteps
<1>5. CASE \/ KeepSelection(t, read) \/ SubmitSelection(t, read) \/ DropSelection(t, read)
           \/ KeepSettling(t, read) \/ SubmitSettled(t, read) \/ DropSettled(t, read)
           \/ PassOver(t, read)
  <2>1. holds' \in {Observed(read), Cancel(Observed(read), {t}),
                    Cancel(Sent(Observed(read), t), {t})}
    BY <1>5 DEF KeepSelection, SubmitSelection, DropSelection, KeepSettling, SubmitSettled,
                DropSettled, PassOver
  <2>2. QED
    BY <2>1, LedgerSteps
<1>6. QED
  BY <1>2, <1>3, <1>4, <1>5 DEF VisitOpen

-----------------------------------------------------------------------------
(* What a visit asks of the server *)

Selected(t) == t \in Pending \/ t = settling.id

(* Expedition t was not asked for, and its team is leased and was free. *)
Sends(t, read, shown) ==
  /\ StartExpedition(t, shown)
  /\ shown # {} /\ shown \subseteq Eligible(t, read)
  /\ ~HasSent(Observed(read), t)
  /\ SentTeam(holds', t) = shown
  /\ \A p \in shown : ~holds'[p].saw_busy
  /\ ~Selected(t)'
  /\ \A u \in Task : Selected(u)' => Selected(u)

SendsNothing(t, read) ==
  /\ UNCHANGED remote
  /\ SentTeam(holds', t) \subseteq SentTeam(Observed(read), t)
  /\ \A u \in Task : Selected(u)' => Selected(u) \/ (u = t /\ ~HasSent(Observed(read), t))

(* Sending marks exactly the team; cancelling afterwards changes nothing. *)
LEMMA SentTeamFacts ==
  ASSUME NEW h \in Ledger, NEW t \in Task, NEW p \in Pikmin
  PROVE  LET g == Cancel(Sent(h, t), {t}) IN
         /\ h[p].owner = t => g[p].owner = t /\ g[p].sent /\ g[p].saw_busy = h[p].saw_busy
         /\ h[p].owner # t => g[p].owner # t
<1>1. ASSUME h[p].owner = t
      PROVE  /\ Sent(h, t)[p].owner = t /\ Sent(h, t)[p].sent
             /\ Sent(h, t)[p].saw_busy = h[p].saw_busy
  BY <1>1 DEF Sent, Ledger, Hold
<1>2. ASSUME h[p].owner # t
      PROVE  Sent(h, t)[p].owner # t
  BY <1>2 DEF Sent
<1>3. Sent(h, t)[p].sent => Cancel(Sent(h, t), {t})[p] = Sent(h, t)[p]
  BY DEF Cancel
<1>4. Cancel(Sent(h, t), {t})[p] \in {Sent(h, t)[p], NoHold}
  BY DEF Cancel
<1>5. NoHold.owner # t
  BY NoTaskAssumption DEF NoHold
<1>6. QED
  BY <1>1, <1>2, <1>3, <1>4, <1>5

LEMMA ReservedFacts ==
  ASSUME NEW h \in Ledger, NEW t \in Task, NEW team \in SUBSET Pikmin,
         CanReserve(h, t, team)
  PROVE  /\ \A p \in team : /\ Reserve(h, t, team)[p].owner = t
                           /\ ~Reserve(h, t, team)[p].sent
                           /\ ~Reserve(h, t, team)[p].saw_busy
         /\ ~HasSent(h, t)
         /\ ~HasSent(Reserve(h, t, team), t)
         /\ ~HasSent(Cancel(Reserve(h, t, team), {t}), t)
<1>1. ASSUME NEW p \in team
      PROVE  /\ Reserve(h, t, team)[p].owner = t
             /\ ~Reserve(h, t, team)[p].sent
             /\ ~Reserve(h, t, team)[p].saw_busy
  BY DEF Reserve, NoHold
<1>2. ~HasSent(h, t)
  BY DEF CanReserve
<1>3. \A g \in Ledger : ~HasSent(g, t) => ~HasSent(Cancel(g, {t}), t)
  <2> SUFFICES ASSUME NEW g \in Ledger, ~HasSent(g, t) PROVE ~HasSent(Cancel(g, {t}), t)
    OBVIOUS
  <2>1. \A p \in Pikmin : Cancel(g, {t})[p] \in {g[p], NoHold}
    BY DEF Cancel
  <2>2. ~NoHold.sent
    BY DEF NoHold
  <2>3. QED
    BY <2>1, <2>2 DEF HasSent
<1>4. ~HasSent(Reserve(h, t, team), t)
  <2>1. \A p \in Pikmin \ team : Reserve(h, t, team)[p] = Cancel(h, {t})[p]
    BY DEF Reserve
  <2>2. QED
    BY <1>1, <1>2, <1>3, <2>1 DEF HasSent
<1>5. QED
  BY <1>1, <1>2, <1>3, <1>4, ReserveType

(* The observation sends nothing. *)
LEMMA ObservedSent ==
  ASSUME TypeOK, Regular(holds), NEW read \in SUBSET Pikmin, NEW t \in Task
  PROVE  /\ HasSent(Observed(read), t) => HasSent(holds, t)
         /\ SentTeam(Cancel(Observed(read), {t}), t) \subseteq SentTeam(Observed(read), t)
<1>1. HasSent(Observed(read), t) => HasSent(holds, t)
  BY ObservedKeeps DEF HasSent
<1>2. \A p \in Pikmin : Cancel(Observed(read), {t})[p] \in {Observed(read)[p], NoHold}
  BY DEF Cancel
<1>3. ~NoHold.sent
  BY DEF NoHold
<1>4. QED
  BY <1>1, <1>2, <1>3 DEF SentTeam

(* What is held of t is sent. *)
LEMMA SentTeamEmpty ==
  \A h : \A t : (~HasSent(h, t) <=> SentTeam(h, t) = {})
BY DEF HasSent, SentTeam

LEMMA SubmitSends ==
  ASSUME TypeOK, SelectionInv, SelectedNotSent, Regular(holds),
         NEW read \in SUBSET Pikmin, NEW t \in Task,
         SubmitSelection(t, read) \/ SubmitSettled(t, read)
  PROVE  \E shown \in SUBSET Pikmin : Sends(t, read, shown)
<1> DEFINE o == Observed(read)
           team == IF t = settling.id THEN settling.team ELSE picks[t].team
<1>1. team = UnsentTeam(holds, t) /\ team \in SUBSET Pikmin
  BY DEF SelectionInv, LeaseDiscipline, UnsentTeam
<1>2. Selected(t) /\ ~HasSent(o, t)
  <2>1. Selected(t)
    BY DEF SubmitSelection, SubmitSettled, PickedEarlier, Selected
  <2>2. QED
    BY <2>1, ObservedSent DEF Selected, SelectedNotSent
<1>3. /\ team # {} /\ team \subseteq Eligible(t, read)
      /\ StartExpedition(t, team)
  <2>1. CASE SubmitSelection(t, read)
    <3>1. PICK shown \in SUBSET Pikmin : SafeToStart(t, shown, read) /\ SubmitArmed(t, shown)
      BY <2>1 DEF SubmitSelection
    <3>2. t # settling.id
      BY <2>1, NoTaskAssumption DEF SubmitSelection, PickedEarlier, SelectionInv, Pending
    <3>3. QED
      BY <3>1, <3>2 DEF SafeToStart, SelectedTeamMatches, SubmitArmed
  <2>2. CASE SubmitSettled(t, read)
    <3>1. PICK shown \in SUBSET Pikmin :
            SettledGate(t, shown, read) /\ StartExpedition(t, shown)
      BY <2>2 DEF SubmitSettled
    <3>2. t = settling.id
      BY <2>2 DEF SubmitSettled
    <3>3. QED
      BY <3>1, <3>2 DEF SettledGate, SelectedTeamMatches
  <2>3. QED
    BY <2>1, <2>2
<1>4. holds' = Cancel(Sent(o, t), {t})
  BY DEF SubmitSelection, SubmitSettled
<1>5. ASSUME NEW p \in team
      PROVE  holds'[p].owner = t /\ holds'[p].sent /\ ~holds'[p].saw_busy
  <2>1. p \in Pikmin /\ holds[p].owner = t /\ ~holds[p].sent
    BY <1>1 DEF UnsentTeam
  <2>2. o[p] = holds[p] /\ o \in Ledger /\ ~o[p].saw_busy
    BY <2>1, ObservedKeeps DEF Regular
  <2>3. QED
    BY <1>4, <2>1, <2>2, SentTeamFacts
<1>6. SentTeam(holds', t) = team
  <2>1. ASSUME NEW p \in Pikmin \ team
        PROVE  ~(holds'[p].owner = t /\ holds'[p].sent)
    <3>1. o[p].owner # t
      <4>1. ~o[p].sent => ~(o[p].owner = t)
        BY <1>1, ObservedUnsent DEF UnsentTeam, TypeOK
      <4>2. QED
        BY <1>2, <4>1 DEF HasSent
    <3>2. QED
      BY <1>4, <3>1, SentTeamFacts, ObservedKeeps
  <2>2. QED
    BY <1>1, <1>5, <2>1 DEF SentTeam
<1>7. ~Selected(t)' /\ \A u \in Task : Selected(u)' => Selected(u)
  <2>1. CASE SubmitSelection(t, read)
    <3>1. settling' = settling /\ t # settling.id
      BY <2>1, NoTaskAssumption DEF SubmitSelection, PickedEarlier, SelectionInv, Pending
    <3>2. \A u \in Task : u \in Pending' <=> u \in Pending /\ u # t
      BY <2>1 DEF SubmitSelection, Pending, Without, NoSelection
    <3>3. QED
      BY <3>1, <3>2 DEF Selected
  <2>2. CASE SubmitSettled(t, read)
    <3>1. settling'.id = NoTask /\ t = settling.id /\ picks' = picks
      BY <2>2 DEF SubmitSettled, NotSettling
    <3>2. t \notin Pending
      BY <3>1, NoTaskAssumption DEF SelectionInv, Pending
    <3>3. QED
      BY <3>1, <3>2, NoTaskAssumption DEF Selected, Pending
  <2>3. QED
    BY <2>1, <2>2
<1>8. Sends(t, read, team)
  BY <1>2, <1>3, <1>5, <1>7, <1>6 DEF Sends
<1>9. QED
  BY <1>1, <1>8

LEMMA FarmSends ==
  ASSUME TypeOK, SelectionInv, Regular(holds),
         NEW read \in SUBSET Pikmin, NEW t \in Task, NEW team \in SUBSET Pikmin,
         SelectFarm(t, team, read)
  PROVE  Sends(t, read, team)
<1> DEFINE o == Observed(read)
<1>1. CanSelect(t, team, read) /\ scan.mode = "farm"
  BY DEF SelectFarm
<1>2. o \in Ledger /\ CanReserve(o, t, team) /\ team \subseteq Eligible(t, read)
  BY <1>1, ObservedKeeps DEF CanSelect
<1>3. PICK shown \in SUBSET Pikmin : SelectedTeamMatches(shown, team) /\ SubmitArmed(t, shown)
  BY DEF SelectFarm
<1>4. team # {} /\ StartExpedition(t, team)
  BY <1>3 DEF SelectedTeamMatches, SubmitArmed
<1>5. ASSUME NEW p \in team
      PROVE  holds'[p].owner = t /\ holds'[p].sent /\ ~holds'[p].saw_busy
  <2>1. Reserve(o, t, team) \in Ledger
    BY <1>2, ReserveType
  <2>2. Reserve(o, t, team)[p].owner = t /\ ~Reserve(o, t, team)[p].saw_busy
    BY DEF Reserve, NoHold
  <2>3. holds' = Cancel(Sent(Reserve(o, t, team), t), {t})
    BY DEF SelectFarm
  <2>4. QED
    BY <2>1, <2>2, <2>3, SentTeamFacts
<1>6. SentTeam(holds', t) = team
  <2>1. ASSUME NEW p \in Pikmin \ team
        PROVE  ~(holds'[p].owner = t /\ holds'[p].sent)
    <3>1. Reserve(o, t, team)[p] = Cancel(o, {t})[p]
      BY DEF Reserve
    <3>2. Cancel(o, {t})[p].owner # t
      <4>1. ~(o[p].owner = t /\ o[p].sent)
        BY <1>2 DEF CanReserve, HasSent
      <4>2. QED
        BY <4>1, NoTaskAssumption DEF Cancel, NoHold
    <3>3. Reserve(o, t, team) \in Ledger
      BY <1>2, ReserveType
    <3>4. holds' = Cancel(Sent(Reserve(o, t, team), t), {t})
      BY DEF SelectFarm
    <3>5. QED
      BY <3>1, <3>2, <3>3, <3>4, SentTeamFacts
  <2>2. QED
    BY <1>5, <2>1 DEF SentTeam
<1>7. ~HasSent(o, t)
  BY <1>2, ReservedFacts
<1>8. ~Selected(t)' /\ \A u \in Task : Selected(u)' => Selected(u)
  <2>1. Pending = {} /\ settling.id = NoTask
    BY <1>1 DEF CanSelect, Visiting, SelectionInv, Nearby
  <2>2. UNCHANGED <<picks, settling>>
    BY DEF SelectFarm
  <2>3. QED
    BY <2>1, <2>2, NoTaskAssumption DEF Selected, Pending
<1>9. QED
  BY <1>2, <1>4, <1>5, <1>7, <1>8, <1>6 DEF Sends

LEMMA VisitOpenSends ==
  ASSUME TypeOK, SelectionInv, SelectedNotSent, Regular(holds),
         NEW read \in SUBSET Pikmin, NEW t \in Task, VisitOpen(t, read)
  PROVE  SendsNothing(t, read) \/ \E shown \in SUBSET Pikmin : Sends(t, read, shown)
<1> DEFINE o == Observed(read)
<1>1. o \in Ledger
  BY ObservedKeeps
<1>2. CASE KeepSelection(t, read) \/ KeepSettling(t, read) \/ PassOver(t, read)
  <2>1. holds' = o /\ UNCHANGED <<picks, settling, remote>>
    BY <1>2 DEF KeepSelection, KeepSettling, PassOver
  <2>2. QED
    BY <2>1 DEF SendsNothing, Selected, Pending
<1>3. CASE DropSelection(t, read)
  <2>1. holds' = Cancel(o, {t}) /\ UNCHANGED <<settling, remote>>
    BY <1>3 DEF DropSelection
  <2>2. Pending' \subseteq Pending
    BY <1>3 DEF DropSelection, Pending, Without, NoSelection
  <2>3. QED
    BY <2>1, <2>2, ObservedSent DEF SendsNothing, Selected
<1>4. CASE DropSettled(t, read)
  <2>1. holds' = Cancel(o, {t}) /\ settling'.id = NoTask /\ UNCHANGED <<picks, remote>>
    BY <1>4 DEF DropSettled, NotSettling
  <2>2. QED
    BY <2>1, ObservedSent, NoTaskAssumption DEF SendsNothing, Selected, Pending
<1>5. ASSUME NEW team \in SUBSET Pikmin, CanSelect(t, team, read)
      PROVE  CanReserve(o, t, team)
  BY <1>5 DEF CanSelect
<1>6. ASSUME NEW team \in SUBSET Pikmin, SelectNearby(t, team, read)
      PROVE  SendsNothing(t, read)
  <2>1. CanReserve(o, t, team) /\ holds' = Reserve(o, t, team) /\ UNCHANGED <<settling, remote>>
    BY <1>5, <1>6 DEF SelectNearby
  <2>2. Pending' \subseteq Pending \cup {t}
    BY <1>6 DEF SelectNearby, Pending, TypeOK
  <2>3. ~HasSent(holds', t) /\ ~HasSent(o, t)
    BY <1>1, <2>1, ReservedFacts
  <2>4. QED
    BY <2>1, <2>2, <2>3, SentTeamEmpty DEF SendsNothing, Selected
<1>7. ASSUME NEW team \in SUBSET Pikmin, SelectBatch(t, team, read)
      PROVE  SendsNothing(t, read)
  <2>1. /\ CanReserve(o, t, team) /\ holds' = Reserve(o, t, team)
        /\ settling'.id = t /\ UNCHANGED <<picks, remote>>
    BY <1>5, <1>7 DEF SelectBatch
  <2>2. ~HasSent(holds', t) /\ ~HasSent(o, t)
    BY <1>1, <2>1, ReservedFacts
  <2>3. QED
    BY <2>1, <2>2, SentTeamEmpty DEF SendsNothing, Selected, Pending
<1>8. ASSUME NEW team \in SUBSET Pikmin, RejectTeam(t, team, read)
      PROVE  SendsNothing(t, read)
  <2>1. /\ CanReserve(o, t, team) /\ holds' = Cancel(Reserve(o, t, team), {t})
        /\ UNCHANGED <<picks, settling, remote>>
    BY <1>5, <1>8 DEF RejectTeam
  <2>2. ~HasSent(holds', t)
    BY <1>1, <2>1, ReservedFacts
  <2>3. QED
    BY <2>1, <2>2, SentTeamEmpty DEF SendsNothing, Selected, Pending
<1>9. QED
  BY <1>2, <1>3, <1>4, <1>6, <1>7, <1>8, SubmitSends, FarmSends DEF VisitOpen

-----------------------------------------------------------------------------
(* RequestInv is inductive: a visit *)

LEMMA VisitOpenRequest ==
  ASSUME TypeOK, SelectionInv, RequestInv,
         NEW read \in SUBSET Pikmin, NEW t \in Task, VisitOpen(t, read)
  PROVE  RequestInv'
<1> DEFINE o == Observed(read)
<1>1. Kept(t) /\ Regular(holds')
  BY VisitOpenKept DEF RequestInv
<1>2. SendsNothing(t, read) \/ \E shown \in SUBSET Pikmin : Sends(t, read, shown)
  BY VisitOpenSends DEF RequestInv
<1>3. Visiting(t) /\ UNCHANGED <<seen, status>>
  <2>1. UNCHANGED <<seen, status>>
    BY DEF VisitOpen, KeepSelection, SubmitSelection, DropSelection, KeepSettling, SubmitSettled,
           DropSettled, SelectNearby, SelectBatch, SelectFarm, RejectTeam, PassOver
  <2>2. QED
    BY <2>1, VisitingOn
<1>4. ASSUME NEW u \in Task, NEW p \in Pikmin, Held(u, p)
      PROVE  Held(u, p)'
  BY <1>1, <1>3, <1>4 DEF Kept, Held
<1>5. CompleteScan'
  <2>1. scan' \in {Visited(t), [Visited(t) EXCEPT !.starts = @ + 1]}
    BY DEF VisitOpen, KeepSelection, SubmitSelection, DropSelection, KeepSettling, SubmitSettled,
           DropSettled, SelectNearby, SelectBatch, SelectFarm, RejectTeam, PassOver
  <2>2. scan'.on = scan.on /\ scan'.complete = scan.complete /\ scan'.live = scan.live
    BY <2>1 DEF Visited, TypeOK, Scan
  <2>3. QED
    BY <1>3, <2>2 DEF RequestInv, CompleteScan, Listed
<1>6. ASSUME NEW u \in Task, u # t, Selected(u) \/ ~Selected(u)'
      PROVE  Selected(u)' => ~HasSent(holds', u)
  <2>1. HasSent(holds', u) => HasSent(holds, u)
    BY <1>1, <1>6 DEF Kept, HasSent
  <2>2. QED
    BY <1>6, <2>1 DEF RequestInv, SelectedNotSent, Selected
<1>7. CASE SendsNothing(t, read)
  <2>1. UNCHANGED <<server, unanswered, crew, errand>>
    BY <1>7 DEF SendsNothing
  <2>2. NoDuplicateStart' /\ NoDoubleBooking' /\ AbsentIsOver'
    BY <1>3, <2>1
       DEF RequestInv, NoDuplicateStart, NoDoubleBooking, Committed, Undecided, AbsentIsOver
  <2>3. WaitingHeld'
    BY <1>3, <1>4, <2>1 DEF RequestInv, WaitingHeld, TypeOK
  <2>4. UnderwayHeld'
    <3>1. ASSUME NEW u \in Task, server[u] = "ours", NEW p \in crew[u]
          PROVE  \/ Held(u, p)'
                 \/ holds'[p].owner = NoTask /\ status'[p] = "busy" /\ seen'[u] # "open"
      <4>1. p \in Pikmin
        BY DEF TypeOK
      <4>2. CASE Held(u, p)
        BY <1>4, <4>1, <4>2
      <4>3. CASE holds[p].owner = NoTask /\ status[p] = "busy" /\ seen[u] # "open"
        BY <1>1, <1>3, <4>1, <4>3 DEF Kept
      <4>4. QED
        BY <3>1, <4>2, <4>3 DEF RequestInv, UnderwayHeld
    <3>2. QED
      BY <2>1, <3>1 DEF RequestInv, UnderwayHeld
  <2>5. SelectedNotSent'
    <3>1. ASSUME NEW u \in Task, Selected(u)'
          PROVE  ~HasSent(holds', u)
      <4>1. CASE u # t
        BY <1>6, <1>7, <3>1, <4>1 DEF SendsNothing
      <4>2. CASE u = t
        <5>1. HasSent(holds', t) => HasSent(o, t) /\ HasSent(holds, t)
          BY <1>7, SentTeamEmpty, ObservedSent DEF SendsNothing, RequestInv
        <5>2. Selected(t) \/ ~HasSent(o, t)
          BY <1>7, <3>1, <4>2 DEF SendsNothing
        <5>3. Selected(t) => ~HasSent(holds, t)
          BY DEF RequestInv, SelectedNotSent, Selected
        <5>4. QED
          BY <4>2, <5>1, <5>2, <5>3
      <4>3. QED
        BY <4>1, <4>2
    <3>2. QED
      BY <3>1 DEF SelectedNotSent, Selected
  <2>6. QED
    BY <1>1, <1>5, <2>2, <2>3, <2>4, <2>5 DEF RequestInv
<1>8. ASSUME NEW shown \in SUBSET Pikmin, Sends(t, read, shown)
      PROVE  RequestInv'
  <2>1. /\ unanswered' = [unanswered EXCEPT ![t] = @ + 1]
        /\ crew' = [crew EXCEPT ![t] = shown]
        /\ UNCHANGED <<server, errand>>
    BY <1>8 DEF Sends, StartExpedition
  <2>2. shown # {} /\ \A p \in shown : p \in Pikmin /\ status[p] = "available" /\ Permits(o, p, t)
    BY <1>8 DEF Sends, Eligible
  <2>3. ~HasSent(o, t)
    BY <1>8 DEF Sends
  <2>4. seen[t] = "open"
    BY <1>3 DEF Visiting
  (* What is held shows in the ledger, so it does not go to t. *)
  <2>5. ASSUME NEW u \in Task, NEW p \in Pikmin, Held(u, p)
        PROVE  u # t /\ p \notin shown
    <3>1. o[p].owner = u /\ o[p].sent
      BY <2>5, ObservedKeeps DEF RequestInv
    <3>2. u # t
      BY <2>3, <3>1 DEF HasSent
    <3>3. ~Permits(o, p, t)
      BY <3>1, <3>2, NoTaskAssumption DEF Permits
    <3>4. QED
      BY <2>2, <3>2, <3>3
  <2>6. unanswered[t] = 0 /\ server[t] # "ours"
    <3>1. unanswered[t] \in Nat /\ crew[t] \in SUBSET Pikmin
      BY DEF TypeOK
    <3>2. ASSUME unanswered[t] > 0
          PROVE  FALSE
      <4>1. PICK p \in crew[t] : Held(t, p)
        BY <2>4, <3>2 DEF RequestInv, WaitingHeld
      <4>2. QED
        BY <2>5, <3>1, <4>1
    <3>3. ASSUME server[t] = "ours"
          PROVE  FALSE
      <4>1. PICK p \in crew[t] : Held(t, p)
        BY <2>4, <3>3 DEF RequestInv, UnderwayHeld
      <4>2. QED
        BY <2>5, <3>1, <4>1
    <3>4. QED
      BY <3>1, <3>2, <3>3
  <2>7. \A u \in Task \ {t} : unanswered'[u] = unanswered[u] /\ crew'[u] = crew[u]
    BY <2>1 DEF TypeOK
  <2>8. unanswered'[t] = 1 /\ crew'[t] = shown
    BY <2>1, <2>6 DEF TypeOK
  <2>9. NoDuplicateStart'
    BY <2>1, <2>6, <2>7, <2>8 DEF RequestInv, NoDuplicateStart
  <2>10. ASSUME NEW u \in Task, u # t
         PROVE  Committed(u)' = Committed(u) /\ Committed(u) \cap shown = {}
    <3>1. Committed(u)' = Committed(u)
      BY <2>1, <2>7, <2>10 DEF Committed, Undecided
    <3>2. ASSUME NEW p \in Committed(u) \cap shown
          PROVE  FALSE
      <4>1. p \in crew[u] /\ (server[u] = "ours" \/ (server[u] = "open" /\ unanswered[u] > 0))
        BY DEF Committed, Undecided
      <4>2. CASE server[u] = "ours"
        <5>1. Held(u, p) \/ status[p] = "busy"
          BY <4>1, <4>2 DEF RequestInv, UnderwayHeld
        <5>2. QED
          BY <2>2, <2>5, <5>1
      <4>3. CASE server[u] = "open" /\ unanswered[u] > 0
        <5>1. seen[u] # "absent"
          BY <4>3 DEF RequestInv, AbsentIsOver
        <5>2. Held(u, p)
          BY <4>1, <4>3, <5>1 DEF RequestInv, WaitingHeld
        <5>3. QED
          BY <2>5, <5>2
      <4>4. QED
        BY <4>1, <4>2, <4>3
    <3>3. QED
      BY <3>1, <3>2
  <2>11. NoDoubleBooking'
    <3>1. Committed(t)' \subseteq shown
      BY <2>8 DEF Committed
    <3>2. \A u, v \in Task : u # v => Committed(u)' \cap Committed(v)' = {}
      <4> SUFFICES ASSUME NEW u \in Task, NEW v \in Task, u # v
                   PROVE  Committed(u)' \cap Committed(v)' = {}
        OBVIOUS
      <4>1. CASE u = t
        BY <2>10, <3>1, <4>1
      <4>2. CASE v = t
        BY <2>10, <3>1, <4>2
      <4>3. CASE u # t /\ v # t
        BY <2>10, <4>3 DEF RequestInv, NoDoubleBooking
      <4>4. QED
        BY <4>1, <4>2, <4>3
    <3>3. QED
      BY <3>2 DEF NoDoubleBooking
  <2>12. WaitingHeld'
    <3>1. ASSUME NEW u \in Task, unanswered'[u] > 0, seen'[u] # "absent"
          PROVE  /\ crew'[u] # {}
                 /\ \A p \in crew'[u] : Held(u, p)' /\ (status'[p] = "busy" => p \in errand')
      <4>1. CASE u # t
        BY <1>3, <1>4, <2>1, <2>7, <3>1, <4>1 DEF RequestInv, WaitingHeld, TypeOK
      <4>2. CASE u = t
        <5>1. \A p \in shown : holds'[p].owner = t /\ holds'[p].sent /\ ~holds'[p].saw_busy
          BY <1>8 DEF Sends, SentTeam
        <5>2. QED
          BY <1>3, <2>1, <2>2, <2>8, <4>2, <5>1 DEF Held
      <4>3. QED
        BY <4>1, <4>2
    <3>2. QED
      BY <3>1 DEF WaitingHeld
  <2>13. UnderwayHeld'
    <3>1. ASSUME NEW u \in Task, server[u] = "ours"
          PROVE  /\ crew'[u] # {}
                 /\ \A p \in crew'[u] :
                      \/ Held(u, p)'
                      \/ holds'[p].owner = NoTask /\ status'[p] = "busy" /\ seen'[u] # "open"
      <4>1. u # t /\ crew'[u] = crew[u] /\ crew[u] \in SUBSET Pikmin
        BY <2>6, <2>7, <3>1 DEF TypeOK
      <4>2. ASSUME NEW p \in crew[u]
            PROVE  \/ Held(u, p)'
                   \/ holds'[p].owner = NoTask /\ status'[p] = "busy" /\ seen'[u] # "open"
        <5>1. CASE Held(u, p)
          BY <1>4, <4>1, <5>1
        <5>2. CASE holds[p].owner = NoTask /\ status[p] = "busy" /\ seen[u] # "open"
          BY <1>1, <1>3, <4>1, <5>2 DEF Kept
        <5>3. QED
          BY <3>1, <5>1, <5>2 DEF RequestInv, UnderwayHeld
      <4>3. QED
        BY <3>1, <4>1, <4>2 DEF RequestInv, UnderwayHeld
    <3>2. QED
      BY <2>1, <3>1 DEF UnderwayHeld
  <2>14. AbsentIsOver'
    BY <1>3, <2>1, <2>4, <2>7 DEF RequestInv, AbsentIsOver
  <2>15. SelectedNotSent'
    <3>1. ASSUME NEW u \in Task, Selected(u)'
          PROVE  ~HasSent(holds', u)
      BY <1>6, <1>8, <3>1 DEF Sends
    <3>2. QED
      BY <3>1 DEF SelectedNotSent, Selected
  <2>16. QED
    BY <1>1, <1>5, <2>9, <2>11, <2>12, <2>13, <2>14, <2>15 DEF RequestInv
<1>9. QED
  BY <1>2, <1>7, <1>8

-----------------------------------------------------------------------------
(* RequestInv is inductive: the other steps of the module *)

(* A step that only ends holds which are not held, and selects nothing. *)
LEMMA QuietRequest ==
  ASSUME TypeOK, RequestInv, UNCHANGED <<server, unanswered, crew, errand, seen, status>>,
         Regular(holds'), CompleteScan',
         \A p \in Pikmin :
           /\ \A u \in Task : Held(u, p) /\ seen[u] # "absent" => Held(u, p)'
           /\ holds[p].owner = NoTask => holds'[p].owner = NoTask
           /\ holds'[p].sent => holds[p].sent /\ holds[p].owner = holds'[p].owner,
         \A u \in Task : Selected(u)' => Selected(u)
  PROVE  RequestInv'
<1>1. NoDuplicateStart' /\ NoDoubleBooking' /\ AbsentIsOver'
  BY DEF RequestInv, NoDuplicateStart, NoDoubleBooking, Committed, Undecided, AbsentIsOver
<1>2. WaitingHeld'
  BY DEF RequestInv, WaitingHeld, TypeOK
<1>3. UnderwayHeld'
  <2>1. ASSUME NEW u \in Task, server[u] = "ours", NEW p \in crew[u]
        PROVE  \/ Held(u, p)'
               \/ holds'[p].owner = NoTask /\ status'[p] = "busy" /\ seen'[u] # "open"
    <3>1. p \in Pikmin /\ seen[u] # "absent"
      BY <2>1 DEF TypeOK, RequestInv, AbsentIsOver
    <3>2. QED
      BY <2>1, <3>1 DEF RequestInv, UnderwayHeld
  <2>2. QED
    BY <2>1 DEF RequestInv, UnderwayHeld
<1>4. SelectedNotSent'
  <2>1. \A u \in Task : HasSent(holds', u) => HasSent(holds, u)
    BY DEF HasSent
  <2>2. QED
    BY <2>1 DEF RequestInv, SelectedNotSent, Selected
<1>5. QED
  BY <1>1, <1>2, <1>3, <1>4 DEF RequestInv

LEMMA ScanBeginRequest == TypeOK /\ RequestInv /\ ScanBegin => RequestInv'
<1> SUFFICES ASSUME TypeOK, RequestInv,
                    NEW ready \in BOOLEAN, NEW old \in SUBSET Pending, NEW hidden \in SUBSET Listed,
                    BeginScan(ready, old, hidden)
             PROVE  RequestInv'
  BY DEF ScanBegin
<1>1. PICK owners : holds' = Cancel(holds, owners)
  BY DEF BeginScan
<1>2. Regular(holds')
  BY <1>1, RegularKept DEF TypeOK, RequestInv
<1>3. UNCHANGED <<server, unanswered, crew, errand, seen, status>>
  BY DEF BeginScan
<1>4. CompleteScan'
  BY <1>3 DEF BeginScan, CompleteScan, Listed
<1>5. ASSUME NEW p \in Pikmin
      PROVE  /\ holds[p].sent => holds'[p] = holds[p]
             /\ holds'[p] \in {holds[p], NoHold}
  BY <1>1 DEF Cancel
<1>6. NoHold.owner = NoTask /\ ~NoHold.sent
  BY DEF NoHold
<1>7. ASSUME NEW p \in Pikmin, NEW u \in Task, Held(u, p)
      PROVE  Held(u, p)'
  BY <1>3, <1>5, <1>7 DEF Held
<1>8. \A u \in Task : Selected(u)' => Selected(u)
  <2>1. settling' \in {settling, NotSettling} /\ Pending' \subseteq Pending
    BY DEF BeginScan, Pending, Without, NoSelection
  <2>2. QED
    BY <2>1, NoTaskAssumption DEF Selected, NotSettling
<1>9. QED
  BY <1>2, <1>3, <1>4, <1>5, <1>6, <1>7, <1>8, QuietRequest

LEMMA ScanEndRequest == TypeOK /\ RequestInv /\ ScanEnd => RequestInv'
<1> SUFFICES ASSUME TypeOK, RequestInv, ScanEnd PROVE RequestInv'
  OBVIOUS
<1> DEFINE r == Reconcile(holds, Task \ Gone)
           c == Cancel(r, Pending \cap Gone)
<1>1. holds' = Aged(c) /\ holds \in Ledger
  BY DEF ScanEnd, TypeOK
<1>2. r \in Ledger /\ Regular(r) /\ c \in Ledger /\ Regular(c) /\ Regular(Aged(c))
  <2>1. r \in Ledger /\ Regular(r)
    BY <1>1, ReconcileType, RegularKept DEF RequestInv
  <2>2. c \in Ledger /\ Regular(c)
    BY <2>1, CancelType, RegularKept
  <2>3. QED
    BY <2>1, <2>2, RegularKept
<1>3. UNCHANGED <<server, unanswered, crew, errand, seen, status>>
  BY DEF ScanEnd
<1>4. CompleteScan'
  BY DEF ScanEnd, NoScan, CompleteScan
(* A complete scan misses only expeditions that the list no longer has. *)
<1>5. \A u \in Gone : seen[u] = "absent"
  BY DEF Gone, RequestInv, CompleteScan, ScanEnd, Listed
<1>6. ASSUME NEW p \in Pikmin
      PROVE  /\ Aged(c)[p].owner = c[p].owner /\ Aged(c)[p].sent = c[p].sent
             /\ Aged(c)[p].saw_busy = c[p].saw_busy
  BY <1>2 DEF Aged, Ledger, Hold
<1>7. NoHold.owner = NoTask /\ ~NoHold.sent
  BY DEF NoHold
<1>8. ASSUME NEW p \in Pikmin
      PROVE  /\ r[p] \in {holds[p], NoHold} /\ c[p] \in {r[p], NoHold}
             /\ r[p].sent => c[p] = r[p]
             /\ holds[p].owner \in Task \ Gone => r[p] = holds[p]
  BY DEF Reconcile, Cancel
<1> HIDE DEF r, c
<1>9. ASSUME NEW p \in Pikmin, NEW u \in Task, Held(u, p), seen[u] # "absent"
      PROVE  Held(u, p)'
  <2>1. holds[p].owner \in Task \ Gone /\ holds[p].sent
    BY <1>5, <1>9 DEF Held
  <2>2. c[p] = holds[p]
    BY <1>8, <2>1
  <2>3. QED
    BY <1>1, <1>3, <1>6, <1>9, <2>2 DEF Held
<1>10. ASSUME NEW p \in Pikmin
       PROVE  /\ holds[p].owner = NoTask => holds'[p].owner = NoTask
              /\ holds'[p].sent => holds[p].sent /\ holds[p].owner = holds'[p].owner
  <2>1. c[p] \in {holds[p], NoHold}
    BY <1>8
  <2>2. QED
    BY <1>1, <1>6, <1>7, <2>1
<1>11. \A u \in Task : Selected(u)' => Selected(u)
  BY DEF ScanEnd, Pending, Without, NoSelection, Selected
<1>12. QED
  BY <1>1, <1>2, <1>3, <1>4, <1>9, <1>10, <1>11, QuietRequest

(* The polls and the visits to expeditions under way leave all this alone. *)
LEMMA OtherStepsRequest ==
  ASSUME TypeOK, RequestInv,
         UNCHANGED <<holds, picks, settling, server, unanswered, crew, errand, seen, status>>,
         scan'.on = scan.on /\ scan'.complete = scan.complete /\ scan'.live = scan.live
  PROVE  RequestInv'
<1>1. Regular(holds') /\ CompleteScan'
  BY DEF RequestInv, CompleteScan, Listed
<1>2. \A p \in Pikmin, u \in Task : Held(u, p) => Held(u, p)'
  BY DEF Held
<1>3. \A u \in Task : Selected(u)' => Selected(u)
  BY DEF Selected, Pending
<1>4. QED
  BY <1>1, <1>2, <1>3, QuietRequest

LEMMA ModuleRequest == TypeOK /\ SelectionInv /\ RequestInv /\ Module => RequestInv'
<1> SUFFICES ASSUME TypeOK, SelectionInv, RequestInv, Module PROVE RequestInv'
  OBVIOUS
<1>1. ASSUME NEW t \in Task, VisitUnderway(t)
      PROVE  RequestInv'
  <2>1. scan'.on = scan.on /\ scan'.complete = scan.complete /\ scan'.live = scan.live
    BY <1>1 DEF VisitUnderway, Visited, TypeOK, Scan
  <2>2. QED
    BY <1>1, <2>1, OtherStepsRequest DEF VisitUnderway
<1>2. CASE PollPending
  BY <1>2, OtherStepsRequest DEF PollPending
<1>3. ASSUME NEW over, NEW faulted, PollArmed(over, faulted)
      PROVE  RequestInv'
  BY <1>3, OtherStepsRequest DEF PollArmed
<1>4. QED
  BY <1>1, <1>2, <1>3, ScanBeginRequest, ScanEndRequest, VisitOpenRequest DEF Module, Visit

-----------------------------------------------------------------------------
(* RequestInv is inductive: the world *)

(* The parts of RequestInv about the ledger and the scan only. *)
LEMMA LedgerAlone ==
  ASSUME RequestInv, UNCHANGED <<holds, picks, settling, scan, seen>>
  PROVE  SelectedNotSent' /\ CompleteScan' /\ Regular(holds')
BY DEF RequestInv, SelectedNotSent, CompleteScan, Pending, Listed

LEMMA AcceptRequest ==
  ASSUME TypeOK, RequestInv, NEW t \in Task, Accept(t)
  PROVE  RequestInv'
<1>1. /\ server' = [server EXCEPT ![t] = "ours"]
      /\ unanswered' = [unanswered EXCEPT ![t] = @ - 1]
      /\ UNCHANGED <<holds, picks, settling, scan, crew, errand, seen, status>>
  BY DEF Accept
<1>2. /\ server[t] = "open" /\ unanswered[t] = 1 /\ seen[t] # "absent"
      /\ crew[t] \cap errand = {}
  <2>1. unanswered[t] \in Nat /\ unanswered[t] > 0 /\ server[t] = "open"
    BY DEF Accept, TypeOK
  <2>2. unanswered[t] <= 1
    BY <2>1 DEF RequestInv, NoDuplicateStart
  <2>3. seen[t] # "absent"
    BY <2>1 DEF RequestInv, AbsentIsOver
  <2>4. crew[t] \cap errand = {}
    BY DEF Accept, ServerBusy
  <2>5. QED
    BY <2>1, <2>2, <2>3, <2>4
<1>3. server'[t] = "ours" /\ unanswered'[t] = 0
  BY <1>1, <1>2 DEF TypeOK
<1>4. \A u \in Task \ {t} : server'[u] = server[u] /\ unanswered'[u] = unanswered[u]
  BY <1>1 DEF TypeOK
<1>5. NoDuplicateStart'
  BY <1>3, <1>4 DEF RequestInv, NoDuplicateStart
<1>6. NoDoubleBooking'
  <2>1. \A u \in Task : Committed(u)' = Committed(u)
    BY <1>1, <1>2, <1>3, <1>4 DEF Committed, Undecided
  <2>2. QED
    BY <2>1 DEF RequestInv, NoDoubleBooking
<1>7. WaitingHeld'
  BY <1>1, <1>3, <1>4 DEF RequestInv, WaitingHeld, Held
<1>8. UnderwayHeld'
  <2>1. crew[t] # {} /\ \A p \in crew[t] : Held(t, p)
    BY <1>2 DEF RequestInv, WaitingHeld
  <2>2. ASSUME NEW u \in Task, server'[u] = "ours"
        PROVE  /\ crew[u] # {}
               /\ \A p \in crew[u] :
                    Held(u, p) \/ (holds[p].owner = NoTask /\ status[p] = "busy" /\ seen[u] # "open")
    <3>1. CASE u = t
      BY <2>1, <3>1
    <3>2. CASE u # t
      BY <1>4, <2>2, <3>2 DEF RequestInv, UnderwayHeld
    <3>3. QED
      BY <3>1, <3>2
  <2>3. QED
    BY <1>1, <2>2 DEF UnderwayHeld, Held
<1>9. AbsentIsOver'
  BY <1>1, <1>2, <1>4 DEF RequestInv, AbsentIsOver
<1>10. QED
  BY <1>1, <1>5, <1>6, <1>7, <1>8, <1>9, LedgerAlone DEF RequestInv

(* The request is decided, or the expedition is over: nobody is committed. *)
LEMMA EndRequest ==
  ASSUME TypeOK, RequestInv, NEW t \in Task, Refuse(t) \/ Leave(t)
  PROVE  RequestInv'
<1>1. UNCHANGED <<holds, picks, settling, scan, errand, seen, status>>
  BY DEF Refuse, Leave
<1>2. \A u \in Task \ {t} :
        server'[u] = server[u] /\ unanswered'[u] = unanswered[u] /\ crew'[u] = crew[u]
  BY DEF Refuse, Leave, TypeOK
<1>3. /\ server'[t] # "ours" /\ unanswered'[t] \in Nat /\ unanswered'[t] <= 1
      /\ unanswered'[t] > 0 =>
           server'[t] = "gone" /\ unanswered[t] > 0 /\ crew'[t] = crew[t]
  <2>1. unanswered[t] \in Nat /\ unanswered[t] <= IF server[t] = "ours" THEN 0 ELSE 1
    BY DEF TypeOK, RequestInv, NoDuplicateStart
  <2>2. CASE Refuse(t)
    <3>1. unanswered[t] > 0 /\ unanswered'[t] = unanswered[t] - 1 /\ server' = server
      BY <2>2 DEF Refuse, TypeOK
    <3>2. server[t] # "ours" /\ unanswered[t] = 1
      BY <2>1, <3>1
    <3>3. QED
      BY <3>1, <3>2
  <2>3. CASE Leave(t)
    <3>1. server'[t] = "gone" /\ unanswered' = unanswered
      BY <2>3 DEF Leave, TypeOK
    <3>2. unanswered[t] > 0 => server[t] # "ours"
      BY <2>1
    <3>3. unanswered[t] > 0 => crew'[t] = crew[t]
      BY <2>3, <3>2 DEF Leave, TypeOK
    <3>4. unanswered[t] <= 1
      BY <2>1
    <3>5. QED
      BY <2>1, <3>1, <3>3, <3>4
  <2>4. QED
    BY <2>2, <2>3
<1>4. NoDuplicateStart'
  BY <1>2, <1>3 DEF RequestInv, NoDuplicateStart
<1>5. NoDoubleBooking'
  <2>1. Committed(t)' = {}
    BY <1>3 DEF Committed, Undecided
  <2>2. \A u \in Task \ {t} : Committed(u)' = Committed(u)
    BY <1>2 DEF Committed, Undecided
  <2>3. \A u, v \in Task : u # v => Committed(u)' \cap Committed(v)' = {}
    BY <2>1, <2>2 DEF RequestInv, NoDoubleBooking
  <2>4. QED
    BY <2>3 DEF NoDoubleBooking
<1>6. WaitingHeld'
  <2>1. ASSUME NEW u \in Task, unanswered'[u] > 0
        PROVE  unanswered[u] > 0 /\ crew'[u] = crew[u]
    BY <1>2, <1>3, <2>1
  <2>2. QED
    BY <1>1, <2>1 DEF RequestInv, WaitingHeld, Held
<1>7. UnderwayHeld'
  BY <1>1, <1>2, <1>3 DEF RequestInv, UnderwayHeld, Held
<1>8. AbsentIsOver'
  BY <1>1, <1>2, <1>3 DEF RequestInv, AbsentIsOver
<1>9. QED
  BY <1>1, <1>4, <1>5, <1>6, <1>7, <1>8, LedgerAlone DEF RequestInv

LEMMA ServerRequest ==
  ASSUME TypeOK, RequestInv, NEW t \in Task, PlayerStarts(t) \/ Appear(t)
  PROVE  RequestInv'
<1>1. UNCHANGED <<holds, picks, settling, scan, unanswered, crew, errand, seen, status>>
  BY DEF PlayerStarts, Appear
<1>2. \A u \in Task \ {t} : server'[u] = server[u]
  BY DEF PlayerStarts, Appear, TypeOK
<1>3. server[t] # "ours" /\ server'[t] # "ours"
  BY DEF PlayerStarts, Appear, TypeOK
<1>4. /\ server'[t] = "open" => unanswered[t] = 0
      /\ seen[t] = "absent" => ~(unanswered[t] > 0)
  BY DEF PlayerStarts, Appear, Forgotten, TypeOK, RequestInv, AbsentIsOver
<1>5. NoDuplicateStart'
  BY <1>1, <1>2, <1>3 DEF RequestInv, NoDuplicateStart
<1>6. NoDoubleBooking'
  <2>1. Committed(t)' = {}
    BY <1>1, <1>3, <1>4 DEF Committed, Undecided
  <2>2. \A u \in Task \ {t} : Committed(u)' = Committed(u)
    BY <1>1, <1>2 DEF Committed, Undecided
  <2>3. \A u, v \in Task : u # v => Committed(u)' \cap Committed(v)' = {}
    BY <2>1, <2>2 DEF RequestInv, NoDoubleBooking
  <2>4. QED
    BY <2>3 DEF NoDoubleBooking
<1>7. WaitingHeld'
  BY <1>1 DEF RequestInv, WaitingHeld, Held
<1>8. UnderwayHeld'
  BY <1>1, <1>2, <1>3 DEF RequestInv, UnderwayHeld, Held
<1>9. AbsentIsOver'
  BY <1>1, <1>2, <1>3, <1>4 DEF RequestInv, AbsentIsOver
<1>10. QED
  BY <1>1, <1>5, <1>6, <1>7, <1>8, <1>9, LedgerAlone DEF RequestInv

LEMMA PlayerRequest ==
  ASSUME TypeOK, RequestInv, NEW q \in Pikmin, PlayerSends(q) \/ PlayerReturns(q)
  PROVE  RequestInv'
<1>1. UNCHANGED <<holds, picks, settling, scan, server, unanswered, crew, seen, status>>
  BY DEF PlayerSends, PlayerReturns
<1>2. \A t \in Task : \A p \in crew[t] : unanswered[t] > 0 /\ p \in errand => p \in errand'
  BY DEF PlayerSends, PlayerReturns
<1>3. WaitingHeld'
  BY <1>1, <1>2 DEF RequestInv, WaitingHeld, Held
<1>4. NoDuplicateStart' /\ NoDoubleBooking' /\ UnderwayHeld' /\ AbsentIsOver'
  BY <1>1 DEF RequestInv, NoDuplicateStart, NoDoubleBooking, Committed, Undecided,
              UnderwayHeld, AbsentIsOver, Held
<1>5. QED
  BY <1>1, <1>3, <1>4, LedgerAlone DEF RequestInv

LEMMA RefreshTaskRequest ==
  ASSUME TypeOK, RequestInv, NEW t \in Task, RefreshTask(t)
  PROVE  RequestInv'
<1>1. UNCHANGED <<holds, picks, settling, scan, server, unanswered, crew, errand, status>>
  BY DEF RefreshTask
<1>2. \A u \in Task \ {t} : seen'[u] = seen[u]
  BY DEF RefreshTask, TypeOK
<1>3. /\ seen'[t] = TaskView(t) /\ seen'[t] # seen[t] /\ ~scan.on
  BY DEF RefreshTask, TypeOK
<1>4. /\ server[t] = "ours" => seen'[t] = "underway"
      /\ seen'[t] = "absent" => server[t] = "gone"
      /\ server[t] = "gone" => seen'[t] = "absent"
  BY <1>3 DEF TaskView, TypeOK
<1>5. NoDuplicateStart' /\ NoDoubleBooking'
  BY <1>1 DEF RequestInv, NoDuplicateStart, NoDoubleBooking, Committed, Undecided
<1>6. WaitingHeld'
  <2>1. ASSUME NEW u \in Task, unanswered[u] > 0, seen'[u] # "absent"
        PROVE  seen[u] # "absent"
    BY <1>2, <1>4, <2>1 DEF RequestInv, AbsentIsOver
  <2>2. QED
    BY <1>1, <2>1 DEF RequestInv, WaitingHeld, Held
<1>7. UnderwayHeld'
  <2>1. ASSUME NEW u \in Task, server[u] = "ours", seen[u] # "open"
        PROVE  seen'[u] # "open"
    BY <1>2, <1>4, <2>1
  <2>2. QED
    BY <1>1, <2>1 DEF RequestInv, UnderwayHeld, Held
<1>8. AbsentIsOver'
  BY <1>1, <1>2, <1>4 DEF RequestInv, AbsentIsOver
<1>9. SelectedNotSent' /\ CompleteScan' /\ Regular(holds')
  BY <1>1, <1>3 DEF RequestInv, SelectedNotSent, CompleteScan, Pending
<1>10. QED
  BY <1>5, <1>6, <1>7, <1>8, <1>9 DEF RequestInv

(* A Pikmin of the team looks busy for its errand, or for the expedition. *)
LEMMA RefreshPikminRequest ==
  ASSUME TypeOK, RequestInv, NEW q \in Pikmin, RefreshPikmin(q)
  PROVE  RequestInv'
<1>1. UNCHANGED <<holds, picks, settling, scan, server, unanswered, crew, errand, seen>>
  BY DEF RefreshPikmin
<1>2. \A p \in Pikmin \ {q} : status'[p] = status[p]
  BY DEF RefreshPikmin, TypeOK
<1>3. status'[q] = IF q \in ServerBusy THEN "busy" ELSE "available"
  BY DEF RefreshPikmin, PikminView, TypeOK
<1>4. NoDuplicateStart' /\ NoDoubleBooking' /\ AbsentIsOver'
  BY <1>1 DEF RequestInv, NoDuplicateStart, NoDoubleBooking, Committed, Undecided, AbsentIsOver
<1>5. WaitingHeld'
  <2>1. ASSUME NEW t \in Task, unanswered[t] > 0, seen[t] # "absent", NEW p \in crew[t]
        PROVE  Held(t, p)' /\ (status'[p] = "busy" => p \in errand)
    <3>1. p \in Pikmin /\ Held(t, p) /\ (status[p] = "busy" => p \in errand)
      BY <2>1 DEF RequestInv, WaitingHeld, TypeOK
    <3>2. CASE p # q
      BY <1>1, <1>2, <3>1, <3>2 DEF Held
    <3>3. CASE p = q
      <4>1. q \in errand => status'[q] = "busy"
        BY <1>3 DEF ServerBusy
      (* Only t has leased q, and t is not under way. *)
      <4>2. ASSUME NEW u \in Task, server[u] = "ours", q \in crew[u]
            PROVE  q \in errand
        <5>1. Held(u, q) \/ holds[q].owner = NoTask
          BY <4>2 DEF RequestInv, UnderwayHeld
        <5>2. u = t
          BY <3>1, <3>3, <5>1, NoTaskAssumption DEF Held
        <5>3. unanswered[t] \in Nat /\ unanswered[t] <= 0
          BY <4>2, <5>2 DEF RequestInv, NoDuplicateStart, TypeOK
        <5>4. QED
          BY <2>1, <5>3
      <4>3. status'[q] = "busy" => q \in errand
        BY <1>3, <4>2 DEF ServerBusy
      <4>4. QED
        BY <1>1, <3>1, <3>3, <4>1, <4>3 DEF Held
    <3>4. QED
      BY <3>2, <3>3
  <2>2. QED
    BY <1>1, <2>1 DEF RequestInv, WaitingHeld
<1>6. UnderwayHeld'
  <2>1. ASSUME NEW t \in Task, server[t] = "ours", NEW p \in crew[t]
        PROVE  Held(t, p)' \/ (holds[p].owner = NoTask /\ status'[p] = "busy" /\ seen[t] # "open")
    <3>1. /\ p \in Pikmin
          /\ Held(t, p) \/ (holds[p].owner = NoTask /\ status[p] = "busy" /\ seen[t] # "open")
      BY <2>1 DEF RequestInv, UnderwayHeld, TypeOK
    <3>2. status'[p] = IF p = q THEN "busy" ELSE status[p]
      BY <1>2, <1>3, <2>1, <3>1 DEF ServerBusy
    <3>3. QED
      BY <1>1, <3>1, <3>2 DEF Held
  <2>2. QED
    BY <1>1, <2>1 DEF RequestInv, UnderwayHeld
<1>7. QED
  BY <1>1, <1>4, <1>5, <1>6, LedgerAlone DEF RequestInv

LEMMA RestartRequest == TypeOK /\ RequestInv /\ Restart => RequestInv'
<1> SUFFICES ASSUME TypeOK, RequestInv, Restart PROVE RequestInv'
  OBVIOUS
<1>1. UNCHANGED <<scan, server, unanswered, crew, errand>> /\ \A t \in Task : unanswered[t] = 0
  BY DEF Restart
<1>2. /\ \A t \in Task : seen'[t] = TaskView(t)
      /\ \A p \in Pikmin : status'[p] = PikminView(p) /\ holds'[p] = NoHold
  BY DEF Restart, EmptyLedger
<1>3. NoDuplicateStart' /\ NoDoubleBooking'
  BY <1>1 DEF RequestInv, NoDuplicateStart, NoDoubleBooking, Committed, Undecided
<1>4. WaitingHeld'
  BY <1>1 DEF WaitingHeld
<1>5. UnderwayHeld'
  <2>1. ASSUME NEW t \in Task, server[t] = "ours", NEW p \in crew[t]
        PROVE  holds'[p].owner = NoTask /\ status'[p] = "busy" /\ seen'[t] # "open"
    <3>1. p \in Pikmin /\ p \in ServerBusy
      BY <2>1 DEF TypeOK, ServerBusy
    <3>2. seen'[t] # "open"
      BY <1>2, <2>1 DEF TaskView
    <3>3. QED
      BY <1>2, <3>1, <3>2 DEF NoHold, PikminView
  <2>2. QED
    BY <1>1, <2>1 DEF RequestInv, UnderwayHeld
<1>6. AbsentIsOver'
  BY <1>1, <1>2 DEF AbsentIsOver, TaskView
<1>7. SelectedNotSent'
  BY EmptyLedgerFacts DEF Restart, SelectedNotSent
<1>8. CompleteScan'
  BY DEF Restart, CompleteScan
<1>9. Regular(holds')
  <2>1. ~NoHold.saw_busy
    BY DEF NoHold
  <2>2. QED
    BY <1>2, <2>1 DEF Regular
<1>10. QED
  BY <1>3, <1>4, <1>5, <1>6, <1>7, <1>8, <1>9 DEF RequestInv

LEMMA NextRequest == TypeOK /\ SelectionInv /\ RequestInv /\ [Next]_vars => RequestInv'
<1> SUFFICES ASSUME TypeOK, SelectionInv, RequestInv, [Next]_vars PROVE RequestInv'
  OBVIOUS
<1>1. CASE Control \/ (\E g \in Gate : GateReset(g)) \/ UNCHANGED vars
  <2>1. UNCHANGED <<holds, picks, settling, scan, server, unanswered, crew, errand, seen, status>>
    BY <1>1 DEF Control, GateReset, vars
  <2>2. QED
    BY <2>1, OtherStepsRequest
<1>2. \A m : GateOf(m) \in Gate
  BY DEF GateOf, Gate
<1>3. QED
  BY <1>1, <1>2, ModuleRequest, AcceptRequest, EndRequest, ServerRequest, PlayerRequest,
     RefreshTaskRequest, RefreshPikminRequest, RestartRequest
     DEF Next, World

LEMMA InitRequest == Init => RequestInv
<1> SUFFICES ASSUME Init PROVE RequestInv
  OBVIOUS
<1>1. /\ \A t \in Task : unanswered[t] = 0 /\ server[t] = "open" /\ seen[t] = "open"
      /\ ~scan.on /\ holds = EmptyLedger
  BY DEF Init, NoScan
<1>2. /\ NoDuplicateStart /\ NoDoubleBooking /\ WaitingHeld /\ UnderwayHeld
      /\ AbsentIsOver /\ CompleteScan
  BY <1>1 DEF NoDuplicateStart, NoDoubleBooking, Committed, Undecided, WaitingHeld, UnderwayHeld,
              AbsentIsOver, CompleteScan
<1>3. SelectedNotSent
  BY <1>1, EmptyLedgerFacts DEF SelectedNotSent
<1>4. Regular(holds)
  BY <1>1 DEF Regular, EmptyLedger, NoHold
<1>5. QED
  BY <1>2, <1>3, <1>4 DEF RequestInv

(* The ledger holds every team until the server has decided. *)
THEOREM RequestsHeld == Spec => []RequestInv
<1>1. Init => TypeOK /\ SelectionInv /\ RequestInv
  BY InitTypeOK, InitSelection, InitRequest
<1>2. TypeOK /\ SelectionInv /\ RequestInv /\ [Next]_vars
        => TypeOK' /\ SelectionInv' /\ RequestInv'
  BY NextType, NextSelection, NextRequest
<1>3. QED
  BY <1>1, <1>2, PTL DEF Spec

(* No expedition is asked for a second time while a request for it is       *)
(* undecided or granted.                                                    *)
THEOREM NoDuplicateStarts == Spec => []NoDuplicateStart
<1>1. RequestInv => NoDuplicateStart
  BY DEF RequestInv
<1>2. QED
  BY <1>1, RequestsHeld, PTL

(* No Pikmin is asked for by two requests that the server may grant. *)
THEOREM NoDoubleBookings == Spec => []NoDoubleBooking
<1>1. RequestInv => NoDoubleBooking
  BY DEF RequestInv
<1>2. QED
  BY <1>1, RequestsHeld, PTL

-----------------------------------------------------------------------------
(* Dispatch implements ExpeditionLease: every step of the dispatcher and   *)
(* its world is a step of the leases, or leaves them alone.                *)

(* The values that Lease gives the variables of ExpeditionLease. *)
LeaseMap == [t \in Task |-> SentTeam(holds, t)]
AskedMap == [t \in Task |-> IF Undecided(t) THEN crew[t] ELSE {}]

LEMMA LeaseUnchanged ==
  UNCHANGED <<LeaseMap, AskedMap>> => UNCHANGED Lease!vars
BY DEF LeaseMap, AskedMap, Lease!vars

(* What is asked for stays leased, by RequestInv. *)
AskedLeased == \A t \in Task : Undecided(t) => crew[t] \subseteq SentTeam(holds, t)

LEMMA AskedIsLeased == TypeOK /\ RequestInv => AskedLeased
<1> SUFFICES ASSUME TypeOK, RequestInv, NEW t \in Task, Undecided(t), NEW p \in crew[t]
             PROVE  p \in SentTeam(holds, t)
  BY DEF AskedLeased
<1>1. unanswered[t] > 0 /\ seen[t] # "absent"
  BY DEF Undecided, RequestInv, AbsentIsOver
<1>2. p \in Pikmin /\ Held(t, p)
  BY <1>1 DEF RequestInv, WaitingHeld, TypeOK
<1>3. QED
  BY <1>2 DEF Held, SentTeam

LEMMA AskedIsLeasedNext == TypeOK' /\ RequestInv' => AskedLeased'
BY AskedIsLeased, PTL

(* Leases that only shrink release Pikmin. *)
LEMMA ShrinkReleases ==
  ASSUME TypeOK', RequestInv', AskedMap' = AskedMap,
         \A t \in Task : SentTeam(holds', t) \subseteq SentTeam(holds, t)
  PROVE  Lease!Release
<1>1. ASSUME NEW t \in Task
      PROVE  /\ SentTeam(holds', t) \in SUBSET Pikmin
             /\ AskedMap'[t] \subseteq SentTeam(holds', t)
  BY AskedIsLeasedNext DEF AskedLeased, AskedMap, SentTeam
<1>2. QED
  BY <1>1 DEF LeaseMap, AskedMap, Lease!Release, Lease!Shrunk

(* The server decides about t, or t is over: nobody is asked for any more. *)
LEMMA DecidedAnswers ==
  ASSUME NEW t \in Task, UNCHANGED holds, ~Undecided(t)',
         \A u \in Task \ {t} : Undecided(u)' = Undecided(u) /\ crew'[u] = crew[u]
  PROVE  Lease!Answer(t)
<1>1. AskedMap' = [AskedMap EXCEPT ![t] = {}]
  BY DEF AskedMap
<1>2. LeaseMap' = LeaseMap
  BY DEF LeaseMap
<1>3. QED
  BY <1>1, <1>2 DEF Lease!Answer, LeaseMap, AskedMap

(* A visit releases Pikmin, or asks for the team it leases. *)
LEMMA VisitOpenLease ==
  ASSUME TypeOK, SelectionInv, RequestInv, TypeOK', RequestInv',
         NEW read \in SUBSET Pikmin, NEW t \in Task, VisitOpen(t, read)
  PROVE  Lease!Release \/ \E S \in SUBSET Pikmin : Lease!Ask(t, S)
<1>1. \A u \in Task \ {t} : SentTeam(holds', u) \subseteq SentTeam(holds, u)
  BY VisitOpenKept DEF RequestInv, Kept, SentTeam
<1>2. CASE SendsNothing(t, read)
  <2>1. SentTeam(holds', t) \subseteq SentTeam(holds, t)
    BY <1>2, ObservedKeeps DEF SendsNothing, SentTeam, RequestInv
  <2>2. AskedMap' = AskedMap
    BY <1>2 DEF SendsNothing, AskedMap, Undecided, remote
  <2>3. QED
    BY <1>1, <2>1, <2>2, ShrinkReleases
<1>3. ASSUME NEW S \in SUBSET Pikmin, Sends(t, read, S)
      PROVE  Lease!Ask(t, S)
  <2>1. /\ unanswered' = [unanswered EXCEPT ![t] = @ + 1] /\ crew' = [crew EXCEPT ![t] = S]
        /\ UNCHANGED server /\ S # {} /\ SentTeam(holds', t) = S
    BY <1>3 DEF Sends, StartExpedition
  <2>2. \A u \in Task \ {t} : Undecided(u)' = Undecided(u) /\ crew'[u] = crew[u]
    BY <2>1 DEF Undecided, TypeOK
  (* A second request would break NoDuplicateStart. *)
  <2>3. ~Undecided(t)
    <3>1. ASSUME Undecided(t)
          PROVE  FALSE
      <4>1. server[t] = "open" /\ unanswered[t] \in Nat /\ unanswered[t] > 0
        BY <3>1 DEF Undecided, TypeOK
      <4>2. unanswered'[t] = unanswered[t] + 1 /\ server'[t] = "open"
        BY <2>1, <4>1 DEF TypeOK
      <4>3. unanswered'[t] <= 1
        BY <4>2 DEF RequestInv, NoDuplicateStart
      <4>4. QED
        BY <4>1, <4>2, <4>3
    <3>2. QED
      BY <3>1
  <2>4. AskedMap[t] = {}
    BY <2>3 DEF AskedMap
  <2>5. AskedMap' \in {AskedMap, [AskedMap EXCEPT ![t] = S]}
    <3>1. crew'[t] = S
      BY <2>1 DEF TypeOK
    <3>2. CASE Undecided(t)'
      <4>1. AskedMap' = [AskedMap EXCEPT ![t] = S]
        BY <2>2, <3>1, <3>2 DEF AskedMap
      <4>2. QED
        BY <4>1
    <3>3. CASE ~Undecided(t)'
      <4>1. AskedMap' = AskedMap
        BY <2>2, <2>3, <3>3 DEF AskedMap
      <4>2. QED
        BY <4>1
    <3>4. QED
      BY <3>2, <3>3
  <2>6. LeaseMap'[t] = S
    BY <2>1 DEF LeaseMap
  <2>7. \A u \in Task \ {t} : LeaseMap'[u] \cap S = {}
    BY <2>1 DEF LeaseMap, SentTeam
  <2>8. ASSUME NEW u \in Task
        PROVE  LET l == [LeaseMap' EXCEPT ![t] = {}] IN
               l[u] \in SUBSET Pikmin /\ AskedMap[u] \subseteq l[u] /\ l[u] \subseteq LeaseMap[u]
    <3>1. CASE u = t
      BY <2>4, <3>1 DEF LeaseMap
    <3>2. CASE u # t
      <4>1. AskedMap[u] = AskedMap'[u]
        BY <2>2, <3>2 DEF AskedMap
      <4>2. AskedMap'[u] \subseteq SentTeam(holds', u)
        BY AskedIsLeasedNext DEF AskedLeased, AskedMap
      <4>3. LeaseMap'[u] = SentTeam(holds', u) /\ LeaseMap[u] = SentTeam(holds, u)
        BY DEF LeaseMap
      <4>4. [LeaseMap' EXCEPT ![t] = {}][u] = LeaseMap'[u]
        BY <3>2 DEF LeaseMap
      <4>5. SentTeam(holds', u) \in SUBSET Pikmin
        BY DEF SentTeam
      <4>6. QED
        BY <1>1, <3>2, <4>1, <4>2, <4>3, <4>4, <4>5
    <3>3. QED
      BY <3>1, <3>2
  <2>9. Lease!Shrunk([LeaseMap' EXCEPT ![t] = {}])
    <3>1. [LeaseMap' EXCEPT ![t] = {}] \in [Task -> SUBSET Pikmin]
      BY <2>8 DEF LeaseMap
    <3>2. QED
      BY <2>8, <3>1 DEF Lease!Shrunk, LeaseMap, AskedMap
  <2>10. QED
    BY <2>1, <2>4, <2>5, <2>6, <2>7, <2>9 DEF Lease!Ask, LeaseMap, AskedMap
<1>4. QED
  BY <1>2, <1>3, VisitOpenSends DEF RequestInv

LEMMA ScanLease ==
  ASSUME TypeOK, RequestInv, TypeOK', RequestInv', ScanBegin \/ ScanEnd
  PROVE  Lease!Release
<1>1. AskedMap' = AskedMap
  BY DEF ScanBegin, BeginScan, ScanEnd, AskedMap, Undecided, remote
<1>2. NoHold.sent = FALSE
  BY DEF NoHold
<1>3. \A t \in Task : SentTeam(holds', t) \subseteq SentTeam(holds, t)
  <2>1. CASE ScanBegin
    <3>1. PICK owners : holds' = Cancel(holds, owners)
      BY <2>1 DEF ScanBegin, BeginScan
    <3>2. \A p \in Pikmin : holds'[p] \in {holds[p], NoHold}
      BY <3>1 DEF Cancel
    <3>3. QED
      BY <1>2, <3>2 DEF SentTeam
  <2>2. CASE ScanEnd
    <3> DEFINE r == Reconcile(holds, Task \ Gone)
               c == Cancel(r, Pending \cap Gone)
    <3>1. \A p \in Pikmin : r[p] \in {holds[p], NoHold} /\ c[p] \in {r[p], NoHold}
      BY DEF Reconcile, Cancel
    <3>2. holds' = Aged(c) /\ c \in Ledger
      BY <2>2, ReconcileType, CancelType DEF ScanEnd, TypeOK
    <3> HIDE DEF r, c
    <3>3. \A p \in Pikmin : holds'[p].owner = c[p].owner /\ holds'[p].sent = c[p].sent
      BY <3>2 DEF Aged, Ledger, Hold
    <3>4. QED
      BY <1>2, <3>1, <3>3 DEF SentTeam
  <2>3. QED
    BY <2>1, <2>2
<1>4. QED
  BY <1>1, <1>3, ShrinkReleases

(* Every step of the world answers a request, or leaves all leases alone. *)
LEMMA WorldLease ==
  ASSUME TypeOK, RequestInv, TypeOK', RequestInv', World
  PROVE  Lease!Release \/ (\E t \in Task : Lease!Answer(t)) \/ UNCHANGED Lease!vars
<1>1. ASSUME NEW t \in Task, Accept(t) \/ Refuse(t) \/ Leave(t) \/ PlayerStarts(t)
      PROVE  Lease!Answer(t)
  <2>1. UNCHANGED holds
    BY <1>1 DEF Accept, Refuse, Leave, PlayerStarts, memory
  <2>2. \A u \in Task \ {t} : Undecided(u)' = Undecided(u) /\ crew'[u] = crew[u]
    BY <1>1 DEF Accept, Refuse, Leave, PlayerStarts, Undecided, TypeOK
  <2>3. ~Undecided(t)'
    <3>1. CASE Refuse(t)
      <4>1. unanswered[t] \in Nat /\ unanswered[t] <= 1 /\ unanswered'[t] = unanswered[t] - 1
        BY <3>1 DEF RequestInv, NoDuplicateStart, Refuse, TypeOK
      <4>2. QED
        BY <4>1 DEF Undecided
    <3>2. CASE Accept(t) \/ Leave(t) \/ PlayerStarts(t)
      <4>1. server'[t] # "open"
        BY <3>2 DEF Accept, Leave, PlayerStarts, TypeOK
      <4>2. QED
        BY <4>1 DEF Undecided
    <3>3. QED
      BY <1>1, <3>1, <3>2
  <2>4. QED
    BY <2>1, <2>2, <2>3, DecidedAnswers
<1>2. ASSUME UNCHANGED holds, \A t \in Task : Undecided(t)' = Undecided(t), UNCHANGED crew
      PROVE  UNCHANGED Lease!vars
  BY <1>2, LeaseUnchanged DEF LeaseMap, AskedMap
<1>3. ASSUME NEW t \in Task, Appear(t)
      PROVE  UNCHANGED Lease!vars
  <2>1. UNCHANGED <<holds, unanswered, crew>> /\ unanswered[t] = 0
    BY <1>3 DEF Appear, Forgotten, memory
  <2>2. \A u \in Task \ {t} : server'[u] = server[u]
    BY <1>3 DEF Appear, TypeOK
  <2>3. \A u \in Task : Undecided(u)' = Undecided(u)
    BY <2>1, <2>2 DEF Undecided
  <2>4. QED
    BY <1>2, <2>1, <2>3
<1>4. CASE Restart
  <2>1. AskedMap' = AskedMap
    BY <1>4 DEF Restart, AskedMap, Undecided, remote
  <2>2. \A t \in Task : SentTeam(holds', t) = {}
    BY <1>4, EmptyLedgerFacts, SentTeamEmpty DEF Restart
  <2>3. QED
    BY <2>1, <2>2, ShrinkReleases
<1>5. ASSUME UNCHANGED <<holds, server, unanswered, crew>>
      PROVE  UNCHANGED Lease!vars
  BY <1>2, <1>5 DEF Undecided
<1>6. CASE Control \/ (\E g \in Gate : GateReset(g))
  BY <1>5, <1>6 DEF Control, GateReset, memory, remote
<1>7. ASSUME NEW t \in Task, RefreshTask(t)
      PROVE  UNCHANGED Lease!vars
  BY <1>5, <1>7 DEF RefreshTask, memory, remote
<1>8. ASSUME NEW p \in Pikmin, PlayerSends(p) \/ PlayerReturns(p) \/ RefreshPikmin(p)
      PROVE  UNCHANGED Lease!vars
  BY <1>5, <1>8 DEF PlayerSends, PlayerReturns, RefreshPikmin, memory, remote
<1>9. \A m : GateOf(m) \in Gate
  BY DEF GateOf, Gate
<1>10. QED
  BY <1>1, <1>3, <1>4, <1>6, <1>7, <1>8, <1>9 DEF World

LEMMA NextLease ==
  ASSUME TypeOK, SelectionInv, RequestInv, TypeOK', RequestInv', [Next]_vars
  PROVE  Lease!Next \/ UNCHANGED Lease!vars
<1>1. ASSUME UNCHANGED <<holds, server, unanswered, crew>>
      PROVE  UNCHANGED Lease!vars
  BY <1>1, LeaseUnchanged DEF LeaseMap, AskedMap, Undecided
<1>2. ASSUME NEW t \in Task, NEW read \in SUBSET Pikmin, VisitOpen(t, read)
      PROVE  Lease!Next
  BY <1>2, VisitOpenLease DEF Lease!Next
<1>3. ASSUME NEW t \in Task, VisitUnderway(t)
      PROVE  UNCHANGED Lease!vars
  BY <1>1, <1>3 DEF VisitUnderway, remote
<1>4. CASE PollPending
  BY <1>1, <1>4 DEF PollPending, remote
<1>5. ASSUME NEW over, NEW faulted, PollArmed(over, faulted)
      PROVE  UNCHANGED Lease!vars
  BY <1>1, <1>5 DEF PollArmed, remote
<1>6. CASE ScanBegin \/ ScanEnd
  BY <1>6, ScanLease DEF Lease!Next
<1>7. CASE World
  BY <1>7, WorldLease DEF Lease!Next
<1>8. CASE UNCHANGED vars
  BY <1>1, <1>8 DEF vars, memory, remote
<1>9. QED
  BY <1>2, <1>3, <1>4, <1>5, <1>6, <1>7, <1>8 DEF Next, Module, Visit

(* The dispatcher keeps the promises of ExpeditionLease: a request takes   *)
(* exactly the team that is leased for it, and none of it is released      *)
(* while the server may still act.                                         *)
THEOREM ImplementsLease == Spec => RefinesLease
<1>1. Init => Lease!Init
  <2> SUFFICES ASSUME Init PROVE Lease!Init
    OBVIOUS
  <2>1. \A t \in Task : SentTeam(holds, t) = {} /\ ~Undecided(t)
    BY EmptyLedgerFacts, SentTeamEmpty DEF Init, Undecided
  <2>2. QED
    BY <2>1 DEF Lease!Init
<1>2. TypeOK /\ SelectionInv /\ RequestInv /\ TypeOK' /\ RequestInv' /\ [Next]_vars
        => [Lease!Next]_(Lease!vars)
  BY NextLease
<1>3. Init => SelectionInv
  BY InitSelection
<1>4. TypeOK /\ SelectionInv /\ [Next]_vars => SelectionInv'
  BY NextSelection
<1>5. QED
  BY <1>1, <1>2, <1>3, <1>4, TypeCorrect, RequestsHeld, PTL DEF Spec, RefinesLease, Lease!Spec
=============================================================================
