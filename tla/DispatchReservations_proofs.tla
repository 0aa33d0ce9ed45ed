--------------------- MODULE DispatchReservations_proofs ---------------------
(* What the methods of the ledger do to the holds, one lemma per question. *)
EXTENDS DispatchReservations, TLAPS

LEMMA NoHoldType == NoHold \in Hold
BY DEF NoHold, Hold

(* A ledger stays one: every Pikmin keeps exactly one hold. *)
LEMMA CancelType == \A h \in Ledger : \A owners : Cancel(h, owners) \in Ledger
BY NoHoldType DEF Cancel, Ledger

LEMMA ReserveType == \A h \in Ledger, t \in Task : \A team : Reserve(h, t, team) \in Ledger
<1> SUFFICES ASSUME NEW h \in Ledger, NEW t \in Task, NEW team
             PROVE  Reserve(h, t, team) \in Ledger
  OBVIOUS
<1>1. [NoHold EXCEPT !.owner = t] \in Hold
  BY DEF NoHold, Hold
<1>2. QED
  BY <1>1, CancelType DEF Reserve, Ledger

LEMMA SentType == \A h \in Ledger : \A t : Sent(h, t) \in Ledger
BY DEF Sent, Ledger, Hold

LEMMA ObserveType ==
  \A h \in Ledger : \A busy, available : Observe(h, busy, available) \in Ledger
BY NoHoldType DEF Observe, Ledger, Hold

LEMMA ReconcileType == \A h \in Ledger : \A live : Reconcile(h, live) \in Ledger
BY NoHoldType DEF Reconcile, Ledger

LEMMA AgedType == \A h \in Ledger : Aged(h) \in Ledger
BY DEF Aged, Ledger, Hold

(* The empty ledger is one, with nothing reserved and nothing sent. *)
LEMMA EmptyLedgerFacts ==
  /\ EmptyLedger \in Ledger
  /\ \A t \in Task : UnsentTeam(EmptyLedger, t) = {} /\ ~HasSent(EmptyLedger, t)
BY NoTaskAssumption DEF EmptyLedger, NoHold, Ledger, Hold, UnsentTeam, HasSent

-----------------------------------------------------------------------------
(* The teams that are selected and not yet sent *)

LEMMA CancelUnsent ==
  \A h \in Ledger, t \in Task : \A owners :
    UnsentTeam(Cancel(h, owners), t) = IF t \in owners THEN {} ELSE UnsentTeam(h, t)
BY NoTaskAssumption DEF UnsentTeam, Cancel, NoHold, Ledger, Hold

LEMMA ReserveUnsent ==
  \A h \in Ledger, t, u \in Task, team \in SUBSET Pikmin :
    CanReserve(h, t, team) =>
      UnsentTeam(Reserve(h, t, team), u) = IF u = t THEN team ELSE UnsentTeam(h, u)
<1> SUFFICES ASSUME NEW h \in Ledger, NEW t \in Task, NEW u \in Task,
                    NEW team \in SUBSET Pikmin, CanReserve(h, t, team)
             PROVE  UnsentTeam(Reserve(h, t, team), u) =
                      IF u = t THEN team ELSE UnsentTeam(h, u)
  OBVIOUS
<1>1. \A p \in team : Reserve(h, t, team)[p].owner = t /\ ~Reserve(h, t, team)[p].sent
  BY DEF Reserve, NoHold
<1>2. \A p \in Pikmin \ team : Reserve(h, t, team)[p] = Cancel(h, {t})[p]
  BY DEF Reserve
<1>3. \A p \in Pikmin : Cancel(h, {t})[p].owner = u /\ ~Cancel(h, {t})[p].sent
                        <=> u # t /\ h[p].owner = u /\ ~h[p].sent
  BY NoTaskAssumption DEF Cancel, NoHold, Ledger, Hold
<1>4. \A p \in team : h[p].owner = u /\ ~h[p].sent => u = t
  BY NoTaskAssumption DEF CanReserve, Permits
<1>5. QED
  BY <1>1, <1>2, <1>3, <1>4 DEF UnsentTeam

LEMMA SentUnsent ==
  \A h \in Ledger, t, u \in Task :
    UnsentTeam(Sent(h, t), u) = IF u = t THEN {} ELSE UnsentTeam(h, u)
<1> SUFFICES ASSUME NEW h \in Ledger, NEW t \in Task, NEW u \in Task
             PROVE  UnsentTeam(Sent(h, t), u) = IF u = t THEN {} ELSE UnsentTeam(h, u)
  OBVIOUS
<1>1. ASSUME NEW p \in Pikmin, h[p].owner = t
      PROVE  Sent(h, t)[p].sent /\ Sent(h, t)[p].owner = t
  BY <1>1 DEF Sent, Ledger, Hold
<1>2. ASSUME NEW p \in Pikmin, h[p].owner # t
      PROVE  Sent(h, t)[p] = h[p]
  BY <1>2 DEF Sent
<1>3. QED
  BY <1>1, <1>2 DEF UnsentTeam

LEMMA ObserveUnsent ==
  \A h \in Ledger, t \in Task : \A busy, available :
    UnsentTeam(Observe(h, busy, available), t) = UnsentTeam(h, t)
<1> SUFFICES ASSUME NEW h \in Ledger, NEW t \in Task, NEW busy, NEW available
             PROVE  UnsentTeam(Observe(h, busy, available), t) = UnsentTeam(h, t)
  OBVIOUS
<1> DEFINE o == Observe(h, busy, available)
<1>1. ASSUME NEW p \in Pikmin, h[p].sent
      PROVE  ~(o[p].owner = t /\ ~o[p].sent)
  BY <1>1, NoTaskAssumption DEF Observe, NoHold, Ledger, Hold
<1>2. ASSUME NEW p \in Pikmin, ~h[p].sent
      PROVE  o[p] = h[p]
  BY <1>2 DEF Observe
<1>3. QED
  BY <1>1, <1>2 DEF UnsentTeam

LEMMA ReconcileUnsent ==
  \A h \in Ledger, t \in Task : \A live :
    UnsentTeam(Reconcile(h, live), t) = UnsentTeam(h, t)
<1> SUFFICES ASSUME NEW h \in Ledger, NEW t \in Task, NEW live
             PROVE  UnsentTeam(Reconcile(h, live), t) = UnsentTeam(h, t)
  OBVIOUS
<1> DEFINE r == Reconcile(h, live)
<1>1. ASSUME NEW p \in Pikmin, h[p].sent
      PROVE  ~(r[p].owner = t /\ ~r[p].sent)
  BY <1>1, NoTaskAssumption DEF Reconcile, NoHold
<1>2. ASSUME NEW p \in Pikmin, ~h[p].sent
      PROVE  r[p] = h[p]
  BY <1>2 DEF Reconcile
<1>3. QED
  BY <1>1, <1>2 DEF UnsentTeam

LEMMA AgedUnsent ==
  \A h \in Ledger, t \in Task : UnsentTeam(Aged(h), t) = UnsentTeam(h, t)
BY DEF UnsentTeam, Aged, Ledger, Hold

-----------------------------------------------------------------------------
(* The holds that are sent: only observe() and reconcile_tasks() end them. *)

LEMMA RegularKept ==
  \A h \in Ledger : Regular(h) =>
    /\ \A owners : Regular(Cancel(h, owners))
    /\ \A t \in Task : \A team : Regular(Reserve(h, t, team))
    /\ \A t \in Task : Regular(Sent(h, t))
    /\ \A busy, available : Regular(Observe(h, busy, available))
    /\ \A live : Regular(Reconcile(h, live))
    /\ Regular(Aged(h))
<1> SUFFICES ASSUME NEW h \in Ledger, Regular(h)
             PROVE  /\ \A owners : Regular(Cancel(h, owners))
                    /\ \A t \in Task : \A team : Regular(Reserve(h, t, team))
                    /\ \A t \in Task : Regular(Sent(h, t))
                    /\ \A busy, available : Regular(Observe(h, busy, available))
                    /\ \A live : Regular(Reconcile(h, live))
                    /\ Regular(Aged(h))
  OBVIOUS
<1>1. ~NoHold.sent /\ ~NoHold.saw_busy
  BY DEF NoHold
<1>2. ASSUME NEW owners
      PROVE  Regular(Cancel(h, owners))
  BY <1>1 DEF Regular, Cancel
<1>3. ASSUME NEW t \in Task, NEW team
      PROVE  Regular(Reserve(h, t, team))
  <2>1. ASSUME NEW p \in team \cap Pikmin
        PROVE  Reserve(h, t, team)[p].owner # NoTask /\ ~Reserve(h, t, team)[p].saw_busy
    BY NoTaskAssumption DEF Reserve, NoHold
  <2>2. ASSUME NEW p \in Pikmin \ team
        PROVE  Reserve(h, t, team)[p] = Cancel(h, {t})[p]
    BY DEF Reserve
  <2>3. QED
    BY <1>2, <2>1, <2>2 DEF Regular
<1>4. ASSUME NEW t \in Task
      PROVE  Regular(Sent(h, t))
  <2>1. ASSUME NEW p \in Pikmin, h[p].owner = t
        PROVE  Sent(h, t)[p].owner # NoTask /\ Sent(h, t)[p].sent
    BY <2>1, NoTaskAssumption DEF Sent, Ledger, Hold
  <2>2. ASSUME NEW p \in Pikmin, h[p].owner # t
        PROVE  Sent(h, t)[p] = h[p]
    BY <2>2 DEF Sent
  <2>3. QED
    BY <2>1, <2>2 DEF Regular
<1>5. ASSUME NEW busy, NEW available
      PROVE  Regular(Observe(h, busy, available))
  <2>1. ASSUME NEW p \in Pikmin, h[p].sent, p \in busy
        PROVE  /\ Observe(h, busy, available)[p].sent
               /\ Observe(h, busy, available)[p].owner # NoTask
    <3>1. h[p].owner # NoTask
      BY <1>1, <2>1 DEF Regular
    <3>2. Observe(h, busy, available)[p] = [h[p] EXCEPT !.saw_busy = TRUE]
      BY <2>1 DEF Observe
    <3>3. QED
      BY <2>1, <3>1, <3>2 DEF Ledger, Hold
  <2>2. ASSUME NEW p \in Pikmin, ~(h[p].sent /\ p \in busy)
        PROVE  Observe(h, busy, available)[p] \in {h[p], NoHold}
    BY <2>2 DEF Observe
  <2>3. QED
    BY <1>1, <2>1, <2>2 DEF Regular
<1>6. ASSUME NEW live
      PROVE  Regular(Reconcile(h, live))
  BY <1>1 DEF Regular, Reconcile
<1>7. Regular(Aged(h))
  <2>1. ASSUME NEW p \in Pikmin
        PROVE  /\ Aged(h)[p].owner = h[p].owner /\ Aged(h)[p].sent = h[p].sent
               /\ Aged(h)[p].saw_busy = h[p].saw_busy
               /\ h[p] = NoHold => Aged(h)[p] = NoHold
    <3>1. Aged(h)[p] = [h[p] EXCEPT !.new = FALSE] /\ h[p] \in Hold
      BY DEF Aged, Ledger
    <3>2. [NoHold EXCEPT !.new = FALSE] = NoHold
      <4>1. \A x \in Hold : ~x.new => [x EXCEPT !.new = FALSE] = x
        BY DEF Hold
      <4>2. QED
        BY <4>1, NoHoldType DEF NoHold
    <3>3. QED
      BY <3>1, <3>2 DEF Hold
  <2>2. QED
    BY <2>1 DEF Regular
<1>8. QED
  BY <1>2, <1>3, <1>4, <1>5, <1>6, <1>7

(* From h to g nothing that is sent is lost, and no expedition but t's is  *)
(* sent anything.                                                          *)
Keeps(h, g, t) ==
  \A p \in Pikmin :
    /\ h[p].sent => /\ g[p].owner = h[p].owner /\ g[p].sent
                    /\ g[p].saw_busy = h[p].saw_busy
    /\ g[p].sent /\ g[p].owner # t => h[p].sent /\ h[p].owner = g[p].owner

LEMMA KeepsTransitive ==
  ASSUME NEW h \in Ledger, NEW g \in Ledger, NEW f \in Ledger, NEW t \in Task,
         Keeps(h, g, t), Keeps(g, f, t)
  PROVE  Keeps(h, f, t)
<1>1. ASSUME NEW p \in Pikmin, h[p].sent
      PROVE  f[p].owner = h[p].owner /\ f[p].sent /\ f[p].saw_busy = h[p].saw_busy
  BY <1>1 DEF Keeps
<1>2. ASSUME NEW p \in Pikmin, f[p].sent, f[p].owner # t
      PROVE  h[p].sent /\ h[p].owner = f[p].owner
  BY <1>2 DEF Keeps
<1>3. QED
  BY <1>1, <1>2 DEF Keeps

LEMMA CancelKeeps == \A h \in Ledger : \A owners, t : Keeps(h, Cancel(h, owners), t)
<1> SUFFICES ASSUME NEW h \in Ledger, NEW owners, NEW t
             PROVE  Keeps(h, Cancel(h, owners), t)
  OBVIOUS
<1>1. ASSUME NEW p \in Pikmin, h[p].sent
      PROVE  Cancel(h, owners)[p] = h[p]
  BY <1>1 DEF Cancel
<1>2. ASSUME NEW p \in Pikmin, ~h[p].sent
      PROVE  ~Cancel(h, owners)[p].sent
  BY <1>2 DEF Cancel, NoHold
<1>3. QED
  BY <1>1, <1>2 DEF Keeps

LEMMA SentKeeps == \A h \in Ledger, t \in Task : Keeps(h, Sent(h, t), t)
<1> SUFFICES ASSUME NEW h \in Ledger, NEW t \in Task PROVE Keeps(h, Sent(h, t), t)
  OBVIOUS
<1>1. ASSUME NEW p \in Pikmin, h[p].owner = t
      PROVE  /\ Sent(h, t)[p].owner = t /\ Sent(h, t)[p].sent
             /\ Sent(h, t)[p].saw_busy = h[p].saw_busy
  BY <1>1 DEF Sent, Ledger, Hold
<1>2. ASSUME NEW p \in Pikmin, h[p].owner # t
      PROVE  Sent(h, t)[p] = h[p]
  BY <1>2 DEF Sent
<1>3. QED
  BY <1>1, <1>2 DEF Keeps

LEMMA ReserveKeeps ==
  \A h \in Ledger, t \in Task, team \in SUBSET Pikmin :
    Regular(h) /\ CanReserve(h, t, team) => Keeps(h, Reserve(h, t, team), t)
<1> SUFFICES ASSUME NEW h \in Ledger, NEW t \in Task, NEW team \in SUBSET Pikmin,
                    Regular(h), CanReserve(h, t, team)
             PROVE  Keeps(h, Reserve(h, t, team), t)
  OBVIOUS
<1>1. ASSUME NEW p \in team
      PROVE  ~h[p].sent /\ ~Reserve(h, t, team)[p].sent
  <2>1. ~Reserve(h, t, team)[p].sent
    BY DEF Reserve, NoHold
  <2>2. ~h[p].sent
    BY DEF CanReserve, Permits, Regular, NoHold
  <2>3. QED
    BY <2>1, <2>2
<1>2. ASSUME NEW p \in Pikmin \ team
      PROVE  Reserve(h, t, team)[p] = Cancel(h, {t})[p]
  BY DEF Reserve
<1>3. Keeps(h, Cancel(h, {t}), t)
  BY CancelKeeps
<1>4. QED
  BY <1>1, <1>2, <1>3 DEF Keeps

(* A Pikmin nobody holds stays free unless it is reserved. *)
LEMMA FreeStaysFree ==
  \A h \in Ledger, p \in Pikmin : h[p] = NoHold =>
    /\ \A owners : Cancel(h, owners)[p] = NoHold
    /\ \A t \in Task : Sent(h, t)[p] = NoHold
    /\ \A busy, available : Observe(h, busy, available)[p] = NoHold
    /\ \A t \in Task : \A team : p \notin team => Reserve(h, t, team)[p] = NoHold
<1> SUFFICES ASSUME NEW h \in Ledger, NEW p \in Pikmin, h[p] = NoHold
             PROVE  /\ \A owners : Cancel(h, owners)[p] = NoHold
                    /\ \A t \in Task : Sent(h, t)[p] = NoHold
                    /\ \A busy, available : Observe(h, busy, available)[p] = NoHold
                    /\ \A t \in Task : \A team :
                         p \notin team => Reserve(h, t, team)[p] = NoHold
  OBVIOUS
<1>1. ~h[p].sent /\ h[p].owner = NoTask
  BY DEF NoHold
<1>2. \A owners : Cancel(h, owners)[p] = NoHold
  BY DEF Cancel
<1>3. \A t \in Task : Sent(h, t)[p] = NoHold
  BY <1>1, NoTaskAssumption DEF Sent
<1>4. \A busy, available : Observe(h, busy, available)[p] = NoHold
  BY <1>1 DEF Observe
<1>5. \A t \in Task : \A team : p \notin team => Reserve(h, t, team)[p] = NoHold
  BY <1>2 DEF Reserve
<1>6. QED
  BY <1>2, <1>3, <1>4, <1>5
=============================================================================
