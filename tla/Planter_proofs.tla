--------------------------- MODULE Planter_proofs ---------------------------
(***************************************************************************)
(* The planter's journal covers every request that can still take effect,  *)
(* and the planter implements MutationJournal.                             *)
(***************************************************************************)
EXTENDS Planter, TLAPS

(* What the inventory shows, the server has reached: a seed never goes     *)
(* back.                                                                   *)
ViewBehind ==
  \A s \in Seed :
    /\ seen_stage[s] # "stored" => stage[s] # "stored"
    /\ seen_stage[s] = "gone" => stage[s] = "gone"

(* Between the file and the call nothing else is under way. *)
WrittenFirst == writing # None => ledger = writing /\ pending = None

IInv == TypeOK /\ ViewBehind /\ WrittenFirst /\ Journaled

-----------------------------------------------------------------------------
(* The proofs the inventory gives *)

(* A request that observe_pending() confirms is over. *)
LEMMA ConfirmedIsOver ==
  ASSUME TypeOK, ViewBehind, NEW m \in Mutation, Confirmed(m)
  PROVE  ~MayTake(m)
BY DEF TypeOK, ViewBehind, Confirmed, MayTake, Planted, Mutation, Stage

(* So is one that recovery_proof() accepts. *)
LEMMA ProvedIsOver ==
  ASSUME TypeOK, ViewBehind, NEW m \in Mutation, Proved(m)
  PROVE  ~MayTake(m)
BY DEF TypeOK, ViewBehind, Proved, MayTake, Planted, Mutation, Stage

(* The server only moves forward: what can take effect after a step of a   *)
(* seed could before.                                                      *)
LEMMA HappenForward ==
  ASSUME TypeOK, NEW m \in Mutation, Happen(m)
  PROVE  /\ stage' \in [Seed -> Stage] /\ pot' \in [Slot -> Seed \cup {None}]
         /\ \A n \in Mutation : MayTake(n)' => MayTake(n)
         /\ \A s \in Seed : /\ stage[s] # "stored" => stage'[s] # "stored"
                            /\ stage[s] = "gone" => stage'[s] = "gone"
BY DEF TypeOK, Happen, MayTake, Mutation, Stage

-----------------------------------------------------------------------------
(* Type correctness *)

LEMMA InitTypeOK == Init => TypeOK
<1> SUFFICES ASSUME Init PROVE TypeOK
  OBVIOUS
<1>1. stage \in [Seed -> Stage] /\ pot \in [Slot -> Seed \cup {None}]
  BY DEF Init, Stage
<1>2. recovery \in Recovery
  BY DEF Init, Recovery, NoRecovery
<1> QED BY <1>1, <1>2 DEF Init, TypeOK

LEMMA PassesTypeOK ==
  ASSUME TypeOK, RecoverPasses
  PROVE  recovery' \in Recovery
<1>1. recovery \in Recovery
  BY DEF TypeOK
<1>2. [recovery EXCEPT !.waiting = FALSE, !.seen = Unseen] \in Recovery
  BY <1>1 DEF Recovery
<1>3. [handled |-> TRUE, waiting |-> FALSE, seen |-> Unseen] \in Recovery
  BY DEF Recovery
<1> QED BY <1>1, <1>2, <1>3 DEF RecoverPasses

LEMMA TypeOKStep ==
  ASSUME TypeOK, WrittenFirst, [Next]_vars
  PROVE  TypeOK'
<1>1. ASSUME Tick PROVE TypeOK'
  <2>1. CASE RecoverWaits
    BY <2>1 DEF RecoverWaits, TypeOK, files, server, view, Recovery
  <2>2. CASE Recover
    BY <2>2 DEF Recover, TypeOK, server, view, Recovery
  <2>3. CASE Idle
    BY <2>3, PassesTypeOK DEF Idle, Ticking, TypeOK, files, server, view
  <2>4. CASE ObserveFailure
    BY <2>4, PassesTypeOK DEF ObserveFailure, Finish, Ticking, TypeOK, files, server, view
  <2>5. CASE ObserveResponse
    BY <2>5, PassesTypeOK DEF ObserveResponse, Ticking, TypeOK, files, server, view
  <2>6. CASE ObserveConfirmed
    BY <2>6, PassesTypeOK DEF ObserveConfirmed, Finish, Ticking, TypeOK, server, view
  <2>7. CASE StartFails
    BY <2>7, PassesTypeOK DEF StartFails, CanStart, Ticking, TypeOK, files, server, view
  <2>8. ASSUME NEW m \in Mutation, StartWrite(m) PROVE TypeOK'
    BY <2>8, PassesTypeOK DEF StartWrite, CanStart, Ticking, TypeOK, server, view
  <2>9. CASE CallSent
    BY <2>9, PlanterAssumption DEF CallSent, TypeOK, WrittenFirst, files, view
  <2>10. CASE CallUncertain
    BY <2>10 DEF CallUncertain, TypeOK, files, view
  <2> QED BY <1>1, <2>1, <2>2, <2>3, <2>4, <2>5, <2>6, <2>7, <2>8, <2>9, <2>10 DEF Tick
<1>2. ASSUME Restart PROVE TypeOK'
  BY <1>2 DEF Restart, TypeOK, server, NoRecovery, Recovery
<1>3. ASSUME Environment PROVE TypeOK'
  <2>1. CASE SetMode
    BY <2>1, PlanterAssumption DEF SetMode, TypeOK, memory, server, view
  <2>2. CASE SetSteps
    BY <2>2, PlanterAssumption DEF SetSteps, TypeOK, memory, server, view
  <2>3. CASE WriteRequest
    BY <2>3 DEF WriteRequest, TypeOK, server, view, Recovery
  <2>4. CASE ClearRequest
    BY <2>4 DEF ClearRequest, TypeOK, memory, server, view
  <2>5. CASE TaskFails
    BY <2>5 DEF TaskFails, TypeOK, files, server, view
  <2>6. ASSUME NEW m \in Mutation, Grant(m) PROVE TypeOK'
    BY <2>6, HappenForward DEF Grant, Answered, TypeOK, files, view
  <2>7. ASSUME NEW m \in Mutation, Refuse(m) PROVE TypeOK'
    BY <2>7 DEF Refuse, Answered, TypeOK, files, view
  <2>8. ASSUME NEW m \in Mutation, PlayerActs(m) PROVE TypeOK'
    BY <2>8, HappenForward DEF PlayerActs, TypeOK, files, memory, view
  <2>9. ASSUME NEW s \in Seed, Mature(s) PROVE TypeOK'
    BY <2>9 DEF Mature, TypeOK, files, memory, view, Stage
  <2>10. ASSUME NEW s \in Seed, RefreshSeed(s) PROVE TypeOK'
    BY <2>10 DEF RefreshSeed, TypeOK, files, memory, server
  <2>11. ASSUME NEW s \in Seed, RefreshPikmin(s) PROVE TypeOK'
    BY <2>11 DEF RefreshPikmin, TypeOK, files, memory, server
  <2>12. ASSUME NEW k \in Slot, RefreshSlot(k) PROVE TypeOK'
    BY <2>12 DEF RefreshSlot, TypeOK, files, memory, server
  <2> QED BY <1>3, <2>1, <2>2, <2>3, <2>4, <2>5, <2>6, <2>7, <2>8, <2>9, <2>10, <2>11, <2>12
          DEF Environment
<1>4. CASE UNCHANGED vars
  BY <1>4 DEF TypeOK, vars, files, memory, server, view
<1> QED BY <1>1, <1>2, <1>3, <1>4 DEF Next

-----------------------------------------------------------------------------
(* Safety *)

(* While the tick may act, nothing is undecided but what it watches.       *)
LEMMA NothingElse ==
  ASSUME TypeOK, Journaled, writing # None \/ (~Paused /\ pending = None)
  PROVE  Undecided = {}
BY PlanterAssumption DEF TypeOK, Journaled, Undecided

(* Neither is anything when the pause or the journal ends. *)
LEMMA ConfirmedEmpty ==
  ASSUME TypeOK, ViewBehind, Journaled, ObserveConfirmed
  PROVE  Undecided = {}
<1>1. pending \in Mutation
  BY DEF TypeOK, ObserveConfirmed
<1>2. ~MayTake(pending)
  BY <1>1, ConfirmedIsOver DEF ObserveConfirmed
<1> QED BY <1>2 DEF ObserveConfirmed, Journaled, Undecided

LEMMA RecoverEmpty ==
  ASSUME TypeOK, ViewBehind, Journaled, Recover
  PROVE  Undecided = {}
<1>1. ledger # None => ledger \in Mutation /\ Proved(ledger)
  BY DEF TypeOK, Recover, Releasable
<1>2. ledger # None => ~MayTake(ledger)
  BY <1>1, ProvedIsOver
<1>3. \A m \in Undecided : ledger = m /\ m # None
  BY PlanterAssumption DEF Undecided, Journaled, TypeOK
<1> QED BY <1>2, <1>3 DEF Undecided

(* What Undecided becomes, by the kind of step. *)
LEMMA UndecidedUnchanged ==
  ASSUME UNCHANGED <<calls, stage>>
  PROVE  Undecided' = Undecided
BY DEF Undecided, MayTake

LEMMA ViewBehindStep ==
  ASSUME TypeOK, ViewBehind, [Next]_vars
  PROVE  ViewBehind'
<1>1. CASE Tick
  BY <1>1 DEF Tick, RecoverWaits, Recover, Idle, ObserveFailure, ObserveResponse,
     ObserveConfirmed, StartFails, StartWrite, CallSent, CallUncertain, ViewBehind, server, view
<1>2. CASE Restart
  BY <1>2 DEF Restart, ViewBehind, server
<1>3. CASE Environment
  <2>1. CASE SetMode \/ SetSteps \/ WriteRequest \/ ClearRequest \/ TaskFails
    BY <2>1 DEF SetMode, SetSteps, WriteRequest, ClearRequest, TaskFails, ViewBehind, server, view
  <2>2. ASSUME NEW m \in Mutation, Grant(m) \/ PlayerActs(m) PROVE ViewBehind'
    BY <2>2, HappenForward DEF Grant, Answered, PlayerActs, ViewBehind, view
  <2>3. ASSUME NEW m \in Mutation, Refuse(m) PROVE ViewBehind'
    BY <2>3 DEF Refuse, Answered, ViewBehind, view
  <2>4. ASSUME NEW s \in Seed, Mature(s) PROVE ViewBehind'
    BY <2>4 DEF Mature, ViewBehind, TypeOK, view
  <2>5. ASSUME NEW s \in Seed, RefreshSeed(s) PROVE ViewBehind'
    BY <2>5 DEF RefreshSeed, ViewBehind, TypeOK, server
  <2>6. ASSUME NEW s \in Seed, RefreshPikmin(s) PROVE ViewBehind'
    BY <2>6 DEF RefreshPikmin, ViewBehind, server
  <2>7. ASSUME NEW k \in Slot, RefreshSlot(k) PROVE ViewBehind'
    BY <2>7 DEF RefreshSlot, ViewBehind, server
  <2> QED BY <1>3, <2>1, <2>2, <2>3, <2>4, <2>5, <2>6, <2>7 DEF Environment
<1>4. CASE UNCHANGED vars
  BY <1>4 DEF ViewBehind, vars, server, view
<1> QED BY <1>1, <1>2, <1>3, <1>4 DEF Next

LEMMA WrittenFirstStep ==
  ASSUME TypeOK, WrittenFirst, [Next]_vars
  PROVE  WrittenFirst'
<1>1. CASE Tick
  BY <1>1 DEF Tick, RecoverWaits, Recover, Looking, Ticking, Idle, ObserveFailure, ObserveResponse,
     ObserveConfirmed, StartFails, StartWrite, CanStart, CallSent, CallUncertain, Finish,
     WrittenFirst, files
<1>2. CASE Restart
  BY <1>2 DEF Restart, WrittenFirst
<1>3. CASE Environment
  BY <1>3 DEF Environment, SetMode, SetSteps, WriteRequest, ClearRequest, TaskFails, Grant, Refuse,
     Answered, PlayerActs, Mature, RefreshSeed, RefreshSlot, RefreshPikmin, WrittenFirst, files, memory
<1>4. CASE UNCHANGED vars
  BY <1>4 DEF WrittenFirst, vars, files, memory
<1> QED BY <1>1, <1>2, <1>3, <1>4 DEF Next

(* Every step of the world leaves the journal alone, and nothing becomes   *)
(* undecided by it.                                                        *)
LEMMA EnvironmentSettles ==
  ASSUME TypeOK, Environment
  PROVE  /\ Undecided' \subseteq Undecided
         /\ UNCHANGED <<ledger, writing, pending, blocked, restart_blocked>>
<1>1. CASE SetMode \/ SetSteps \/ WriteRequest \/ ClearRequest \/ TaskFails
  BY <1>1 DEF SetMode, SetSteps, WriteRequest, ClearRequest, TaskFails, files, memory, server,
     Undecided, MayTake
<1>2. ASSUME NEW m \in Mutation, Grant(m) \/ PlayerActs(m)
      PROVE  /\ Undecided' \subseteq Undecided
             /\ UNCHANGED <<ledger, writing, pending, blocked, restart_blocked>>
  <2>1. calls' \subseteq calls /\ calls \subseteq Mutation
    BY <1>2 DEF Grant, Answered, PlayerActs, TypeOK
  <2>2. \A n \in Mutation : MayTake(n)' => MayTake(n)
    BY <1>2, HappenForward DEF Grant, PlayerActs
  <2>3. UNCHANGED <<ledger, writing, pending, blocked, restart_blocked>>
    BY <1>2 DEF Grant, Answered, PlayerActs, files, memory
  <2> QED BY <2>1, <2>2, <2>3 DEF Undecided
<1>3. ASSUME NEW m \in Mutation, Refuse(m)
      PROVE  /\ Undecided' \subseteq Undecided
             /\ UNCHANGED <<ledger, writing, pending, blocked, restart_blocked>>
  BY <1>3 DEF Refuse, Answered, files, Undecided, MayTake
<1>4. ASSUME NEW s \in Seed, Mature(s)
      PROVE  /\ Undecided' \subseteq Undecided
             /\ UNCHANGED <<ledger, writing, pending, blocked, restart_blocked>>
  BY <1>4 DEF Mature, files, memory, Undecided, MayTake, TypeOK, Mutation
<1>5. ASSUME \/ \E s \in Seed : RefreshSeed(s) \/ RefreshPikmin(s)
             \/ \E k \in Slot : RefreshSlot(k)
      PROVE  /\ Undecided' \subseteq Undecided
             /\ UNCHANGED <<ledger, writing, pending, blocked, restart_blocked>>
  BY <1>5 DEF RefreshSeed, RefreshPikmin, RefreshSlot, files, memory, server, Undecided, MayTake
<1> QED BY <1>1, <1>2, <1>3, <1>4, <1>5 DEF Environment

LEMMA JournaledStep ==
  ASSUME TypeOK, ViewBehind, WrittenFirst, Journaled, [Next]_vars
  PROVE  Journaled'
<1>1. CASE RecoverWaits \/ Idle \/ ObserveResponse \/ StartFails
  <2>1. UNCHANGED <<calls, stage, ledger, writing, pending, restart_blocked>>
    BY <1>1 DEF RecoverWaits, Idle, ObserveResponse, StartFails, files, server
  <2>2. Paused => Paused'
    BY <1>1 DEF RecoverWaits, Idle, ObserveResponse, StartFails, Paused
  <2> QED BY <2>1, <2>2, UndecidedUnchanged DEF Journaled
<1>2. CASE Recover
  BY <1>2, RecoverEmpty, UndecidedUnchanged DEF Recover, server, Journaled
<1>3. CASE ObserveFailure
  BY <1>3, UndecidedUnchanged DEF ObserveFailure, Ticking, files, server, Journaled, Paused
<1>4. CASE ObserveConfirmed
  BY <1>4, ConfirmedEmpty, UndecidedUnchanged DEF ObserveConfirmed, server, Journaled
<1>5. ASSUME NEW m \in Mutation, StartWrite(m) PROVE Journaled'
  BY <1>5, NothingElse, UndecidedUnchanged DEF StartWrite, CanStart, server, Journaled
<1>6. CASE CallSent \/ CallUncertain
  <2>1. Undecided' \subseteq {writing}
    BY <1>6, NothingElse DEF CallSent, CallUncertain, Undecided, MayTake
  <2>2. ledger' = writing /\ writing' = None /\ (pending' = writing \/ Paused')
    BY <1>6 DEF CallSent, CallUncertain, WrittenFirst, files, Paused
  <2> QED BY <2>1, <2>2 DEF Journaled
<1>7. CASE Restart
  <2>1. Undecided' = Undecided
    BY <1>7, UndecidedUnchanged DEF Restart, server
  <2>2. \A m \in Undecided : ledger = m /\ m # None
    BY PlanterAssumption DEF Undecided, Journaled, TypeOK
  <2> QED BY <1>7, <2>1, <2>2 DEF Restart, Journaled, Paused
<1>8. CASE Environment
  BY <1>8, EnvironmentSettles DEF Journaled, Paused
<1>9. CASE UNCHANGED vars
  BY <1>9, UndecidedUnchanged DEF vars, files, memory, server, Journaled, Paused
<1> QED BY <1>1, <1>2, <1>3, <1>4, <1>5, <1>6, <1>7, <1>8, <1>9 DEF Next, Tick

LEMMA InitIInv == Init => IInv
<1> SUFFICES ASSUME Init PROVE IInv
  OBVIOUS
<1>1. ViewBehind /\ WrittenFirst /\ Journaled
  BY DEF Init, ViewBehind, WrittenFirst, Journaled, Undecided
<1> QED BY <1>1, InitTypeOK DEF IInv

LEMMA NextIInv == IInv /\ [Next]_vars => IInv'
BY TypeOKStep, ViewBehindStep, WrittenFirstStep, JournaledStep DEF IInv

(* Every behaviour keeps the inductive invariant. *)
THEOREM Invariant == Spec => []IInv
BY InitIInv, NextIInv, PTL DEF Spec

(* Every variable keeps its type, and only a watched Task has an answer.   *)
THEOREM TypeCorrect == Spec => []TypeOK
<1>1. IInv => TypeOK
  BY DEF IInv
<1> QED BY <1>1, Invariant, PTL

(* planter_pending.tsv names every request that can still take effect, and *)
(* until it cannot the planter watches it or is paused.                    *)
THEOREM JournaledAlways == Spec => []Journaled
<1>1. IInv => Journaled
  BY DEF IInv
<1> QED BY <1>1, Invariant, PTL

-----------------------------------------------------------------------------
(* Refinement *)

LEMMA JournalStep ==
  ASSUME IInv, [Next]_vars
  PROVE  [Journal!Next]_(Journal!vars)
<1> USE DEF IInv
<1>1. CASE RecoverWaits \/ Idle \/ ObserveFailure \/ ObserveResponse \/ StartFails
  <2>1. UNCHANGED <<calls, stage, ledger, writing>>
    BY <1>1 DEF RecoverWaits, Idle, ObserveFailure, ObserveResponse, StartFails, files, server
  <2> QED BY <2>1, UndecidedUnchanged DEF Journal!vars
<1>2. CASE Recover \/ ObserveConfirmed
  <2>1. Undecided = {} /\ Undecided' = {}
    BY <1>2, RecoverEmpty, ConfirmedEmpty, UndecidedUnchanged DEF Recover, ObserveConfirmed, server
  <2>2. writing = None /\ writing' = None /\ ledger' \in {None, ledger}
    BY <1>2 DEF Recover, ObserveConfirmed, Looking, Ticking
  <2> QED BY <2>1, <2>2 DEF Journal!Next, Journal!Forget, Journal!vars
<1>3. ASSUME NEW m \in Mutation, StartWrite(m) PROVE Journal!Write(m)
  <2>1. Undecided = {} /\ Undecided' = {}
    BY <1>3, NothingElse, UndecidedUnchanged DEF StartWrite, CanStart, server
  <2>2. m # None
    BY PlanterAssumption
  <2> QED BY <1>3, <2>1, <2>2 DEF StartWrite, CanStart, Ticking, Journal!Write
<1>4. CASE CallSent \/ CallUncertain
  <2>1. Undecided' \in {{}, {ledger}}
    <3>1. Undecided' \subseteq {writing} /\ ledger = writing
      BY <1>4, NothingElse DEF CallSent, CallUncertain, Undecided, MayTake, WrittenFirst
    <3> QED BY <3>1
  <2> QED BY <1>4, <2>1 DEF CallSent, CallUncertain, files, Journal!Next, Journal!Send
<1>5. CASE Restart
  <2>1. Undecided' = Undecided
    BY <1>5, UndecidedUnchanged DEF Restart, server
  <2> QED BY <1>5, <2>1 DEF Restart, Journal!Next, Journal!Abandon, Journal!vars
<1>6. CASE Environment
  <2>1. Undecided \subseteq {ledger}
    BY DEF Journaled
  <2>2. Undecided' = Undecided \/ Undecided' = {}
    BY <1>6, <2>1, EnvironmentSettles
  <2> QED BY <1>6, <2>2, EnvironmentSettles DEF Journal!Next, Journal!Settle, Journal!vars
<1>7. CASE UNCHANGED vars
  BY <1>7, UndecidedUnchanged DEF vars, files, memory, server, Journal!vars
<1> QED BY <1>1, <1>2, <1>3, <1>4, <1>5, <1>6, <1>7 DEF Next, Tick, Journal!Next

(* The planter implements MutationJournal: a request is written before it  *)
(* is sent, sent at most once, and neither struck out nor written over     *)
(* while it can take effect, across restarts and manual recoveries.        *)
THEOREM ImplementsJournal == Spec => RefinesJournal
<1>1. Init => Journal!Init
  BY DEF Init, Journal!Init, Undecided
<1> QED BY <1>1, JournalStep, Invariant, PTL DEF Spec, RefinesJournal, Journal!Spec
=============================================================================
