---------------------------- MODULE Return_proofs ----------------------------
(***************************************************************************)
(* What a batch return counts is really gone, a batch stays within its     *)
(* limit and keeps BatchPromise, and a one-shot return confirms its own    *)
(* task.                                                                   *)
(***************************************************************************)
EXTENDS Return, FiniteSetTheorems, TLAPS

(* A task that was asked for was listed; one no longer listed is gone. *)
Departed(t) == t \notin seen /\ task[t] = "gone"

ListedAppeared == \A t \in seen : task[t] # "ahead"

AskedFor == \A t \in Task : t \in sent \/ t = shot => t \in seen \/ task[t] = "gone"

(* A session counts each task once. *)
Counts(b, s) ==
  IsFiniteSet(s) /\ Cardinality(s) = b.completed + (IF b.waiting THEN 1 ELSE 0)

(* It waits for nothing but p, unless a one-shot call has found p gone. *)
WaitsFor(b, p, s) ==
  IF b.waiting
  THEN \/ p \in s /\ \A t \in s \ {p} : t \notin seen
       \/ p = None /\ \A t \in s : t \notin seen
  ELSE \A t \in s : t \notin seen

(* The same when another mode has taken the id over. *)
WaitsForOne(b, s) ==
  IF b.waiting
  THEN \E p \in s : \A t \in s \ {p} : t \notin seen
  ELSE \A t \in s : t \notin seen

SessionInv ==
  /\ Counts(batch, sent)
  /\ WaitsForOne(batch, sent)
  /\ last_mode \in Automatic => WaitsFor(batch, pending, sent)

(* The session the call of a batch mode works with. *)
CurrentInv ==
  /\ Current \in Batch /\ CurrentPending \in Task \cup {None} /\ CurrentSent \subseteq sent
  /\ CurrentPending # None => one_waiting \/ Current.waiting
  /\ Counts(Current, CurrentSent)
  /\ WaitsFor(Current, CurrentPending, CurrentSent)

OneShotInv ==
  shot # None =>
    /\ last_mode \notin Automatic
    /\ IF one_waiting THEN pending = shot ELSE shot \notin seen

IInv ==
  /\ TypeOK /\ ListedAppeared /\ AskedFor
  /\ SessionInv /\ OneShotInv

-----------------------------------------------------------------------------
(* Type correctness *)

LEMMA InitTypeOK == Init => TypeOK
<1>1. Horizon \in Nat \ {0}
  BY ReturnAssumption
<1>2. 1 \in 1..Horizon
  BY <1>1
<1>3. NoBatch \in Batch
  BY DEF NoBatch, Batch
<1> QED BY <1>2, <1>3 DEF Init, TypeOK

LEMMA CurrentTyped ==
  ASSUME TypeOK
  PROVE  /\ Current \in Batch /\ CurrentPending \in Task \cup {None} /\ CurrentSent \subseteq sent
         /\ CurrentPending # None => one_waiting \/ Current.waiting
BY DEF TypeOK, Current, CurrentPending, CurrentSent, NoBatch, Batch

LEMMA TypeOKStep ==
  ASSUME TypeOK, [Next]_vars
  PROVE  TypeOK'
<1> USE CurrentTyped
<1>1. CASE OneStep
  <2>1. ASSUME NEW items \in SUBSET seen, OneIdle(items) PROVE TypeOK'
    BY <2>1 DEF OneIdle, TypeOK, files, server
  <2>2. ASSUME NEW items \in SUBSET seen, OneConfirm(items) PROVE TypeOK'
    BY <2>2 DEF OneConfirm, TypeOK, files, server
  <2>3. ASSUME NEW items \in SUBSET seen, NEW t \in Task, OneSend(items, t) PROVE TypeOK'
    BY <2>3 DEF OneSend, Complete, TypeOK, files
  <2> QED BY <1>1, <2>1, <2>2, <2>3 DEF OneStep
<1>2. ASSUME NEW items \in SUBSET seen, BatchStep(items) PROVE TypeOK'
  <2>1. CASE BatchIdle(items)
    BY <2>1 DEF BatchIdle, TypeOK, files, server
  <2>2. CASE BatchConfirm(items)
    <3>1. Current \in Batch
      BY CurrentTyped
    <3>2. batch' \in Batch
      <4>1. Current.completed \in Nat /\ Current.completed + 1 \in Nat
        BY <3>1 DEF Batch
      <4> QED BY <2>2, <3>1, <4>1 DEF BatchConfirm, Batch
    <3> QED BY <2>2, <3>2 DEF BatchConfirm, Working, TypeOK, files
  <2>3. CASE BatchTimeOut(items)
    <3>1. batch' \in Batch /\ batch'.waiting
      BY <2>3 DEF BatchTimeOut, Batch
    <3> QED BY <2>3, <3>1 DEF BatchTimeOut, Working, TypeOK, files
  <2>4. CASE BatchPause(items)
    <3>1. batch' \in Batch /\ batch'.waiting = Current.waiting
      BY <2>4 DEF BatchPause, Batch
    <3> QED BY <2>4, <3>1 DEF BatchPause, Working, TypeOK, files
  <2>5. ASSUME NEW t \in Task, BatchSend(items, t) PROVE TypeOK'
    <3>1. batch' \in Batch /\ batch'.waiting
      BY <2>5 DEF BatchSend, Batch
    <3> QED BY <2>5, <3>1 DEF BatchSend, Working, Complete, TypeOK, files
  <2> QED BY <1>2, <2>1, <2>2, <2>3, <2>4, <2>5 DEF BatchStep
<1>3. CASE Environment
  <2>1. CASE Capture
    BY <2>1 DEF Capture, TypeOK, files, server
  <2>2. CASE Control
    BY <2>2 DEF Control, TypeOK, memory, server
  <2>3. CASE Elapse
    BY <2>3 DEF Elapse, TypeOK, files, server
  <2>4. CASE Clock
    <3>1. Horizon \in Nat /\ now \in 1..Horizon
      BY ReturnAssumption DEF TypeOK
    <3>2. now' \in 1..Horizon
      BY <2>4, <3>1 DEF Clock
    <3> QED BY <2>4, <3>2 DEF Clock, TypeOK, files, memory, server
  <2>5. ASSUME NEW t \in Task, Appear(t) \/ Grant(t) \/ Refuse(t) \/ PlayerCollects(t)
        PROVE TypeOK'
    BY <2>5 DEF Appear, Grant, Refuse, PlayerCollects, TypeOK, files, memory
  <2>6. ASSUME NEW t \in Task, Refresh(t) PROVE TypeOK'
    BY <2>6 DEF Refresh, TypeOK, files, memory, server
  <2> QED BY <1>3, <2>1, <2>2, <2>3, <2>4, <2>5, <2>6 DEF Environment
<1>4. CASE Restart
  BY <1>4 DEF Restart, TypeOK, NoBatch, Batch, files, server
<1>5. CASE UNCHANGED vars
  BY <1>5 DEF TypeOK, vars, files, memory, server
<1> QED BY <1>1, <1>2, <1>3, <1>4, <1>5 DEF Next

(* Every variable keeps its type, and an id is kept only for a request     *)
(* that is watched.                                                        *)
THEOREM TypeCorrect == Spec => []TypeOK
<1>1. Init => TypeOK
  BY InitTypeOK
<1>2. TypeOK /\ [Next]_vars => TypeOK'
  BY TypeOKStep
<1> QED BY <1>1, <1>2, PTL DEF Spec

-----------------------------------------------------------------------------
(* The invariant *)

LEMMA LimitsAreNat == \A n \in Limits : n \in Nat /\ n >= 1
<1>1. Limits \subseteq 1..5
  BY ReturnAssumption
<1> QED BY <1>1

LEMMA EmptyCounts == Counts(NoBatch, {})
BY FS_EmptySet DEF Counts, NoBatch

LEMMA InitIInv == Init => IInv
<1> SUFFICES ASSUME Init PROVE IInv
  OBVIOUS
<1>1. TypeOK
  BY InitTypeOK
<1>2. ListedAppeared /\ AskedFor /\ OneShotInv
  BY ReturnAssumption DEF Init, ListedAppeared, AskedFor, OneShotInv
<1>3. SessionInv
  BY EmptyCounts DEF Init, SessionInv, WaitsForOne, WaitsFor, NoBatch
<1> QED BY <1>1, <1>2, <1>3 DEF IInv

(* A call in a batch mode works with a session that is in order, whether   *)
(* it goes on with the old one or begins a new one.                        *)
LEMMA CurrentOK ==
  ASSUME IInv, mode \in Automatic
  PROVE  CurrentInv
<1>0. TypeOK /\ SessionInv
  BY DEF IInv
<1>1. CASE Reset
  <2>1. Current = NoBatch /\ CurrentPending = None /\ CurrentSent = {}
    BY <1>1 DEF Current, CurrentPending, CurrentSent
  <2>4. Counts(Current, CurrentSent)
    BY <2>1, EmptyCounts
  <2>5. WaitsFor(Current, CurrentPending, CurrentSent)
    BY <2>1 DEF WaitsFor, NoBatch
  <2> QED BY <1>0, <2>1, <2>4, <2>5, CurrentTyped DEF CurrentInv
<1>2. CASE ~Reset
  <2>1. Current = batch /\ CurrentPending = pending /\ CurrentSent = sent
    BY <1>2 DEF Current, CurrentPending, CurrentSent
  <2>2. last_mode = mode
    BY <1>2 DEF Reset, Entering
  <2> QED BY <1>0, <2>1, <2>2, CurrentTyped DEF CurrentInv, SessionInv
<1> QED BY <1>1, <1>2

(* A session in order is left in order by a call that ends with it. *)
LEMMA SessionKept ==
  ASSUME IInv, last_mode' \in Automatic, UNCHANGED <<seen, task>>, shot' = None,
         Counts(batch', sent'), WaitsFor(batch', pending', sent'), sent' \subseteq Task,
         sent' # {} \/ ~batch'.waiting,
         \A t \in sent' : t \in sent \/ t \in seen
  PROVE  ListedAppeared' /\ AskedFor' /\ SessionInv' /\ OneShotInv'
<1>1. ListedAppeared'
  BY DEF IInv, ListedAppeared
<1>2. AskedFor'
  BY ReturnAssumption DEF IInv, AskedFor
<1>3. SessionInv'
  <2>1. Counts(batch, sent)'
    BY DEF Counts
  <2>2. WaitsFor(batch, pending, sent)'
    BY DEF WaitsFor
  <2>3. WaitsForOne(batch, sent)'
    BY <2>2 DEF WaitsFor, WaitsForOne
  <2> QED BY <2>1, <2>2, <2>3 DEF SessionInv
<1>4. OneShotInv'
  BY DEF OneShotInv
<1> QED BY <1>1, <1>2, <1>3, <1>4

(* A session that waits has asked for something. *)
LEMMA WaitingAsked ==
  ASSUME NEW b \in Batch, NEW s, Counts(b, s), b.waiting
  PROVE  s # {}
<1>1. Cardinality(s) = b.completed + 1 /\ b.completed \in Nat
  BY DEF Counts, Batch
<1> QED BY <1>1, FS_EmptySet

(* One call of maybe_dispatch_return_batch(). *)
LEMMA BatchIInv ==
  ASSUME IInv, NEW items \in SUBSET seen, BatchStep(items), mode \in Automatic
  PROVE  ListedAppeared' /\ AskedFor' /\ SessionInv' /\ OneShotInv'
<1>1. CurrentInv /\ TypeOK /\ last_mode' = mode /\ shot' = None /\ UNCHANGED <<seen, task>>
  BY CurrentOK DEF IInv, BatchStep, BatchIdle, BatchConfirm, BatchTimeOut, BatchPause, BatchSend,
     Working, server
<1>2. CurrentSent \subseteq sent /\ sent \subseteq Task /\ Current \in Batch
  BY <1>1 DEF CurrentInv, TypeOK
<1>3. Counts(Current, CurrentSent) /\ WaitsFor(Current, CurrentPending, CurrentSent)
  BY <1>1 DEF CurrentInv
<1>5. Current.waiting => CurrentSent # {}
  BY <1>2, <1>3, WaitingAsked
<1>6. CASE sent' = CurrentSent /\ pending' = CurrentPending
           /\ batch' \in {Current, [Current EXCEPT !.stopped = TRUE]}
  <2>1. batch'.waiting = Current.waiting /\ batch'.completed = Current.completed
    BY <1>2, <1>6 DEF Batch
  <2>2. Counts(batch', sent') /\ WaitsFor(batch', pending', sent')
    BY <1>3, <1>6, <2>1 DEF Counts, WaitsFor
  <2> QED BY <1>1, <1>2, <1>5, <1>6, <2>1, <2>2, SessionKept
<1>7. CASE BatchConfirm(items)
  <2>1. /\ Current.waiting /\ CurrentPending \notin seen
        /\ sent' = CurrentSent /\ pending' = None
    BY <1>7 DEF BatchConfirm, Working, CompleteReturnList
  <2>2. ~batch'.waiting /\ batch'.completed = Current.completed + 1
    BY <1>2, <1>7 DEF BatchConfirm, Batch
  <2>3. Counts(batch', sent')
    <3>1. Current.completed \in Nat
      BY <1>2 DEF Batch
    <3> QED BY <1>3, <2>1, <2>2, <3>1 DEF Counts
  <2>4. WaitsFor(batch', pending', sent')
    BY <1>3, <2>1, <2>2 DEF WaitsFor
  <2> QED BY <1>1, <1>2, <2>1, <2>2, <2>3, <2>4, SessionKept
<1>8. ASSUME NEW t \in Task, BatchSend(items, t)
      PROVE ListedAppeared' /\ AskedFor' /\ SessionInv' /\ OneShotInv'
  <2>1. /\ ~Current.waiting /\ ~LimitReached /\ t \in seen
        /\ sent' = CurrentSent \cup {t} /\ pending' = t
    BY <1>8 DEF BatchSend, Working, Ready
  <2>2. batch'.waiting /\ batch'.completed = Current.completed
    BY <1>2, <1>8 DEF BatchSend, Batch
  <2>3. \A u \in CurrentSent : u \notin seen
    BY <1>3, <2>1 DEF WaitsFor
  <2>4. IsFiniteSet(sent') /\ Cardinality(sent') = Current.completed + 1
    <3>1. IsFiniteSet(CurrentSent) /\ Cardinality(CurrentSent) = Current.completed /\ t \notin CurrentSent
      <4>1. Current.completed \in Nat
        BY <1>2 DEF Batch
      <4> QED BY <1>3, <2>1, <2>3, <4>1 DEF Counts
    <3> QED BY <2>1, <3>1, FS_AddElement
  <2>5. Counts(batch', sent')
    BY <2>2, <2>4 DEF Counts
  <2>6. WaitsFor(batch', pending', sent')
    BY <2>1, <2>2, <2>3 DEF WaitsFor
  <2> QED BY <1>1, <1>2, <2>1, <2>2, <2>5, <2>6, SessionKept
<1> QED BY <1>6, <1>7, <1>8 DEF BatchStep, BatchIdle, BatchTimeOut, BatchPause

(* A step that leaves the sessions alone, while the list only gains tasks  *)
(* that are there and loses tasks that are not.                            *)
LEMMA ViewIInv ==
  ASSUME IInv, UNCHANGED <<one_dispatched, one_waiting, last_mode, pending, batch, shot, sent>>,
         \A t \in Task : task[t] # "ahead" => task'[t] # "ahead",
         \A t \in Task : task[t] = "gone" => task'[t] = "gone",
         \A t \in seen' : t \in seen \/ task[t] = "here",
         \A t \in seen : t \in seen' \/ task[t] = "gone",
         seen' \subseteq Task
  PROVE  ListedAppeared' /\ AskedFor' /\ SessionInv' /\ OneShotInv'
<1> USE DEF IInv
<1>0. TypeOK /\ sent \subseteq Task /\ shot \in Task \cup {None} /\ seen \subseteq Task
  BY DEF TypeOK
<1>1. ListedAppeared'
  BY <1>0 DEF ListedAppeared
<1>2. \A t \in Task : t \in sent \/ t = shot => (t \in seen' => t \in seen)
  BY DEF AskedFor
<1>3. AskedFor'
  BY <1>0 DEF AskedFor
<1>4. SessionInv'
  <2>1. Counts(batch, sent)'
    BY DEF SessionInv, Counts
  <2>2. WaitsForOne(batch, sent)'
    BY <1>0, <1>2 DEF SessionInv, WaitsForOne
  <2>3. (last_mode \in Automatic => WaitsFor(batch, pending, sent))'
    BY <1>0, <1>2 DEF SessionInv, WaitsFor, Automatic
  <2> QED BY <2>1, <2>2, <2>3 DEF SessionInv
<1>5. OneShotInv'
  BY <1>0, <1>2 DEF OneShotInv, Automatic
<1> QED BY <1>1, <1>3, <1>4, <1>5

LEMMA OneIInv ==
  ASSUME IInv, OneStep
  PROVE  ListedAppeared' /\ AskedFor' /\ SessionInv' /\ OneShotInv'
<1> USE DEF IInv
<1>0. UNCHANGED <<seen, task, batch, sent>> /\ TypeOK
  BY DEF OneStep, OneIdle, OneConfirm, OneSend, server
<1>1. ListedAppeared'
  BY <1>0 DEF ListedAppeared
<1>2. Counts(batch, sent)' /\ WaitsForOne(batch, sent)'
  BY <1>0 DEF SessionInv, Counts, WaitsForOne
<1>3. ASSUME NEW items \in SUBSET seen, OneIdle(items)
      PROVE AskedFor' /\ SessionInv' /\ OneShotInv'
  <2>1. UNCHANGED <<one_waiting, last_mode, pending, shot>>
    BY <1>3 DEF OneIdle
  <2>2. (last_mode \in Automatic => WaitsFor(batch, pending, sent))'
    BY <1>0, <2>1 DEF SessionInv, WaitsFor, Automatic
  <2> QED BY <1>0, <1>2, <2>1, <2>2 DEF AskedFor, SessionInv, OneShotInv, Automatic
<1>4. ASSUME NEW items \in SUBSET seen, OneConfirm(items)
      PROVE AskedFor' /\ SessionInv' /\ OneShotInv'
  <2>1. /\ UNCHANGED <<last_mode, shot>> /\ one_waiting /\ ~one_waiting' /\ pending' = None
        /\ pending \notin seen
    BY <1>4 DEF OneConfirm, CompleteReturnList
  <2>2. (last_mode \in Automatic => WaitsFor(batch, pending, sent))'
    BY <1>0, <2>1 DEF SessionInv, WaitsFor, Automatic
  <2>3. OneShotInv'
    BY <1>0, <2>1 DEF OneShotInv, Automatic
  <2> QED BY <1>0, <1>2, <2>1, <2>2, <2>3 DEF AskedFor, SessionInv
<1>5. ASSUME NEW items \in SUBSET seen, NEW t \in Task, OneSend(items, t)
      PROVE AskedFor' /\ SessionInv' /\ OneShotInv'
  <2>1. last_mode' = "one" /\ shot' = t /\ pending' = t /\ one_waiting' /\ t \in seen
    BY <1>5 DEF OneSend, Ready
  <2> QED BY <1>0, <1>2, <2>1 DEF AskedFor, SessionInv, OneShotInv, Automatic
<1> QED BY <1>1, <1>3, <1>4, <1>5 DEF OneStep

(* Another mode only ends what a batch mode has begun. *)
LEMMA LeaveIInv ==
  ASSUME IInv, NEW items \in SUBSET seen, BatchStep(items), mode \notin Automatic
  PROVE  ListedAppeared' /\ AskedFor' /\ SessionInv' /\ OneShotInv'
<1> USE DEF IInv
<1>0. /\ UNCHANGED <<seen, task, one_waiting, shot>> /\ last_mode' = mode
      /\ batch' = Current /\ pending' = CurrentPending /\ sent' = CurrentSent
  BY DEF BatchStep, BatchIdle, BatchConfirm, BatchTimeOut, BatchPause, BatchSend, Working, server
<1>1. ListedAppeared'
  BY <1>0 DEF ListedAppeared
<1>2. CASE last_mode \in Automatic
  <2>1. Reset
    BY <1>2 DEF Reset, Leaving
  <2>2. batch' = NoBatch /\ pending' = None /\ sent' = {} /\ shot = None
    BY <1>0, <1>2, <2>1 DEF Current, CurrentPending, CurrentSent, OneShotInv
  <2>3. Counts(batch', sent')
    BY <2>2, EmptyCounts
  <2>4. SessionInv'
    BY <1>0, <2>2, <2>3 DEF SessionInv, Counts, WaitsForOne, NoBatch, Automatic
  <2> QED BY <1>0, <1>1, <2>2, <2>4, ReturnAssumption DEF AskedFor, OneShotInv, Automatic
<1>3. CASE last_mode \notin Automatic
  <2>1. ~Reset
    BY <1>3 DEF Reset, Leaving, Entering
  <2>2. batch' = batch /\ pending' = pending /\ sent' = sent
    BY <1>0, <2>1 DEF Current, CurrentPending, CurrentSent
  <2>3. Counts(batch, sent)' /\ WaitsForOne(batch, sent)'
    BY <1>0, <2>2 DEF SessionInv, Counts, WaitsForOne
  <2> QED BY <1>0, <1>1, <2>2, <2>3 DEF AskedFor, SessionInv, OneShotInv, Automatic
<1> QED BY <1>2, <1>3

LEMMA EnvironmentIInv ==
  ASSUME IInv, Environment \/ UNCHANGED vars
  PROVE  ListedAppeared' /\ AskedFor' /\ SessionInv' /\ OneShotInv'
<1>0. TypeOK /\ ListedAppeared
  BY DEF IInv
<1>1. UNCHANGED <<one_dispatched, one_waiting, last_mode, pending, batch, shot, sent>>
  BY DEF Environment, Capture, Control, Elapse, Clock, Appear, Grant, Refuse, PlayerCollects, Refresh,
     vars, files, memory, server
<1>2. CASE UNCHANGED <<task, seen>>
  BY <1>0, <1>1, <1>2, ViewIInv DEF TypeOK
<1>3. ASSUME NEW t \in Task, Appear(t) \/ Grant(t) \/ PlayerCollects(t)
      PROVE ListedAppeared' /\ AskedFor' /\ SessionInv' /\ OneShotInv'
  <2>1. /\ seen' = seen /\ seen \subseteq Task
        /\ \A u \in Task : task[u] # "ahead" => task'[u] # "ahead"
        /\ \A u \in Task : task[u] = "gone" => task'[u] = "gone"
    BY <1>0, <1>3 DEF Appear, Grant, PlayerCollects, TypeOK
  <2> QED BY <1>1, <2>1, ViewIInv
<1>4. ASSUME NEW t \in Task, Refresh(t)
      PROVE ListedAppeared' /\ AskedFor' /\ SessionInv' /\ OneShotInv'
  <2>1. task' = task /\ seen \subseteq Task
    BY <1>0, <1>4 DEF Refresh, server, TypeOK
  <2>2. /\ \A u \in seen' : u \in seen \/ task[u] = "here"
        /\ \A u \in seen : u \in seen' \/ task[u] = "gone"
        /\ seen' \subseteq Task
    BY <1>0, <1>4, <2>1 DEF Refresh, TypeOK, ListedAppeared
  <2> QED BY <1>1, <2>1, <2>2, ViewIInv
<1>5. CASE \E t \in Task : Refuse(t)
  BY <1>2, <1>5 DEF Refuse
<1>6. CASE Capture \/ Control \/ Elapse \/ Clock \/ UNCHANGED vars
  BY <1>2, <1>6 DEF Capture, Control, Elapse, Clock, vars, server
<1> QED BY <1>3, <1>4, <1>5, <1>6 DEF Environment

LEMMA RestartIInv ==
  ASSUME IInv, Restart
  PROVE  ListedAppeared' /\ AskedFor' /\ SessionInv' /\ OneShotInv'
<1>1. /\ last_mode' = "" /\ batch' = NoBatch /\ shot' = None /\ sent' = {} /\ task' = task
      /\ seen' = {t \in Task : task[t] = "here"}
  BY DEF Restart, server
<1>2. Counts(batch', sent')
  BY <1>1, EmptyCounts
<1>3. SessionInv'
  BY <1>1, <1>2 DEF SessionInv, Counts, WaitsForOne, NoBatch, Automatic
<1>4. ListedAppeared' /\ AskedFor' /\ OneShotInv'
  BY <1>1, ReturnAssumption DEF ListedAppeared, AskedFor, OneShotInv
<1> QED BY <1>3, <1>4

THEOREM Inductive == Spec => []IInv
<1>1. Init => IInv
  BY InitIInv
<1>2. IInv /\ [Next]_vars => IInv'
  <2> SUFFICES ASSUME IInv, [Next]_vars PROVE IInv'
    OBVIOUS
  <2>1. TypeOK'
    BY TypeOKStep DEF IInv
  <2>2. ListedAppeared' /\ AskedFor' /\ SessionInv' /\ OneShotInv'
    BY OneIInv, BatchIInv, LeaveIInv, EnvironmentIInv, RestartIInv DEF Next
  <2> QED BY <2>1, <2>2 DEF IInv
<1> QED BY <1>1, <1>2, PTL DEF Spec

-----------------------------------------------------------------------------
(* The properties *)

(* For any tasks, limits and modes: what a batch has counted is gone, each *)
(* task once, and at most one of its requests is open.                     *)
THEOREM Counted == Spec => []CountedAreGone
<1>1. IInv => CountedAreGone
  <2> SUFFICES ASSUME IInv PROVE CountedAreGone
    OBVIOUS
  <2>1. TypeOK /\ AskedFor /\ Counts(batch, sent) /\ WaitsForOne(batch, sent) /\ sent \subseteq Task
    BY DEF IInv, SessionInv, TypeOK
  <2>2. CASE batch.waiting
    <3>1. PICK p \in sent : \A t \in sent \ {p} : t \notin seen
      BY <2>1, <2>2 DEF WaitsForOne
    <3>2. {p} \in SUBSET sent /\ \A t \in sent \ {p} : task[t] = "gone"
      BY <2>1, <3>1 DEF AskedFor
    <3> QED BY <2>1, <2>2, <3>1, <3>2 DEF CountedAreGone, Counts
  <2>3. CASE ~batch.waiting
    <3>1. {} \in SUBSET sent /\ \A t \in sent : task[t] = "gone"
      BY <2>1, <2>3 DEF AskedFor, WaitsForOne
    <3> QED BY <2>1, <2>3, <3>1 DEF CountedAreGone, Counts
  <2> QED BY <2>2, <2>3
<1> QED BY <1>1, Inductive, PTL

(* A call of batch mode that has not reached the limit has asked for fewer *)
(* tasks than that, because it waits for none.                             *)
LEMMA SendWithinLimit ==
  ASSUME IInv, NEW items \in SUBSET seen, NEW t \in Task, BatchSend(items, t), mode = "batch"
  PROVE  Cardinality(sent') <= limit
<1>1. CurrentInv /\ TypeOK
  BY CurrentOK DEF IInv, Automatic
<1>2. /\ ~Current.waiting /\ ~(Current.completed >= limit)
      /\ sent' = CurrentSent \cup {t}
  BY DEF BatchSend, LimitReached
<1>3. Current.completed \in Nat /\ limit \in Nat
  BY <1>1, LimitsAreNat DEF CurrentInv, TypeOK, Batch
<1>4. IsFiniteSet(CurrentSent) /\ Cardinality(CurrentSent) = Current.completed
  BY <1>1, <1>2, <1>3 DEF CurrentInv, Counts
<1>5. Cardinality(sent') \in Nat /\ Cardinality(sent') <= Current.completed + 1
  <2>1. CASE t \in CurrentSent
    <3>1. sent' = CurrentSent
      BY <1>2, <2>1
    <3> QED BY <1>3, <1>4, <3>1
  <2>2. CASE t \notin CurrentSent
    <3>1. Cardinality(CurrentSent \cup {t}) = Cardinality(CurrentSent) + 1
      BY <1>4, <2>2, FS_AddElement
    <3> QED BY <1>2, <1>3, <1>4, <3>1
  <2> QED BY <2>1, <2>2
<1> QED BY <1>2, <1>3, <1>5

(* A batch asks for no more than the limit file allows at that moment. *)
THEOREM Limited == Spec => BatchLimit
<1>1. IInv /\ [Next]_vars =>
        [mode = "batch" /\ sent' # sent => Cardinality(sent') <= limit]_vars
  <2> SUFFICES ASSUME IInv, Next, mode = "batch", sent' # sent PROVE Cardinality(sent') <= limit
    BY DEF vars, memory
  <2>1. CASE sent' = {}
    <3>1. limit \in Nat /\ Cardinality(sent') = 0
      BY <2>1, LimitsAreNat, FS_EmptySet DEF IInv, TypeOK
    <3> QED BY <3>1
  <2>2. CASE \E items \in SUBSET seen, t \in Task : BatchSend(items, t)
    BY <2>2, SendWithinLimit
  <2>3. CASE \E items \in SUBSET seen :
               BatchIdle(items) \/ BatchConfirm(items) \/ BatchTimeOut(items) \/ BatchPause(items)
    <3>1. sent' = CurrentSent
      BY <2>3 DEF BatchIdle, BatchConfirm, BatchTimeOut, BatchPause
    <3> QED BY <2>1, <3>1 DEF CurrentSent
  <2>4. ~OneStep /\ ~Environment
    BY DEF OneStep, OneIdle, OneConfirm, OneSend, Environment, Capture, Control, Elapse, Clock, Appear,
       Grant, Refuse, PlayerCollects, Refresh, memory
  <2>5. CASE Restart
    BY <2>1, <2>5 DEF Restart
  <2> QED BY <2>2, <2>3, <2>4, <2>5 DEF Next, BatchStep
<1> QED BY <1>1, Inductive, PTL DEF Spec, BatchLimit

(* Without a batch in between, a one-shot return waits for its own task    *)
(* and is over only when that is gone.                                     *)
THEOREM OneShotConfirmed == Spec => []OneShotTrue
<1>1. IInv => OneShotTrue
  BY DEF IInv, TypeOK, OneShotInv, OneShotTrue, AskedFor
<1> QED BY <1>1, Inductive, PTL

-----------------------------------------------------------------------------
(* The engine implements BatchPromise *)

Gone == {t \in Task : task[t] = "gone"}

(* The promise counts with a library of its own. *)
LEMMA SameCardinality == \A s : Promise!Cardinality(s) = Cardinality(s)
BY DEF Promise!Cardinality, Cardinality

(* What only the clock, files and flags see is a stutter or a new limit. *)
LEMMA ControlPromise ==
  ASSUME TypeOK', UNCHANGED <<sent, batch, task>>
  PROVE  [Promise!Next]_(Promise!vars)
<1>1. (mode' = "batch") \in BOOLEAN /\ limit' \in Nat
  BY LimitsAreNat DEF TypeOK
<1>2. Gone' = Gone
  BY DEF Gone
<1>3. Promise!Control
  BY <1>1, <1>2 DEF Promise!Control, Gone
<1> QED BY <1>3 DEF Promise!Next

(* The batch is given up, or has nothing to give up. *)
LEMMA AbandonPromise ==
  ASSUME sent' = {}, batch' = NoBatch, UNCHANGED <<task, mode, limit>>
  PROVE  Promise!Next
<1>1. batch'.completed = 0
  BY DEF NoBatch
<1>2. Promise!Abandon
  BY <1>1 DEF Promise!Abandon
<1> QED BY <1>2 DEF Promise!Next

(* What the server does only makes tasks go. *)
LEMMA VanishPromise ==
  ASSUME UNCHANGED <<sent, batch, mode, limit>>,
         \A t \in Task : task[t] = "gone" => task'[t] = "gone"
  PROVE  Promise!Next
<1>1. Promise!Vanish
  BY DEF Promise!Vanish
<1> QED BY <1>1 DEF Promise!Next

(* A call that asks for nothing and counts nothing. *)
LEMMA KeepPromise ==
  ASSUME TypeOK, sent' = CurrentSent, batch'.completed = Current.completed, UNCHANGED <<task, mode, limit>>
  PROVE  [Promise!Next]_(Promise!vars)
<1>1. CASE Reset
  <2>1. sent' = {} /\ batch'.completed = 0
    BY <1>1 DEF CurrentSent, Current, NoBatch
  <2>2. Promise!Abandon
    BY <2>1 DEF Promise!Abandon
  <2> QED BY <2>2 DEF Promise!Next
<1>2. CASE ~Reset
  BY <1>2 DEF CurrentSent, Current, Promise!vars
<1> QED BY <1>1, <1>2

(* An absent id is counted: nothing the batch has asked for is left. *)
LEMMA CountPromise ==
  ASSUME IInv, NEW items \in SUBSET seen, BatchConfirm(items)
  PROVE  Promise!Next
<1>1. /\ mode \in Automatic /\ Current.waiting /\ CurrentPending \notin seen
      /\ sent' = CurrentSent /\ UNCHANGED <<task, mode, limit>>
  BY DEF BatchConfirm, Working, CompleteReturnList, files
<1>2. CurrentInv /\ TypeOK
  BY <1>1, CurrentOK DEF IInv
<1>3. ~Reset
  BY <1>1 DEF Current, NoBatch
<1>4. Current = batch /\ CurrentPending = pending /\ CurrentSent = sent
  BY <1>3 DEF Current, CurrentPending, CurrentSent
<1>5. batch.completed \in Nat /\ Cardinality(sent) = batch.completed + 1
  BY <1>1, <1>2, <1>4 DEF CurrentInv, Counts, Batch
<1>6. batch'.completed = batch.completed + 1
  BY <1>2, <1>4 DEF BatchConfirm, CurrentInv, Batch
<1>7. sent \subseteq Task /\ \A t \in sent : t \notin seen
  BY <1>1, <1>2, <1>4 DEF CurrentInv, WaitsFor, TypeOK
<1>8. \A t \in sent : task[t] = "gone"
  BY <1>7 DEF IInv, AskedFor
<1>9. sent \subseteq {t \in Task : task[t] = "gone"}
  BY <1>7, <1>8
<1>10. Promise!Count
  BY <1>1, <1>4, <1>5, <1>6, <1>9, SameCardinality DEF Promise!Count
<1> QED BY <1>10 DEF Promise!Next

(* A request of a batch is its first, or nothing else of it is open. *)
LEMMA AskPromise ==
  ASSUME IInv, NEW items \in SUBSET seen, NEW t \in Task, BatchSend(items, t)
  PROVE  Promise!Next
<1>1. /\ mode \in Automatic /\ ~Current.waiting /\ ~LimitReached /\ t \in seen
      /\ sent' = CurrentSent \cup {t} /\ UNCHANGED <<task, mode, limit>>
  BY DEF BatchSend, Working, Ready, files
<1>2. CurrentInv /\ TypeOK
  BY <1>1, CurrentOK DEF IInv
<1>3. Current.completed \in Nat /\ limit \in Nat
  BY <1>2, LimitsAreNat DEF CurrentInv, TypeOK, Batch
<1>4. Cardinality(CurrentSent) = Current.completed
  BY <1>1, <1>2, <1>3 DEF CurrentInv, Counts
<1>5. t \notin CurrentSent
  BY <1>1, <1>2 DEF CurrentInv, WaitsFor
<1>6. CurrentSent \in {sent, {}}
  BY DEF CurrentSent
<1>7. batch'.completed = Cardinality(CurrentSent)
  BY <1>2, <1>4 DEF BatchSend, CurrentInv, Batch
<1>8. mode = "batch" => Cardinality(CurrentSent) < limit
  BY <1>1, <1>3, <1>4 DEF LimitReached
<1>9. CurrentSent = sent => batch.completed = Cardinality(sent)
  <2>1. CASE Reset
    <3>1. CurrentSent = {}
      BY <2>1 DEF CurrentSent
    <3>2. ASSUME sent = {} PROVE batch.completed = Cardinality(sent)
      <4>1. batch.completed \in Nat /\ Cardinality(sent) = 0
        BY <1>2, <3>2, FS_EmptySet DEF TypeOK, Batch
      <4>2. Cardinality(sent) = batch.completed + (IF batch.waiting THEN 1 ELSE 0)
        BY DEF IInv, SessionInv, Counts
      <4> QED BY <4>1, <4>2
    <3> QED BY <3>1, <3>2
  <2>2. CASE ~Reset
    BY <1>4, <2>2 DEF Current, CurrentSent
  <2> QED BY <2>1, <2>2
<1>10. Promise!Ask(t)
  BY <1>1, <1>5, <1>6, <1>7, <1>8, <1>9, SameCardinality DEF Promise!Ask
<1> QED BY <1>10 DEF Promise!Next

(* One call of maybe_dispatch_return_batch(). *)
LEMMA BatchStepPromise ==
  ASSUME IInv, NEW items \in SUBSET seen, BatchStep(items)
  PROVE  [Promise!Next]_(Promise!vars)
<1>1. CASE BatchIdle(items)
  BY <1>1, KeepPromise DEF BatchIdle, IInv, files, server
<1>2. CASE BatchTimeOut(items) \/ BatchPause(items)
  <2>1. sent' = CurrentSent /\ batch' = [Current EXCEPT !.stopped = TRUE] /\ UNCHANGED <<task, mode, limit>>
    BY <1>2 DEF BatchTimeOut, BatchPause, Working, files
  <2>2. batch'.completed = Current.completed
    BY <2>1, CurrentTyped DEF IInv, Batch
  <2> QED BY <2>1, <2>2, KeepPromise DEF IInv
<1> QED BY <1>1, <1>2, CountPromise, AskPromise DEF BatchStep

(* Every step of the engine and of its world keeps the promise. *)
LEMMA PromiseStep ==
  ASSUME IInv, TypeOK', [Next]_vars
  PROVE  [Promise!Next]_(Promise!vars)
<1>1. CASE OneStep
  BY <1>1, ControlPromise DEF OneStep, OneIdle, OneConfirm, OneSend, server
<1>2. CASE \E items \in SUBSET seen : BatchStep(items)
  BY <1>2, BatchStepPromise
<1>3. CASE Capture \/ Control \/ Elapse \/ Clock \/ UNCHANGED vars
  BY <1>3, ControlPromise DEF Capture, Control, Elapse, Clock, memory, server, vars
<1>4. ASSUME NEW t \in Task, Appear(t) \/ Grant(t) \/ Refuse(t) \/ PlayerCollects(t) \/ Refresh(t)
      PROVE [Promise!Next]_(Promise!vars)
  <2>1. task \in [Task -> {"ahead", "here", "gone"}]
    BY DEF IInv, TypeOK
  <2>2. \A u \in Task : task[u] = "gone" => task'[u] = "gone"
    BY <1>4, <2>1 DEF Appear, Grant, Refuse, PlayerCollects, Refresh, server
  <2>3. UNCHANGED <<sent, batch, mode, limit>>
    BY <1>4 DEF Appear, Grant, Refuse, PlayerCollects, Refresh, files, memory
  <2> QED BY <2>2, <2>3, VanishPromise
<1>5. CASE Restart
  BY <1>5, AbandonPromise DEF Restart, files, server
<1> QED BY <1>1, <1>2, <1>3, <1>4, <1>5 DEF Next, Environment

(* Whatever modes, lists, answers and restarts do, a batch asks for one    *)
(* task at a time, for none twice, within the limit of the moment, and     *)
(* counts only when everything it asked for is gone from the server.       *)
THEOREM ImplementsPromise == Spec => RefinesBatch
<1>1. Init => Promise!Init
  <2> SUFFICES ASSUME Init PROVE Promise!Init
    OBVIOUS
  <2>1. limit \in Nat /\ batch.completed = 0
    BY LimitsAreNat DEF Init, NoBatch
  <2>2. {t \in Task : task[t] = "gone"} = {}
    BY DEF Init
  <2> QED BY <2>1, <2>2 DEF Promise!Init, Init
<1>2. IInv /\ TypeOK' /\ [Next]_vars => [Promise!Next]_(Promise!vars)
  BY PromiseStep
<1> QED BY <1>1, <1>2, Inductive, TypeCorrect, PTL DEF Spec, RefinesBatch, Promise!Spec
=============================================================================
