------------------------------- MODULE Return -------------------------------
(***************************************************************************)
(* The return engine: completing the tasks Pikmin bring home, one per      *)
(* process (mode "one"), up to a limit ("batch") or until none is due      *)
(* ("all").  Once a second the game's update thread calls                  *)
(* maybe_dispatch_one_return_task() and then maybe_dispatch_return_batch();*)
(* each reads the mode file for itself, so the controller may write it in  *)
(* between, and they share last_return_batch_mode and                      *)
(* return_batch_pending_id.  Nobody looks at the Task of a completion: it  *)
(* counts as done when its id is absent from a complete task list.         *)
(*                                                                         *)
(* The server, the task-list projection, the player and the controller are *)
(* the environment.  Status, history and candidates files are left out.    *)
(***************************************************************************)
EXTENDS Naturals, FiniteSets

CONSTANTS
  Task,     \* the tasks of Pikmin, by id
  None,     \* no task: the empty id
  Proto,    \* what a task carries: its case, requirement, resource and finish time
  Horizon,  \* bound of the clock
  Modes,    \* what the mode file may hold
  Limits    \* what the limit file may hold

Automatic == {"batch", "all"}

ASSUME ReturnAssumption ==
  /\ None \notin Task
  /\ Proto \in [Task -> [carry : BOOLEAN, requirement : Nat, resource : BOOLEAN, finish : Nat]]
  /\ Horizon \in Nat \ {0}
  /\ Modes \subseteq {"dry-run", "off", "one"} \cup Automatic
  /\ Limits \subseteq 1..5

VARIABLES
  mode,           \* the return mode file
  limit           \* the batch limit file

VARIABLES         \* the memory of the game process
  pc,             \* which of the two functions runs next
  captured,       \* the hooks have captured the game's managers
  one_dispatched, one_waiting,
  last_mode,      \* last_return_batch_mode
  pending,        \* return_batch_pending_id
  batch,          \* return_batch_waiting, _stopped, _completed
  overdue         \* more than 60 s since return_batch_dispatched_ms

VARIABLES         \* the environment
  now,            \* the clock
  task,           \* a task on the server: "ahead" of its creation, "here", "gone"
  calls,          \* tasks with a completion request the server may grant
  seen            \* the tasks of the task-list projection

VARIABLES         \* history
  shot,           \* the task of the one-shot, None once a batch has begun since
  sent            \* the tasks requested since batch was last reset

files  == <<mode, limit>>
memory == <<pc, captured, one_dispatched, one_waiting, last_mode, pending, batch, overdue, shot, sent>>
server == <<task, calls>>
vars   == <<files, memory, now, server, seen>>

Batch == [waiting : BOOLEAN, stopped : BOOLEAN, completed : Nat]

NoBatch == [waiting |-> FALSE, stopped |-> FALSE, completed |-> 0]

TypeOK ==
  /\ mode \in Modes
  /\ limit \in Limits
  /\ pc \in {"one", "batch"}
  /\ captured \in BOOLEAN
  /\ one_dispatched \in BOOLEAN
  /\ one_waiting \in BOOLEAN
  /\ last_mode \in {"", "one"} \cup Modes
  /\ pending \in Task \cup {None}
  /\ batch \in Batch
  /\ pending # None => one_waiting \/ batch.waiting
  /\ overdue \in BOOLEAN
  /\ now \in 1..Horizon
  /\ task \in [Task -> {"ahead", "here", "gone"}]
  /\ calls \subseteq Task
  /\ seen \subseteq Task
  /\ shot \in Task \cup {None}
  /\ sent \subseteq Task

Init ==
  /\ mode \in Modes /\ limit \in Limits
  /\ pc = "one" /\ captured = FALSE
  /\ one_dispatched = FALSE /\ one_waiting = FALSE
  /\ last_mode = "" /\ pending = None /\ batch = NoBatch /\ overdue = FALSE
  /\ now = 1
  /\ task = [t \in Task |-> "ahead"] /\ calls = {} /\ seen = {}
  /\ shot = None /\ sent = {}

-----------------------------------------------------------------------------
(* return_policy.h, and what is read from the task list *)

CollectableCarryResource(p, at) ==
  p.carry /\ p.requirement \in {0, 1} /\ p.resource /\ p.finish <= at

ReturnTaskReady(p, at) ==
  (p.finish > 0 /\ p.finish <= at) \/ CollectableCarryResource(p, at)

(* Mutant of CompleteReturnList: entries that cannot be read are skipped. *)
CompleteAnyList(items) == items \subseteq seen

(* A list some of whose entries cannot be read shows fewer items than the  *)
(* projection has.                                                         *)
CompleteReturnList(items) == items = seen

Ready(items) == {t \in items : ReturnTaskReady(Proto[t], now)}

(* The request goes out, or StartTask fails: the result is not looked at. *)
Complete(t) == calls' \in {calls, calls \cup {t}}

-----------------------------------------------------------------------------
(* maybe_dispatch_one_return_task() *)

OneIdle(items) ==
  /\ pc = "one" /\ pc' = "batch"
  /\ \/ mode # "one" \/ ~captured \/ ~CompleteReturnList(items)
     \/ one_waiting /\ pending \in items
     \/ ~one_waiting /\ (one_dispatched \/ Ready(items) = {})
  /\ UNCHANGED <<files, captured, one_dispatched, one_waiting, last_mode, pending, batch,
                 overdue, now, server, seen, shot, sent>>

OneConfirm(items) ==
  /\ pc = "one" /\ pc' = "batch"
  /\ mode = "one" /\ captured /\ CompleteReturnList(items)
  /\ one_waiting /\ pending \notin items
  /\ one_waiting' = FALSE /\ pending' = None
  /\ UNCHANGED <<files, captured, one_dispatched, last_mode, batch, overdue, now, server, seen,
                 shot, sent>>

OneSend(items, t) ==
  /\ pc = "one" /\ pc' = "batch"
  /\ mode = "one" /\ captured /\ CompleteReturnList(items)
  /\ ~one_dispatched /\ t \in Ready(items)
  /\ one_dispatched' = TRUE /\ one_waiting' = TRUE
  /\ last_mode' = "one" /\ pending' = t /\ shot' = t
  /\ Complete(t)
  /\ UNCHANGED <<files, captured, batch, overdue, now, task, seen, sent>>

-----------------------------------------------------------------------------
(* maybe_dispatch_return_batch() *)

(* Mutant of Leaving: every call in another mode drops the pending id. *)
LeavingAlways == mode \notin Automatic

Leaving == mode \notin Automatic /\ last_mode \in Automatic

(* What the call works with: entering a batch mode, also from the other    *)
(* one, begins anew.                                                       *)
Entering == mode \in Automatic /\ last_mode # mode

Reset    == Leaving \/ Entering

Current  == IF Reset THEN NoBatch ELSE batch

CurrentPending == IF Reset THEN None ELSE pending

CurrentSent == IF Reset THEN {} ELSE sent

(* Mutant of LimitReached: off by one. *)
LimitPassed == mode = "batch" /\ Current.completed > limit

LimitReached == mode = "batch" /\ Current.completed >= limit

(* Another mode, or an entry that is followed by an early return, or       *)
(* nothing to do.                                                          *)
BatchIdle(items) ==
  /\ pc = "batch" /\ pc' = "one"
  /\ \/ mode \notin Automatic \/ Current.stopped \/ ~captured \/ ~CompleteReturnList(items)
     \/ Current.waiting /\ CurrentPending \in items /\ ~overdue
     \/ ~Current.waiting /\ ~LimitReached /\ Ready(items) = {}
  /\ last_mode' = mode
  /\ batch' = Current /\ pending' = CurrentPending /\ sent' = CurrentSent
  /\ shot' = IF mode \in Automatic THEN None ELSE shot
  /\ UNCHANGED <<files, captured, one_dispatched, one_waiting, overdue, now, server, seen>>

(* A call in batch mode that does something. *)
Working(items) ==
  /\ pc = "batch" /\ pc' = "one"
  /\ mode \in Automatic /\ ~Current.stopped /\ captured /\ CompleteReturnList(items)
  /\ last_mode' = mode /\ shot' = None
  /\ UNCHANGED <<files, captured, one_dispatched, one_waiting, now, task, seen>>

(* Mutant of BatchConfirm: the id stays behind. *)
BatchConfirmKeepsId(items) ==
  /\ Working(items)
  /\ Current.waiting /\ CurrentPending \notin items
  /\ batch' = [Current EXCEPT !.waiting = FALSE, !.completed = @ + 1]
  /\ pending' = CurrentPending /\ sent' = CurrentSent
  /\ UNCHANGED <<overdue, calls>>

BatchConfirm(items) ==
  /\ Working(items)
  /\ Current.waiting /\ CurrentPending \notin items
  /\ batch' = [Current EXCEPT !.waiting = FALSE, !.completed = @ + 1]
  /\ pending' = None /\ sent' = CurrentSent
  /\ UNCHANGED <<overdue, calls>>

(* Mutant of BatchTimeOut: a request of 60 s ago is only reported. *)
BatchTimeOutReported(items) ==
  /\ Working(items)
  /\ Current.waiting /\ CurrentPending \in items /\ overdue
  /\ batch' = Current /\ pending' = CurrentPending /\ sent' = CurrentSent
  /\ UNCHANGED <<overdue, calls>>

BatchTimeOut(items) ==
  /\ Working(items)
  /\ Current.waiting /\ CurrentPending \in items /\ overdue
  /\ batch' = [Current EXCEPT !.stopped = TRUE]
  /\ pending' = CurrentPending /\ sent' = CurrentSent
  /\ UNCHANGED <<overdue, calls>>

BatchPause(items) ==
  /\ Working(items)
  /\ ~Current.waiting /\ LimitReached
  /\ batch' = [Current EXCEPT !.stopped = TRUE]
  /\ pending' = CurrentPending /\ sent' = CurrentSent
  /\ UNCHANGED <<overdue, calls>>

BatchSend(items, t) ==
  /\ Working(items)
  /\ ~Current.waiting /\ ~LimitReached /\ t \in Ready(items)
  /\ batch' = [Current EXCEPT !.waiting = TRUE]
  /\ pending' = t /\ sent' = CurrentSent \cup {t}
  /\ overdue' = FALSE
  /\ Complete(t)

OneStep == \E items \in SUBSET seen :
  OneIdle(items) \/ OneConfirm(items) \/ \E t \in Task : OneSend(items, t)

BatchStep(items) ==
  \/ BatchIdle(items) \/ BatchConfirm(items) \/ BatchTimeOut(items) \/ BatchPause(items)
  \/ \E t \in Task : BatchSend(items, t)

-----------------------------------------------------------------------------
(* The environment *)

(* The constructors' hooks run on the update thread. *)
Capture ==
  /\ pc = "one" /\ captured' = TRUE
  /\ UNCHANGED <<files, pc, one_dispatched, one_waiting, last_mode, pending, batch, overdue,
                 now, server, seen, shot, sent>>

Control ==
  /\ mode' \in Modes /\ limit' \in Limits
  /\ UNCHANGED <<memory, now, server, seen>>

(* More than 60 s pass since a batch request. *)
Elapse ==
  /\ batch.waiting /\ overdue' = TRUE
  /\ UNCHANGED <<files, pc, captured, one_dispatched, one_waiting, last_mode, pending, batch,
                 now, server, seen, shot, sent>>

Clock ==
  /\ now < Horizon /\ now' = now + 1
  /\ UNCHANGED <<files, memory, server, seen>>

Appear(t) ==
  /\ task[t] = "ahead" /\ task' = [task EXCEPT ![t] = "here"]
  /\ UNCHANGED <<files, memory, now, calls, seen>>

(* The server grants a completion, refuses it, or it was lost. *)
Grant(t) ==
  /\ t \in calls /\ task[t] = "here"
  /\ task' = [task EXCEPT ![t] = "gone"] /\ calls' = calls \ {t}
  /\ UNCHANGED <<files, memory, now, seen>>

Refuse(t) ==
  /\ t \in calls /\ calls' = calls \ {t}
  /\ UNCHANGED <<files, memory, now, task, seen>>

PlayerCollects(t) ==
  /\ task[t] = "here" /\ task' = [task EXCEPT ![t] = "gone"]
  /\ UNCHANGED <<files, memory, now, calls, seen>>

(* The projection catches up with the server, one task at a time. *)
Refresh(t) ==
  /\ pc = "one"
  /\ seen' = IF task[t] = "here" THEN seen \cup {t} ELSE seen \ {t}
  /\ UNCHANGED <<files, memory, now, server>>

(* The process ends; the next one has the projection of the server. *)
Restart ==
  /\ pc' = "one" /\ captured' = FALSE
  /\ one_dispatched' = FALSE /\ one_waiting' = FALSE
  /\ last_mode' = "" /\ pending' = None /\ batch' = NoBatch /\ overdue' = FALSE
  /\ shot' = None /\ sent' = {}
  /\ seen' = {t \in Task : task[t] = "here"}
  /\ UNCHANGED <<files, now, server>>

Environment ==
  \/ Capture \/ Control \/ Elapse \/ Clock
  \/ \E t \in Task : Appear(t) \/ Grant(t) \/ Refuse(t) \/ PlayerCollects(t) \/ Refresh(t)

Next == OneStep \/ (\E items \in SUBSET seen : BatchStep(items)) \/ Environment \/ Restart

Spec == Init /\ [][Next]_vars

(* The update thread keeps calling, complete lists keep coming, and time   *)
(* passes.  Nothing makes the server answer.                               *)
FairSpec ==
  /\ Spec
  /\ WF_vars(OneStep) /\ SF_vars(BatchStep(seen)) /\ WF_vars(Elapse)

-----------------------------------------------------------------------------
(* Properties *)

(* A batch counts what it asked for, each task once, and everything it has *)
(* counted is really gone, whatever entries could not be read and however  *)
(* one-shot calls shared the pending id: at most one of its requests is    *)
(* open at any time.                                                       *)
CountedAreGone ==
  /\ Cardinality(sent) = batch.completed + (IF batch.waiting THEN 1 ELSE 0)
  /\ \E open \in SUBSET sent :
       /\ IF batch.waiting THEN \E t \in sent : open = {t} ELSE open = {}
       /\ \A t \in sent \ open : task[t] = "gone"

(* A batch asks for no more tasks, since it began, than the limit file     *)
(* allows at that moment, although the file may change under way.          *)
BatchLimit ==
  [][mode = "batch" /\ sent' # sent => Cardinality(sent') <= limit]_vars

(* What a batch asks for, counts and gives up keeps BatchPromise; this     *)
(* includes BatchLimit.                                                    *)
Promise == INSTANCE BatchPromise WITH
  asked <- sent, count <- batch.completed, gone <- {t \in Task : task[t] = "gone"},
  bounded <- (mode = "batch"), limit <- limit

RefinesBatch == Promise!Spec

(* Unless a batch has begun since, the one-shot waits for its own task,    *)
(* and reports it done only when it is.                                    *)
OneShotTrue ==
  shot # None => IF one_waiting THEN pending = shot ELSE task[shot] = "gone"

(* In mode "all" the engine does not hang on a request: it comes to a      *)
(* state in which no listed task is due, or it has stopped, whatever the   *)
(* server answers or does not.                                             *)
Drains ==
  <>[](mode = "all" /\ captured) => []<>(batch.stopped \/ Ready(seen) = {})
=============================================================================
