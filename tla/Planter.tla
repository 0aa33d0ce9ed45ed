------------------------------- MODULE Planter -------------------------------
(***************************************************************************)
(* The seed planter: planter_automation.inc plucks mature seedlings and    *)
(* plants stored seeds, one request at a time, and planter_recovery.inc    *)
(* releases it again by hand after a request of unknown outcome.  A        *)
(* request is written to the file planter_pending.tsv before it is sent,   *)
(* and the file survives the game process.                                 *)
(*                                                                         *)
(* tick() runs to its end on the game's update thread, but the process may *)
(* be killed between writing the file and sending the request, so these    *)
(* are two steps; every other action that names the tick is one whole call *)
(* of tick().  The server, the inventory projection, the player and the    *)
(* user of the controller are the environment.  Projected items follow the *)
(* server one at a time.  Times (5 s between actions and observations,     *)
(* 90 s of a recovery request) are choices.                                *)
(***************************************************************************)
EXTENDS Naturals, FiniteSets

CONSTANTS
  Seed,       \* the seeds of the account
  Slot,       \* the slots of the planter
  None,       \* no seed, no request, no file
  Unseen,     \* no observation
  Permanent,  \* the slots the planter may use: permanent_slot
  Special,    \* seeds not to be touched: DisableConsecutivePluck
  Kept,       \* seeds not to be planted: starred, or without a birthplace
  Rank,       \* order in which seeds are planted: required steps, then id
  Capacity,   \* how many Pikmin the account has room for
  Manual,     \* the seeds the player also handles
  Modes,      \* the modes the controller writes
  Selections  \* what the step file may select

(* A request, as planter_pending.tsv keeps it. *)
Mutation == [action : {"pluck", "plant"}, seed : Seed, slot : Slot]

ASSUME PlanterAssumption ==
  /\ {None, Unseen} \cap (Seed \cup Mutation) = {} /\ None # Unseen
  /\ Permanent \subseteq Slot
  /\ Rank \in [Seed -> Nat]
  /\ Capacity \in Nat
  /\ Modes \subseteq {"off", "pluck", "auto"}
  /\ Selections \subseteq SUBSET Seed

VARIABLES
  mode,       \* the planter mode file
  wanted,     \* the seeds whose step count the step file selects
  request,    \* the recovery request file, None if absent or unreadable
  ledger      \* the file planter_pending.tsv

VARIABLES     \* the memory of the game process
  writing,    \* the request tick() has written to the file and not yet sent
  pending,    \* the request whose Task is watched
  task,       \* that Task; "failed": faulted, refused, or an odd answer
  responded,  \* its result was read, and was good
  blocked,    \* why nothing is done: "unsent" if no request was made
  restart_blocked, \* the process found the file of an earlier one
  recovery    \* recovery_nonce, _waiting, and the observation of _proof_seen, _seen_at

VARIABLES     \* the environment
  stage,      \* the server's seeds
  pot,        \* the server's slots
  calls,      \* requests the server has not decided
  seen_stage, seen_pot, seen_born  \* the projection: seeds, slots, Pikmin

files  == <<mode, wanted, request, ledger>>
memory == <<writing, pending, task, responded, blocked, restart_blocked, recovery>>
server == <<stage, pot, calls>>
view   == <<seen_stage, seen_pot, seen_born>>
vars   == <<files, memory, server, view>>

Stage == {"stored", "growing", "ready", "gone"}

(* seen: the observation that can release the pause, the ledger it proves  *)
(* over, or None if no request was made.                                   *)
Recovery == [handled : BOOLEAN, waiting : BOOLEAN, seen : Mutation \cup {None, Unseen}]

NoRecovery == [handled |-> FALSE, waiting |-> FALSE, seen |-> Unseen]

TypeOK ==
  /\ mode \in {"off", "pluck", "auto"}
  /\ wanted \subseteq Seed
  /\ request \in [current : BOOLEAN, expected : Mutation \cup {None}] \cup {None}
  /\ ledger \in Mutation \cup {None}
  /\ writing \in Mutation \cup {None}
  /\ pending \in Mutation \cup {None}
  /\ task \in {"none", "running", "failed", "success"}
  /\ responded \in BOOLEAN
  /\ pending = None <=> task = "none"
  /\ responded => task = "success"
  /\ blocked \in {"no", "unsent", "review"}
  /\ restart_blocked \in BOOLEAN
  /\ recovery \in Recovery
  /\ stage \in [Seed -> Stage]
  /\ pot \in [Slot -> Seed \cup {None}]
  /\ calls \subseteq Mutation
  /\ seen_stage \in [Seed -> Stage]
  /\ seen_pot \in [Slot -> Seed \cup {None}]
  /\ seen_born \subseteq Seed

Init ==
  /\ mode = "off" /\ wanted = {} /\ request = None /\ ledger = None
  /\ writing = None /\ pending = None /\ task = "none" /\ responded = FALSE
  /\ blocked = "no" /\ restart_blocked = FALSE /\ recovery = NoRecovery
  /\ stage = [s \in Seed |-> "stored"]
  /\ pot = [k \in Slot |-> None]
  /\ calls = {}
  /\ seen_stage = stage /\ seen_pot = pot /\ seen_born = {}

-----------------------------------------------------------------------------
(* The inventory, as capture() sees it *)

(* Every slot names a seed that is listed, and no two the same. *)
Consistent ==
  /\ \A k \in Slot : seen_pot[k] # None => seen_stage[seen_pot[k]] # "gone"
  /\ \A k, l \in Slot : seen_pot[k] # None /\ seen_pot[k] = seen_pot[l] => k = l

Planted(s) == seen_stage[s] \in {"growing", "ready"}

Room == Cardinality(seen_born) < Capacity

Pluckable ==
  {m \in Mutation : /\ m.action = "pluck" /\ m.slot \in Permanent
                    /\ seen_pot[m.slot] = m.seed
                    /\ seen_stage[m.seed] = "ready" /\ m.seed \notin Special}

Candidates ==
  {s \in wanted \ (Special \cup Kept) :
     seen_stage[s] = "stored" /\ \A k \in Slot : seen_pot[k] # s}

Plantable ==
  {m \in Mutation : /\ m.action = "plant" /\ m.slot \in Permanent
                    /\ seen_pot[m.slot] = None
                    /\ m.seed \in Candidates
                    /\ \A s \in Candidates : Rank[m.seed] <= Rank[s]}

(* Mutant of Confirmed: one slot test for both actions. *)
ConfirmedInSlot(m) ==
  IF m.action = "pluck"
  THEN seen_stage[m.seed] = "gone" /\ m.seed \in seen_born /\ seen_pot[m.slot] = m.seed
  ELSE Planted(m.seed) /\ seen_pot[m.slot] = m.seed

(* observe_pending: the whole effect of the request is in the inventory. *)
Confirmed(m) ==
  IF m.action = "pluck"
  THEN seen_stage[m.seed] = "gone" /\ m.seed \in seen_born /\ seen_pot[m.slot] # m.seed
  ELSE Planted(m.seed) /\ seen_pot[m.slot] = m.seed

(* Mutant of Proved: a seed still in store was not planted. *)
ProvedUnchanged(m) ==
  /\ m.slot \in Permanent
  /\ IF m.action = "pluck"
     THEN seen_stage[m.seed] = "gone" /\ \A k \in Slot : seen_pot[k] # m.seed
     ELSE seen_pot[m.slot] = m.seed \/ seen_stage[m.seed] = "stored"

(* recovery_proof: the inventory proves the request over.  It never takes  *)
(* an unchanged seed for a failure.                                        *)
Proved(m) ==
  /\ m.slot \in Permanent
  /\ IF m.action = "pluck"
     THEN seen_stage[m.seed] = "gone" /\ \A k \in Slot : seen_pot[k] # m.seed
     ELSE Planted(m.seed) /\ seen_pot[m.slot] = m.seed

-----------------------------------------------------------------------------
(* recover(), the first part of every tick *)

(* What the request may be granted for: the ledger it names, if proved, or *)
(* that no request was made.                                               *)
Releasable ==
  /\ request.expected = ledger
  /\ IF ledger # None THEN Proved(ledger) ELSE ~restart_blocked /\ blocked = "unsent"

(* A request that is still to be decided; all others have been: their      *)
(* nonce is recovery_nonce.                                                *)
Open == request # None /\ ~(recovery.handled /\ ~recovery.waiting)

(* Too old or of another process, or a Task is watched, or a complete      *)
(* inventory does not prove it, or the file cannot be renamed.             *)
Refused ==
  \/ ~request.current \/ pending # None
  \/ Consistent /\ ~Releasable
  \/ Consistent /\ recovery.handled /\ recovery.seen = ledger /\ ledger # None

(* There is nothing to recover, or the request is refused: the tick goes on. *)
RecoverPasses ==
  \/ request = None /\ recovery' = [recovery EXCEPT !.waiting = FALSE, !.seen = Unseen]
  \/ request # None /\ ~Open /\ UNCHANGED recovery
  \/ Open /\ Refused /\ recovery' = [handled |-> TRUE, waiting |-> FALSE, seen |-> Unseen]

(* A request that is looked at. *)
Looking == writing = None /\ pending = None /\ Open /\ request.current

(* The request waits for a complete inventory, or for the second           *)
(* observation, and the rest of the tick with it.                          *)
RecoverWaits ==
  /\ Looking
  /\ \E seen \in {Unseen} \cup (IF Consistent /\ Releasable THEN {ledger} ELSE {}) :
       recovery' = [handled |-> TRUE, waiting |-> TRUE, seen |-> seen]
  /\ UNCHANGED <<files, writing, pending, task, responded, blocked, restart_blocked, server, view>>

(* The second observation, at least 5 s after the first.  The tick goes on *)
(* but does nothing more, for next_action is 5 s away.                     *)
Recover ==
  /\ Looking /\ Consistent /\ Releasable
  /\ recovery.handled /\ recovery.seen = ledger
  /\ ledger' = None
  /\ restart_blocked' = FALSE /\ blocked' = "no"
  /\ recovery' = [handled |-> TRUE, waiting |-> FALSE, seen |-> Unseen]
  /\ UNCHANGED <<mode, wanted, request, writing, pending, task, responded, server, view>>

-----------------------------------------------------------------------------
(* The rest of a tick that recover() lets pass *)

Ticking == writing = None /\ RecoverPasses

(* Mutant of Paused: the file of an earlier process does not count. *)
PausedByBlock == blocked # "no"

Paused  == restart_blocked \/ blocked # "no"

(* A tick that does nothing: it is paused or waits for its Task, or the    *)
(* inventory, the mode, the 5 s since the last action or the storage are   *)
(* against it, or there is nothing to do.                                  *)
Idle ==
  /\ Ticking
  /\ Paused \/ task \in {"none", "running"}
  /\ UNCHANGED <<files, writing, pending, task, responded, blocked, restart_blocked, server, view>>

(* Mutant of Finish: the next request inherits the answer. *)
FinishKeepsAnswer == pending' = None /\ task' = "none" /\ UNCHANGED responded

(* finish(): what the file and the pause become differs. *)
Finish == pending' = None /\ task' = "none" /\ responded' = FALSE

(* The Task failed, or its result cannot be read: the file stays. *)
ObserveFailure ==
  /\ Ticking /\ ~Paused /\ task \in {"failed", "success"} /\ ~responded
  /\ Finish /\ blocked' = "review"
  /\ UNCHANGED <<files, writing, restart_blocked, server, view>>

(* A good result that the inventory does not show yet. *)
ObserveResponse ==
  /\ Ticking /\ ~Paused /\ task = "success"
  /\ responded' = TRUE
  /\ UNCHANGED <<files, writing, pending, task, blocked, restart_blocked, server, view>>

(* Nobody looks whether the file could be removed. *)
ObserveConfirmed ==
  /\ Ticking /\ ~Paused /\ task = "success"
  /\ Consistent /\ Confirmed(pending)
  /\ Finish /\ ledger' \in {None, ledger}
  /\ UNCHANGED <<mode, wanted, request, writing, blocked, restart_blocked, server, view>>

CanStart ==
  /\ Ticking /\ ~Paused /\ pending = None
  /\ Consistent /\ mode # "off" /\ Room

(* Mature seedlings come first. *)
Chosen ==
  IF Pluckable # {} THEN Pluckable ELSE IF mode = "auto" THEN Plantable ELSE {}

(* The request cannot be built, or the file cannot be written. *)
StartFails ==
  /\ CanStart /\ Chosen # {}
  /\ blocked' = "unsent"
  /\ UNCHANGED <<files, writing, pending, task, responded, restart_blocked, server, view>>

StartWrite(m) ==
  /\ CanStart /\ m \in Chosen
  /\ ledger' = m /\ writing' = m
  /\ UNCHANGED <<mode, wanted, request, pending, task, responded, blocked, restart_blocked, server, view>>

(* The call is made, if the game does not die first.  It may return a Task *)
(* that can be kept; or a Task that cannot be kept, or none at all, which  *)
(* says nothing about the request.                                         *)
CallSent ==
  /\ writing # None
  /\ calls' = calls \cup {writing}
  /\ pending' = writing /\ task' = "running"
  /\ writing' = None
  /\ UNCHANGED <<files, responded, blocked, restart_blocked, recovery, stage, pot, view>>

CallUncertain ==
  /\ writing # None
  /\ calls' \in {calls, calls \cup {writing}}
  /\ blocked' = "review"
  /\ writing' = None
  /\ UNCHANGED <<files, pending, task, responded, restart_blocked, recovery, stage, pot, view>>

Tick ==
  \/ RecoverWaits \/ Recover
  \/ Idle \/ ObserveFailure \/ ObserveResponse \/ ObserveConfirmed
  \/ StartFails \/ \E m \in Mutation : StartWrite(m)
  \/ CallSent \/ CallUncertain

(* The process ends and the next one finds the file. *)
Restart ==
  /\ writing' = None /\ pending' = None /\ task' = "none" /\ responded' = FALSE
  /\ blocked' = "no" /\ recovery' = NoRecovery
  /\ restart_blocked' = (ledger # None)
  /\ request' = IF request = None THEN None ELSE [request EXCEPT !.current = FALSE]
  /\ seen_stage' = stage /\ seen_pot' = pot
  /\ seen_born' = {s \in Seed : stage[s] = "gone"}
  /\ UNCHANGED <<mode, wanted, ledger, server>>

-----------------------------------------------------------------------------
(* The environment *)

(* The controller writes the mode and step files, and a recovery request   *)
(* with a fresh nonce for the file it sees; the request goes away, becomes *)
(* unreadable or too old.                                                    *)
SetMode ==
  /\ mode' \in Modes
  /\ UNCHANGED <<wanted, request, ledger, memory, server, view>>

SetSteps ==
  /\ wanted' \in Selections
  /\ UNCHANGED <<mode, request, ledger, memory, server, view>>

WriteRequest ==
  /\ request' = [current |-> TRUE, expected |-> ledger]
  /\ recovery' = [recovery EXCEPT !.handled = FALSE]
  /\ UNCHANGED <<mode, wanted, ledger, writing, pending, task, responded, blocked,
                 restart_blocked, server, view>>

ClearRequest ==
  /\ request # None
  /\ request' \in {None, [request EXCEPT !.current = FALSE]}
  /\ UNCHANGED <<mode, wanted, ledger, memory, server, view>>

(* A request the server may still grant. *)
MayTake(m) == IF m.action = "plant" THEN stage[m.seed] = "stored" ELSE stage[m.seed] # "gone"

Happen(m) ==
  /\ IF m.action = "plant"
     THEN stage[m.seed] = "stored" /\ pot[m.slot] = None
     ELSE stage[m.seed] = "ready" /\ pot[m.slot] = m.seed
  /\ stage' = [stage EXCEPT ![m.seed] = IF m.action = "plant" THEN "growing" ELSE "gone"]
  /\ pot' = [pot EXCEPT ![m.slot] = IF m.action = "plant" THEN m.seed ELSE None]

(* The server decides, and its answer reaches the Task, or does not. *)
Answered(m, results) ==
  /\ m \in calls
  /\ calls' = calls \ {m}
  /\ task' \in {task} \cup (IF pending = m /\ task = "running" THEN results ELSE {})
  /\ UNCHANGED <<files, writing, pending, responded, blocked, restart_blocked, recovery, view>>

Grant(m)  == Answered(m, {"success", "failed"}) /\ Happen(m)
Refuse(m) == Answered(m, {"failed"}) /\ UNCHANGED <<stage, pot>>

(* A request the connection gave up, whatever becomes of it. *)
TaskFails ==
  /\ task = "running"
  /\ task' = "failed"
  /\ UNCHANGED <<files, writing, pending, responded, blocked, restart_blocked, recovery, server, view>>

Mature(s) ==
  /\ stage[s] = "growing"
  /\ stage' = [stage EXCEPT ![s] = "ready"]
  /\ UNCHANGED <<files, memory, pot, calls, view>>

PlayerActs(m) ==
  /\ m.seed \in Manual /\ Happen(m)
  /\ UNCHANGED <<files, memory, calls, view>>

(* The inventory catches up, item by item, while no tick runs. *)
RefreshSeed(s) ==
  /\ writing = None
  /\ seen_stage' = [seen_stage EXCEPT ![s] = stage[s]]
  /\ UNCHANGED <<files, memory, server, seen_pot, seen_born>>

RefreshSlot(k) ==
  /\ writing = None
  /\ seen_pot' = [seen_pot EXCEPT ![k] = pot[k]]
  /\ UNCHANGED <<files, memory, server, seen_stage, seen_born>>

RefreshPikmin(s) ==
  /\ writing = None /\ stage[s] = "gone"
  /\ seen_born' = seen_born \cup {s}
  /\ UNCHANGED <<files, memory, server, seen_stage, seen_pot>>

Environment ==
  \/ SetMode \/ SetSteps \/ WriteRequest \/ ClearRequest \/ TaskFails
  \/ \E m \in Mutation : Grant(m) \/ Refuse(m) \/ PlayerActs(m)
  \/ \E s \in Seed : Mature(s) \/ RefreshSeed(s) \/ RefreshPikmin(s)
  \/ \E k \in Slot : RefreshSlot(k)

Next == Tick \/ Restart \/ Environment

Spec == Init /\ [][Next]_vars

(* A tick comes every 5 s, and the inventory follows the server. *)
FairSpec ==
  /\ Spec
  /\ WF_vars(ObserveConfirmed)
  /\ \A s \in Seed : WF_vars(RefreshSeed(s)) /\ WF_vars(RefreshPikmin(s))
  /\ \A k \in Slot : WF_vars(RefreshSlot(k))

-----------------------------------------------------------------------------
(* Properties *)

Undecided == {m \in calls : MayTake(m)}

(* At most one request can still take effect, planter_pending.tsv names it *)
(* whether it is watched, given up or from an earlier process, and while   *)
(* it can, the planter watches it or is paused: start() wrote the file     *)
(* first, and only a proof removes it.                                     *)
Journaled ==
  \A m \in Undecided : ledger = m /\ writing = None /\ (pending = m \/ Paused)

(* What the planter writes, sends and forgets is a MutationJournal.        *)
Journal == INSTANCE MutationJournal WITH
  journal <- ledger, fresh <- (writing # None), live <- Undecided

RefinesJournal == Journal!Spec

(* A request that succeeded is settled, unless the player also handles its *)
(* seed: the inventory comes to show its effect and observe_pending() ends *)
(* it.                                                                     *)
SuccessSettles ==
  \A m \in Mutation :
    m.seed \notin Manual => (task = "success" /\ pending = m) ~> pending = None
=============================================================================
