----------------------------- MODULE NectarClaim -----------------------------
(***************************************************************************)
(* The collection of nectar from big flowers: maybe_claim(), once a second *)
(* on the game's update thread, sends at most one claim at a time for the  *)
(* flowers that the map hooks have recorded, and logs each answer: one row *)
(* of the claim log for every reward in it.                                *)
(*                                                                         *)
(* A tick is one step; the mode it reads is an input, for the file belongs *)
(* to other processes (ControlBridge).  The rest of the tick, planting and *)
(* returns, is modelled in PlantingControl and Return.                     *)
(***************************************************************************)
EXTENDS Naturals, FiniteSets, ControlBridge

CONSTANTS
  Flower,       \* ids of big flowers
  None,         \* no flower
  Target,       \* the flower of the test target file, or None
  Rewards,      \* how many rewards an answer may list: 0..32 in the code
  MaxRestarts   \* bound: how often the process restarts

ASSUME NectarAssumption ==
  /\ None \notin Flower /\ Target \in Flower \cup {None}
  /\ Rewards \subseteq Nat /\ MaxRestarts \in Nat

(* How the Task of a claim may complete: "empty" (it faulted, or has no    *)
(* response, or one without rewards), or with a list of rewards.  Entries  *)
(* of the list may be null; rewards counts the others.                     *)
Answer == [kind : {"empty"}, rewards : {0}] \cup [kind : {"list"}, rewards : Rewards]

NoAnswer == [kind |-> "none", rewards |-> 0]

VARIABLES           \* the memory of the game process
  flowers,          \* "live": in bloom, not wilted, not received; else "spent"
  attempted,        \* flowers with FlowerRecord::attempted
  target_loaded,
  test_once_sent,
  pending_id,       \* the flower of pending_task, or None
  rested            \* 3 s have passed since the last claim

VARIABLES           \* the environment
  near,             \* flowers at most 120 m away; none without session, network and location
  task,             \* the Task of the pending claim
  restarts

VARIABLES           \* history, of this process
  sent,             \* how often each flower was claimed
  tests,            \* how many claims were sent in the mode "test_once"
  tasks,            \* flowers whose claim returned a Task
  given,            \* the answer each flower's claim came back with
  rows              \* the rows of the claim log that name each flower

records == <<flowers, target_loaded>>
claims  == <<attempted, test_once_sent, rested, sent, tests>>
answers == <<pending_id, task, tasks, given, rows>>
world   == <<near, restarts>>
vars    == <<bridge, records, claims, answers, world>>

TypeOK ==
  /\ BridgeTypeOK
  /\ flowers \in [Flower -> {"live", "spent"}]
  /\ attempted \subseteq Flower /\ near \subseteq Flower /\ tasks \subseteq attempted
  /\ target_loaded \in BOOLEAN /\ test_once_sent \in BOOLEAN
  /\ rested \in BOOLEAN
  /\ pending_id \in tasks \cup {None}
  /\ task \in {"none", "running", "completed"}
  /\ task = "none" <=> pending_id = None
  /\ restarts \in 0..MaxRestarts
  /\ sent \in [Flower -> Nat] /\ tests \in Nat
  /\ given \in [Flower -> Answer \cup {NoAnswer}]
  /\ rows \in [Flower -> Nat]

Init ==
  /\ BridgeInit
  /\ flowers = [f \in Flower |-> "spent"] /\ target_loaded = FALSE
  /\ attempted = {} /\ test_once_sent = FALSE /\ rested = TRUE
  /\ pending_id = None /\ task = "none"
  /\ near = {} /\ restarts = 0
  /\ sent = [f \in Flower |-> 0] /\ tests = 0
  /\ tasks = {} /\ given = [f \in Flower |-> NoAnswer] /\ rows = [f \in Flower |-> 0]

-----------------------------------------------------------------------------
(* poll_pending_task(): the answer is logged and the claim is over *)

(* Mutant of Completed: a Task that brought nothing does not count. *)
CompletedWell == task = "completed" /\ given[pending_id].kind = "list"

Completed == task = "completed"

Awaiting == task # "none" /\ ~Completed

(* One row for every reward that is not null, which may be none; one for   *)
(* an answer without a list of them.                                       *)
RowsFor(answer) == IF answer.kind = "list" THEN answer.rewards ELSE 1

Poll ==
  rows' = IF Completed
          THEN [rows EXCEPT ![pending_id] = @ + RowsFor(given[pending_id])]
          ELSE rows

-----------------------------------------------------------------------------
(* maybe_claim() *)

(* Mutant of Active: a claim is sent although one is awaited. *)
ActiveAwaiting(mode) ==
  mode = "auto" \/ (mode = "test_once" /\ ~test_once_sent)

(* A claim may be sent, so the target file is read if it was not yet. *)
Active(mode) ==
  /\ mode = "auto" \/ (mode = "test_once" /\ ~test_once_sent)
  /\ ~Awaiting

Known(mode) ==
  IF Active(mode) /\ ~target_loaded /\ Target # None
  THEN [flowers EXCEPT ![Target] = "live"]
  ELSE flowers

MayClaim(mode, f) ==
  /\ Active(mode) /\ rested
  /\ Known(mode)[f] = "live" /\ f \notin attempted /\ f \in near

Tick(mode) ==
  /\ Poll
  /\ flowers' = Known(mode)
  /\ target_loaded' = (target_loaded \/ Active(mode))
  /\ UNCHANGED <<bridge, world>>

Wait(mode) ==
  /\ Tick(mode)
  /\ \A f \in Flower : ~MayClaim(mode, f)
  /\ IF Awaiting THEN UNCHANGED <<pending_id, task>> ELSE pending_id' = None /\ task' = "none"
  /\ UNCHANGED <<claims, tasks, given>>

(* Mutant of Claim: the flower is not marked. *)
ClaimUnmarked(mode, f) ==
  /\ Tick(mode)
  /\ MayClaim(mode, f)
  /\ rested' = FALSE
  /\ test_once_sent' = (test_once_sent \/ mode = "test_once")
  /\ sent' = [sent EXCEPT ![f] = @ + 1]
  /\ tests' = tests + (IF mode = "test_once" THEN 1 ELSE 0)
  /\ UNCHANGED attempted

Claim(mode, f) ==
  /\ Tick(mode)
  /\ MayClaim(mode, f)
  /\ attempted' = attempted \cup {f}
  /\ rested' = FALSE
  /\ test_once_sent' = (test_once_sent \/ mode = "test_once")
  /\ sent' = [sent EXCEPT ![f] = @ + 1]
  /\ tests' = tests + (IF mode = "test_once" THEN 1 ELSE 0)

Answered(f) == pending_id' = f /\ task' = "running" /\ tasks' = tasks \cup {f}

Unanswered == pending_id' = None /\ task' = "none" /\ UNCHANGED tasks

(* Mutant of Send: a claim without a Task does not count. *)
SendUncounted(mode, f) ==
  /\ Tick(mode) /\ UNCHANGED given
  /\ MayClaim(mode, f)
  /\ rested' = FALSE
  /\ sent' = [sent EXCEPT ![f] = @ + 1]
  /\ tests' = tests + (IF mode = "test_once" THEN 1 ELSE 0)
  /\ \/ Answered(f) /\ attempted' = attempted \cup {f}
        /\ test_once_sent' = (test_once_sent \/ mode = "test_once")
     \/ Unanswered /\ UNCHANGED <<attempted, test_once_sent>>

(* The call may return no Task: then nothing is waited for. *)
Send(mode, f) == Claim(mode, f) /\ UNCHANGED given /\ (Answered(f) \/ Unanswered)

MaybeClaim(mode) == Wait(mode) \/ \E f \in Flower : Send(mode, f)

-----------------------------------------------------------------------------
(* log_flower(): the map shows a flower; attempted stays. *)
LogFlower(f) ==
  /\ \E state \in {"live", "spent"} : flowers' = [flowers EXCEPT ![f] = state]
  /\ UNCHANGED <<target_loaded, bridge, claims, answers, world>>

Move ==
  /\ near' \in SUBSET Flower
  /\ UNCHANGED <<restarts, bridge, records, claims, answers>>

Rest ==
  /\ ~rested /\ rested' = TRUE
  /\ UNCHANGED <<attempted, test_once_sent, sent, tests, bridge, records, answers, world>>

Complete ==
  /\ task = "running" /\ task' = "completed"
  /\ \E answer \in Answer : given' = [given EXCEPT ![pending_id] = answer]
  /\ UNCHANGED <<pending_id, tasks, rows, bridge, records, claims, world>>

Bridge ==
  /\ Operate \/ ServiceCopy \/ AppWrite
  /\ UNCHANGED <<records, claims, answers, world>>

Restart ==
  /\ restarts < MaxRestarts /\ restarts' = restarts + 1
  /\ flowers' = [f \in Flower |-> "spent"] /\ target_loaded' = FALSE
  /\ attempted' = {} /\ test_once_sent' = FALSE /\ rested' = TRUE
  /\ pending_id' = None /\ task' = "none" /\ near' = {}
  /\ sent' = [f \in Flower |-> 0] /\ tests' = 0
  /\ tasks' = {} /\ given' = [f \in Flower |-> NoAnswer] /\ rows' = [f \in Flower |-> 0]
  /\ UNCHANGED bridge

Next ==
  \/ \E mode \in Reads : MaybeClaim(mode)
  \/ \E f \in Flower : LogFlower(f)
  \/ Move \/ Rest \/ Complete \/ Bridge \/ Restart

Spec == Init /\ [][Next]_vars

(* The game keeps ticking, and a tick finds the file whole some time; the  *)
(* service keeps copying; time passes; a Task completes.                   *)
FairSpec ==
  /\ Spec
  /\ WF_vars(MaybeClaim(Read)) /\ WF_vars(Rest) /\ WF_vars(Complete)
  /\ WF_vars(ServiceCopy /\ UNCHANGED <<records, claims, answers, world>>)

-----------------------------------------------------------------------------
(* Properties *)

(* A process claims a flower at most once, whatever the map says of it     *)
(* later, whether the claim was answered or not, and though the test       *)
(* target declares it to be in bloom.                                      *)
ClaimedOnce == \A f \in Flower : sent[f] <= 1

(* The claim log holds under a flower's id exactly what its claim came     *)
(* back with, each reward once, from the moment the claim is no longer     *)
(* waited for: no answer is given up, logged twice or under another id,    *)
(* whatever is claimed, faults or changes mode in between.                 *)
RewardsLogged ==
  \A f \in Flower :
    IF f \in tasks /\ pending_id # f
    THEN given[f] # NoAnswer /\ rows[f] = RowsFor(given[f])
    ELSE rows[f] = 0

(* The mode "test_once" sends one claim, however the mode is changed       *)
(* between and whatever becomes of the claim.                              *)
TestOnce == tests <= 1

(* A flower that stays in bloom and near is tried, whatever happens to the *)
(* claims before it, once the mode stays "auto".                           *)
EveryFlowerTried ==
  \A f \in Flower :
    <>[](Read = "auto" /\ f \in near /\ flowers[f] = "live") => <>(f \in attempted)

(* An operator's "off" reaches the game however often the app's switch is  *)
(* turned.                                                                 *)
OffReaches == <>[](control = "off") => []<>(mode_file = "off")
=============================================================================
