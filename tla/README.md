# A verification development of pikmin-getNectar

The repository is a Zygisk module that lives inside the game Pikmin Bloom, a
root shell service that copies files in and out of the game's private
directory, and a small Android controller. The module hooks a few of the
game's managed methods and, from the game's update thread, sends the
requests a player could send by hand: expeditions, collecting their results,
flower nectar, planting, and the seed planter. The interesting part of the
program is not what a request does but *when it may be sent again*: answers
are late, lost or say only "faulted", the inventory the module can read is a
projection that lags behind the server, the controller changes its mind at any
moment, and the game is killed and restarted.

All paths below are relative to `src/`; lines without a file name are lines of
`zygisk-module/cpp/nectar_rpc.cpp`.

## Inventory

| component | state | operations | talks to | what makes it correct |
|---|---|---|---|---|
| scheduling: `hooked_map_update` 3536, `maybe_claim` 3034, `maybe_return_tasks` 3523 | times of the last ticks | one-second tick; 1 s or 5 s scans | everything below, on one thread | each engine runs to its end before the next |
| reservation ledger: `dispatch_safety.h` 60-107 | `holds_`: Pikmin -> owner, sent, saw busy, time of send | reserve, sent, cancel, observe, reconcile | dispatcher | a Pikmin has one owner; what was sent is only released by evidence |
| expedition dispatcher: `write_dispatch_candidates` 1117-1648, polls 2925-3016 | nearby selections, batch settling selection, in-flight map, confirmation lock, watched Task | scan, visit, select, re-check and send, confirm, poll | ledger, gates, control files, game | no duplicate request, no double booking, gifts only with their owner, bounded starts, no orphan hold, every lease ends |
| location gates: `nearby_safety.h` 25-81, `route_policy.h` 106-135 | anchor or history, samples, clocks, epoch | observe, reset, ready | dispatcher | ready only after continuous fresh fixes; a reset outdates every selection |
| identity and route lease: 501-537, 3196-3220 | account digest, revoked tokens, lease file | parse, log in, log out | dispatcher, planting | no lease of another account, process or time is used |
| planter: `planter_automation.inc`, `planter_recovery.inc` | one pending request, a block reason, the pending *file*, a recovery request | capture, start, observe, finish, recover | game RPC, files | never two mutations without knowing the first one's outcome, across crashes |
| return engine: 3362-3519 | one-shot and batch flags, pending id, counters | dispatch, confirm by absence, time out | game RPC | one completion at a time, confirmed before the next |
| nectar claims: 2855-2916, 3055-3166 | flower records, one pending claim | record, claim, poll | game RPC, location | a flower is claimed at most once |
| planting control and reward: 2506-2636, `planting_reward.inc` | ownership, attempts, dialog, close deadline | start, stop, dismiss, route takeover, collect | game, route lease | a session the player started is never stopped by the control file (this one the code does not keep: `OffStopsOwnOnly`) |
| control bridge: `module/service.sh`, `MainActivity.java` | control files, public copies, rolling logs | copy, trim, publish | files of the game | the module ends up in the mode the user chose; no log row is lost |
| start-up: `support/main.cpp`, 3620-3739, `initialize_runtime_metadata` 2349, `install_return_diagnostic_hook` 1969, the capturing hooks 1713-1742, 3190-3230, 3558-3618 | which functions are patched, whether the metadata was looked up, the captured managers | inject, wait, patch nine functions, look the rest up by name, capture | everything above: without a hook or a manager an engine does nothing | nothing is patched twice or in another build; no engine uses a manager the game has replaced |
| diagnostics, probes, vendored libraries, packaging | | | | nothing to verify: read-only, vendored, or build code |

### What is hard here

* **Late truth.** The status of a Pikmin and the list of expeditions are a
  projection. It may show a Pikmin as available long after it was sent, and as
  busy long after it is back, and its items do not change together.
* **Silent outcomes.** `StartExpeditionAsync` returns a Task without a body. A
  fault, a Task that never ends, or no Task at all says nothing about the
  server.
* **A scan is long, the controller is another process.** Mode, filter, target
  and gate are read at the start of a scan and again in its middle.
* **Two scans make one start.** A team is selected in one scan and sent in a
  later one; between the two everything can change.
* **Shared memory of three modes.** Armed, farm and route share the in-flight
  map; batch has a lock of its own; all share the ledger.
* **Restarts.** The ledger is in memory. The planter's pending file is not.

## Modules

| module | role | source |
|---|---|---|
| `DispatchReservations` | the ledger as operators: each takes a ledger and returns the next one | `dispatch_safety.h` 60-107 |
| `Dispatch` | the dispatcher and its environment | 330-430, 538-539, 909-1115, 1117-1648, 2706-2732, 2925-3016, 3246-3302 |
| `ExpeditionLease` | what the dispatcher promises: leases and requests, no code | abstract |
| `MCDispatch` | values for TLC | |
| `DispatchReservations_proofs`, `Dispatch_proofs`, `DispatchRequests_proofs` | lemmas and theorems; the refinement is in the last | |
| `Planter` | the seed planter, its recovery and its environment | `planter_automation.inc`, `planter_recovery.inc`, the operators of `planter_policy.h` and `planter_recovery.h` |
| `MutationJournal` | what the planter promises: write, send once, forget when settled | abstract |
| `MCPlanter`, `Planter_proofs` | values for TLC; lemmas and theorems | |
| `Return` | one-shot, batch and all returns, and their environment | 440-453, 1711-1786, 3232-3241, 3383-3529, `return_policy.h` |
| `BatchPromise` | what a batch promises: one task at a time, none twice, within the limit, counted when gone | abstract |
| `MCReturn`, `Return_proofs` | values for TLC; lemmas and theorems | |
| `PlantingControl` | start, stop, takeover, the result dialog and the reward overlay | 460-480, 2489-2638, 3542-3613, `planting_reward.inc` |
| `MCPlanting`, `PlantingControl_proofs` | values for TLC; lemmas and theorems | |
| `ControlBridge` | how the nectar mode file is written | `service.sh` 28-44, `MainActivity.java` 128-146, 2460-2471 |
| `NectarClaim` | flower records, claims and their outcome; EXTENDS `ControlBridge` | 490-496, 2734-2916, 3034-3189 |
| `MCNectar`, `NectarClaim_proofs` | values for TLC; lemmas and theorems | |
| `LocationGates` | the nearby gate and the route gate over three clocks | `nearby_safety.h` 25-77, `route_policy.h` 25-51, 2648-2711 |
| `RouteLease` | identity, log-in, log-out and the lease of a route | 501-537, 2360-2372, 3190-3219, `session_identity.h`, `route_policy.h` 8-20 |
| `Startup` | injection, the worker, the hooks and the managers they capture | `support/main.cpp` 18-80, 298-305, 1713-1742, 1969-2148, 2314-2374, 3190-3230, 3558-3732, `A64HookFunction` |
| `MCGates`, `Gates_proofs` | the three of them side by side for TLC; lemmas and theorems of each | |

**How the modules compose.** The engines run one after the other on the game's
update thread and share no state the properties speak of: planter requests name
seeds and slots, dispatch requests name expeditions and Pikmin, returns name
tasks that are over, claims name flowers. They meet at three interfaces, and
each is modelled on both sides:

* `Dispatch` sees a gate as *ready or not, with an epoch*; it may close and reset
  at any time. `LocationGates` is what is behind that: which fixes an open gate
  stands for, and (`RouteUnbroken`) that a gate does not close and open again
  without a reset, so that an unchanged epoch means an unbroken gate.
* `PlantingControl` and `Dispatch` see the value of `route_lease()` as a free
  choice. `RouteLease` says when it may be one.
* `NectarClaim` reads the mode file that `ControlBridge` writes, and is composed
  with it. The other engines' mode files are free choices.


### How `Dispatch` reads

The variables are the module's globals under shorter names (`holds` is
`dispatch_reservations`, `picks` is `nearby_selections`, `settling` the five
`batch_selection_settling_*`, `inflight` is `armed_dispatches`, `lock` is
`dispatch_confirmation_pending_id`, `watch` is `pending_expedition_task`) and
`scan`, the locals of one `write_dispatch_candidates` call. A scan is several
steps: `ScanBegin` is everything before the loop (1117-1211), then one visit
per entry of the list, then `ScanEnd` (1565-1613). A visit to an expedition
under way is `VisitUnderway`; a visit to an open one is exactly one of the
branches of the loop body:

| action | branch |
|---|---|
| `KeepSelection`, `SubmitSelection`, `DropSelection` | a nearby selection exists: too young, safe, not safe (1379-1408) |
| `KeepSettling`, `SubmitSettled`, `DropSettled` | a batch selection is settling (1409-1472) |
| `SelectNearby`, `SelectBatch`, `SelectFarm`, `RejectTeam` | a new selection, by mode, or refused after `SetPikmins` (1473-1536) |
| `PassOver` | none of these (1534-1564) |

Each of them begins with what `available_expedition_pikmins` does to the
ledger (`Observed`), because the code calls it first, whatever follows.
`PollPending` and `PollArmed` are the polls of the one-second tick. Scans and
polls share a thread, so polls, inventory updates and the player only act
between scans (`~scan.on`); the control files and the gates may change between
any two steps. The visiting order is free: the task list has no order the code
relies on.

Two Pikmin lists that could not be read to their end, or Pikmin whose status
is neither available nor busy, are the parameter `read` of a visit: the subset
of Pikmin the ledger was shown. `available_expedition_pikmins` that fails half
way has already shown the first ones, and yields no eligible Pikmin; in the
model that is a visit with that `read` that passes over or drops.

What is a free choice, because it belongs to the game: whether `CanTryStart`,
duration, carrying power, distance, kind filter and the picker agree (a visit
may always take the negative branch), whether a call returns a Task, and how
each Task ends. A free choice is never forced to be positive, so liveness does
not depend on it.

**Time.** `sent_ms` is compared only with the time of the scan that reconciles,
so a hold carries `new`: it was sent in the scan that is running. The 1.0 s and
1.5 s of settling, the 20 s of a selection and the 30 s of a Task are choices of
the step that compares them. This assumes that `CLOCK_REALTIME` is not set back
(2376): if it were, `reconcile_tasks` would wait until the clock caught up.

**The rest of the world.** The server grants a request only if the expedition
is open and the team is free; it may refuse, or lose it, silently; expeditions
expire and new ones appear with fresh ids; the player starts expeditions and
sends Pikmin on errands. The projection catches up one item at a time. Three
assumptions are made, and each is needed:

* A Pikmin does not come home from a player's errand before a request that
  names it is decided (`PlayerReturns`). Without it the ledger takes the errand
  for the requested expedition and frees the Pikmin early.
* A completely read list holds every open expedition: an entry does not vanish
  and come back. Without it `reconcile_tasks` frees a team too early.
* After a restart of the game, the requests of the old process are decided
  before the new one scans.

### How `Planter` reads

`ledger` is the file `planter_pending.tsv`, with the fields that identify a
request (its time is left out: the same request is never written twice while
the file could be mistaken, because a seed never goes back to the store).
`writing` is the request between `atomic_file` (321) and the call (329), the
only place inside a tick where the death of the process makes a difference;
every other action of `Tick` is one whole call of `tick()`. A tick begins with
`recover()`. It ends there (`RecoverWaits`, `Recover`), or lets the rest pass
(`RecoverPasses`, a part of every other action), and then does exactly one of:

| action | code |
|---|---|
| `Idle` | an early return that changes nothing, or a Task still running |
| `ObserveFailure` | `finish(..., false)`: the file stays, the planter is blocked |
| `ObserveResponse` | the result is good, the inventory does not show it yet |
| `ObserveConfirmed` | `finish(..., true)`: the file is removed, if it can be |
| `StartFails` | request not built, or file not written |
| `StartWrite`, then `CallSent` or `CallUncertain` | `start()` |

A managed call may throw at any time, so `ObserveFailure` is possible for a
good result too, and a complete inventory may be read as incomplete
(`Idle`, `RecoverWaits`). The nonce of a recovery request is `handled`: whether
it equals `recovery_nonce`. Times are choices: 5 s between ticks and actions, the 90 s
of a request (`ClearRequest` may make it too old at any moment).

The environment: the server grants or refuses a request at any time, also
after its Task failed and after a restart, and its answer may be lost; seeds
go from `stored` over `growing` and `ready` to `gone` and never back (there is
no way to unplant in the game; the proofs rest on this); the player plants
and plucks the seeds in `Manual`; the inventory follows item by item. A restarted
game loads a fresh inventory.

### How `Return` reads

`OneStep` is a whole call of `maybe_dispatch_one_return_task` (3383),
`BatchStep` one of `maybe_dispatch_return_batch` (3430); `pc` alternates them, as
`maybe_return_tasks` does, and the mode file may change in between, for each
call reads it again. A call sees `items`, a subset of the projection: entries
may be unreadable, and `complete_return_list` (1764) is `items = seen`.
`Current`, `CurrentPending` and `CurrentSent` are the batch state after the two
resets at the beginning of the call (3433-3455). Nothing polls the Task of a
completion, so a call has no answer in the model: it is granted, refused or
lost, and the task list shows it later, item by item.

### How `PlantingControl` reads

A call of `maybe_manage_planting` (2546) is one step: `Manage` is what every
call does (takeover, hand-back, mode change), then exactly one of `ManageIdle`,
`StartFails`, `Start`, `Stop`. `maybe_dismiss_planting_result_dialog` (2506) is
part of each, as it is called first. `session` says whose session is
active, which the code cannot see: it knows only `is_planting()`. `fresh` is
the comparison of the time a dialog was captured with the time of the last stop
request; `due` and `recent` are the 1 s and the 60 s comparisons.

The game's side assumes one thing, stated in `MayBegin`: a session begins when
the result dialog of the last one has opened and no stop is undecided. A stop
that is decided after the next session has begun would end that one, and a
dialog that opens after it would be taken for its own; `RouteReady` would be
false. Nothing is assumed of whose sessions follow one another: the player may
begin one after a start of the module was refused or got no Task.

### How `NectarClaim` and `ControlBridge` read

One step is one `maybe_claim` tick, from the poll of the pending Task to a claim
or none; the mode it read is its input, and may be `"cut"`, a file read while
`cp` was writing it. `flowers` says of each record whether its state, wilting
time and `received` flag allow a claim. `near` is the 120 m test (3086), and is
empty while there is no session, network client or location (3061-3078); the
iteration order over the map is free. A Task that completes brings an
`Answer`: `"empty"` for a fault, no response or no list of rewards, which
`poll_pending_task` logs with one row, or a `"list"`, which it logs with one
row per reward that is not null, so with none if all are (2891-2912,
`RowsFor`). `given` is the answer of each flower, `rows` the rows that name it.

### How `LocationGates` and `RouteLease` read

`Update` is `update_nearby_location` (2706): one fix shown to both gates, with the
lease token of the moment. The three branches of each `observe()` are three
disjuncts: `NearbyReset`, `NearbyAnchor`, `NearbyFollow`; `RouteLost`, `RouteReread`,
`RouteSample`. `now` is the boot-time clock, `Steady` the monotonic one, which does
not count `slept`; a fix carries the time of its reading on the boot-time clock
(`read_nearby_game_fix` converts it). Positions are left out: whether a fix
moved too far, agrees with the raw one, or lies near the trajectory is part of
the input.

In `RouteLease` the session thread (`step`) goes through a hook in the order
of the code: read the lease file (`Enter`), take identity and token away under
the mutex (`Invalidate`), call the game's own function (`Native`), set the hash
(`SetHash`). The scan reads the file (`ScanRead`) and checks under the mutex
(`ScanCheck`). Everything else may happen between any two of these.

### How `Startup` reads

Two threads. The worker (`Specialize`, `Open`, `Check`, then nine `InstallHook`)
is `start()`; `Direct` is its list of functions in its order, and `next` the place it has
reached. The game's thread runs all the while: it makes managers
(`Construct`, `PlantingInit`), logs in, registers map objects; each of these
actions has an effect of the module only if the function it goes through is
`Patched`. `Register` and `LoggedIn` call `initialize_runtime_metadata()`, which is
`Due` once. What it then patches is `MetadataHooks`: the chain of
`install_return_diagnostic_hook()` up to the first function that is missing
(`Chain`, `ReturnHooks`), and the hooks that need nothing but themselves.
`build` is what this build of the game has by name, `failing` what
`A64HookFunction` cannot patch, whether for want of a trampoline or of a writable page.

`manager` says of each captured pointer whether the game has made a new object
since: `"current"`, or `"stale"` if it was made while its constructor was not yet
patched. Two names stand for more than one function: `"list"` for the task list
and the two getters without which it is not hooked, `"speed"` for the warning and the
getter it needs. Of the exports of the runtime only the three that `start()`
tests may be missing (`"stripped"`).

`MCGates` takes one of the three components per behaviour, because they share no
variable and their product would only multiply states.

## Runs

| run | asks | bounds |
|---|---|---|
| `dispatch_nearby` | do selection, start, fault, lost answers and restarts keep every Pikmin in one place? Does it refine `ExpeditionLease`? Is a gift only given to its owner? | 2 expeditions, one a gift, 2 Pikmin, one of them also the player's, 2 slots, 2 starts per scan, unreadable entries |
| `dispatch_batch` | do the modes disturb each other? is the limit kept when it is reached? is what is sent what was selected? | 2 expeditions, one of which the player may start, 1 Pikmin, off/armed/farm/batch, 1 slot, one gate reset |
| `dispatch_liveness` | do leases and the batch lock end? | 2 expeditions, 1 Pikmin, off/batch, fair |
| `dispatch_fault`, `dispatch_hidden`, `dispatch_mode_change` | three statements of comments and documents the code does not keep (see below) | 1 expedition, 1 Pikmin |
| `planter` | is every request that can still take effect in the file and watched or paused? Does the planter refine `MutationJournal`? Is what succeeds settled? | 2 seeds, one of them also the player's, 1 permanent slot, off/auto, restarts and recovery requests without bound |
| `return` | is what was reported done really gone? Does a batch refine `BatchPromise`, its limit included? does mode all hang? | 2 tasks, one of each way of being ready, all four modes, a limit file that changes between 1 and 2, clock up to 2, restarts without bound |
| `planting` | when is a route told to go on, is planting handed back, is a reward clicked twice? | 1 token, phases prepare and walk, wishes on and off, restarts without bound |
| `planting_manual` | a promise of a document and a comment the code does not keep (see below): whose session does off stop? | as `planting` |
| `nectar` | is a flower claimed twice, an answer lost or logged wrongly, a flower forgotten? does off get through? | 2 flowers, one the test target, answers without a list and with lists of 0 and 2 rewards that can be read, off/auto/test_once, 1 restart |
| `gates` | what does an open gate stand for? who may be granted a lease? are hooks installed safely while the game runs? | `MaxPolls` 2, a complete build and one in which a class and a method have changed (`MCBuilds`), three sets of hooks that fail (`MCFailures`); 2 tokens, 2 accounts; `Stale` 3, `Settle` 2, `Heartbeat` 1, `RouteAge` 1, `RouteSamples` 3, `RouteSpan` 2, `RouteKeep` 3, one nap of 5 s, 9 s in all |

One slot makes the two seeds contend for it, and lets the player's seed be in
the planter's way; the planter has one request at a time, so a second slot
gives `tick()` a choice and no new race. `JournaledAlways` and
`ImplementsJournal` hold for any number.

In `return` two tasks are what it takes to confuse one pending id with another,
and the limit can be lowered below what was asked for already; other limits are proved. In `planting` a
second token differs from the first only in starting a stop of its own
(`Renewed`), which the first one does too, after a restart; `RouteReadyCorrect`
holds for any number. In `gates` the thresholds keep the code's order
(`Heartbeat < Settle < Stale`, `RouteAge < RouteSpan < RouteKeep`), and the
nap is longer than `Stale`; 9 s is enough to open each gate, lose it and open it
again. The two builds differ where it matters: in one the chain of hooks ends in its
middle. `MaxPolls` is 120 in the code; a second poll already finds the library absent or
there. The theorems hold for all thresholds, builds and failures. `gates` does not check for deadlock,
because its time ends at `Horizon`.

Why the bounds of the dispatch runs are enough: the hazards are between two
expeditions that want one Pikmin, or two requests for one expedition, so two of
each meet every pair. `MaxInFlight` is 3 in the code. With 2 slots two
selections and two requests exist side by side; with 1 slot the limit is
reached, which is where `InFlightBound` is checked: with one Pikmin a second
start comes from the ledger having let it go while the map still counts the
first (the Task not polled yet, or abandoned after 30 s). The counting is proved
for every limit. A gate's
epoch is only compared for equality; one reset shows the difference. No run
uses a state constraint: the unbounded things (`unanswered`, `epoch`) are
bounded by the invariant that is checked and by `MaxEpoch`.

**Fairness** (`FairSpec`): the one-second tick runs while the game runs, so
scans begin, visit and end (weak fairness of `ScanBegin`, `Visit`, `ScanEnd`).
The projection catches up and expeditions end by themselves (strong fairness
of `RefreshTask` and `Leave`, because each is disabled while a scan runs).
`Planter`'s `FairSpec` assumes that a tick that can confirm comes (weak fairness of
`ObserveConfirmed`: `tick()` runs every 5 s) and that the inventory catches up
(weak fairness of the refreshes). Of `Dispatch`,
nothing is assumed of the server's answers, of the controller or of the player:
`SentHoldEnds` and `LockEnds` hold when every answer is lost.
`Return`'s assumes that calls and complete lists keep coming (strong fairness
of `BatchStep(seen)`, because `pc` disables it every other step) and that time passes
(`Elapse`); again nothing of the server.
`PlantingControl`'s assumes that the tick runs, a second passes, the game decides
a stop and opens the dialog of a session that ended; it may still refuse
every stop. `NectarClaim`'s assumes that a tick finds the file whole some time,
that the service keeps copying, that the 3 s pass, and that a Task completes:
without the last, `EveryFlowerTried` is false, because `pending_task` has no
time limit.

### What each property says

* `LeaseDiscipline`: the unsent holds are exactly the teams of the living
  selections; no reset leaves an orphan, no selection loses a member.
* `InFlightBound`: selections count as starts to come. (It is a bound on the
  module's own map: switching dispatch off forgets the map, 1177, so the
  number of requests the *server* has not decided can exceed it. The ledger,
  not the map, keeps those apart, and `NoDuplicateStart` and `NoDoubleBooking`
  are stated about the server.)
* `BatchOneAtATime`: no selection settles while a start waits to be confirmed.
* `NoDuplicateStart`, `NoDoubleBooking`: about requests the server has granted
  or may still grant, so they relate the ledger to messages in flight.
* `GiftOnlyOwner`: over all team choices of the picker.
* `SentAsSelected`: about the second check (1394), half a scan after the
  selection was looked at and a scan or more after it was made. Whatever the
  controller, the gates, the player and the inventory did since, a request goes
  out with exactly the selected team, of members the module still sees as
  available, and nearby only in the mode of the scan and under the gate epoch of the
  selection. The mutant drops the second look at mode and gate.
* `RefinesLease`: `ExpeditionLease` with `lease` as the sent holds and `asked`
  as the requests the server may still grant. A lease never ends while its
  request may still be granted.
* `SelectionInv`, `RequestInv`: the inductive invariants of the proofs.
* `SentHoldEnds`, `LockEnds`: liveness.
* `Journaled`: stated about what the *server* may still do. Mistaking an
  unchanged seed for a failure, forgetting the file at a restart, or releasing
  the pause on the slot alone would each let a second request out while the
  first is open.
* `RefinesJournal`: `MutationJournal` with `journal` as the file, `fresh` as
  "written and not yet called", `live` as the undecided requests.
* `SuccessSettles`: only for seeds the player leaves alone. The restriction is
  needed: if the player plucks a seedling before the planter has seen it
  planted, `observe_pending()` waits for it for ever
  (`waiting-inventory-no-retry`), and recovery refuses because a Task is
  pending; only a restart helps, and then the file pauses the planter until a
  recovery is proved, which it cannot be for a planted seed that is gone.

* `CountedAreGone`: `return_batch_completed` is exactly the number of requests
  whose tasks the *server* no longer has. Unreadable entries, a projection that
  lags, a one-shot that shares the pending id and a mode that changes between the two
  calls of a tick could each make it count too much.
* `RefinesBatch`: `BatchPromise` with `asked` as the requests since the batch began and
  `gone` as what the *server* no longer has. It adds the steps to
  `CountedAreGone`: one request at a time, no task twice, a count only when nothing is
  open, and (`BatchLimit`, proved on its own as `Limited`) with each request no more
  tasks than the limit file says then, whatever it said before.
* `OneShotTrue`: speaks of `shot`, which is forgotten when a batch begins: from
  then on the one-shot waits for the batch's id, or for the empty one, and its
  `one-confirmed` row says nothing. That is what the code does, and the
  restriction marks it: the property covers what an earlier batch leaves behind, not a later one that
  clears or replaces the id a one-shot waits for.
* `Drains`: liveness; mode all either stops or finds nothing due.
* `RouteReady`, `HandBack`, `RewardOnce`: relate the module's memory to the dialogs of
  other sessions, to requests not yet decided and to a route that is over. `RouteReady`
  says only that no dialog of a session the module ended is still to come; whose session
  that was is `OffStopsOwnOnly`, below.
* `ClaimedOnce`, `TestOnce`, `EveryFlowerTried`: the first two per process:
  `attempted` is memory, and a restart may claim again, which the server then answers.
* `RewardsLogged`: relates the log to what each claim came back with, and to whether
  it is still waited for. A claim sent over one that is awaited would lose an answer,
  which is what the mutant does.
* `OffReaches`: the service overwrites the app's switch within one copy. (So the
  app cannot keep collection *on* either, unless the operator's file says so.)
* `NearbyTrusted`: at least three different fixes without a break. The age bound has
  an exception, `dozed`: `ready()` counts on a clock that stops in sleep, so
  for the one moment between a wake and the next reading the gate is open on
  an old fix.
* `RouteTrusted`: the route gate counts on the boot-time clock and needs no such
  exception; twice `RouteAge`, because the same fix read again counts as fresh.
* `RouteUnbroken`: an unchanged epoch means an unbroken gate.
* `AccountMatches`, `RevokedStays`: about the moment of the answer, with the
  reading before it and the session on another thread. What the caller does with a lease
  it was granted comes later still, and a log-out in between is not modelled: in
  `Dispatch` and `PlantingControl` the lease of a tick is an input. `RevokedStays` excepts a
  log-out that has read the token and has not yet taken the mutex: until then
  the scan came first. `ended` are tokens that were *live* when the hook
  read the file; a token that had lapsed by then is not revoked, and is granted
  again if the controller renews it and the same account logs in.

* `PatchedSafely`: over both ways into `initialize_runtime_metadata()`, a domain that
  is late, and a chain that ends half way. (Both ways are on the game's thread; that two
  threads of the game test and set `runtime_metadata_ready`, 2350-2357, at the same
  time is not modelled.) A second patch of the same entry
  would save a jump to the hook as the original, and the hook would call itself.
  Together with `README.md:54` of the repository: nothing is patched in a library of another size.
* `CapturedIsLatest`: `start()` installs the hook of a constructor before any other
  hook that captures the same manager (3725 before 3726, 3727 before 3728). The other
  order would let the game log in, and then make a new manager nobody sees.
  Nothing in the code says that the order matters. A manager that was made
  before all its hooks stays uncaptured; the engines then wait.

### Where documents and code disagree

* `FaultAllowsRetry`. The comment at 2975 promises that a fault frees its
  expedition for a retry. The hold stays sent, so the ledger refuses the
  expedition until it is gone. This is what `dispatch_safety.h` 56-58 wants,
  and what keeps `NoDuplicateStart` true: a fault proves nothing.
* `AbsenceNeedsCompleteList`. The comment at 1587 confirms an armed start by
  its absence from a *complete* list; the loop does not look at
  `complete_task_projection`. The lease survives, the in-flight entry does not.
* `ModeChangeDropsSelections`. `NEARBY_SAFETY_2026-09-06.md:67` says a mode
  change releases the unsent selections. The scan compares epoch numbers, and
  the two gates count separately, so armed and route may agree by accident.
* `OffStopsOwnOnly`. `README.md:102` says that off only stops planting the module
  began itself, never a session the player began by hand, and the comment at
  2573-2575 leaves ownership false "so a later off never shuts down the player's
  session". But `planting_control_owned` is set at 2598 when a start has been
  *asked for*, whether it got a Task, and it is cleared only by a tick in mode off that
  sees no session (2627-2628). So after a start that was refused, or after a session of its
  own that ended while the mode stays on, off stops the session the player
  has begun since.

More, seen on the way and not given a run:

* `README.md:67` says batch checks 4 m, the code allows 100 m but for gifts (1369).
* Turning armed off and on forgets the in-flight map (1177), so more than three
  requests may be undecided.
* A stop whose dialog never opens leaves the auto-close pending (2621), and the dialog
  of a later session is closed.
* A claim whose rewards are all null leaves no row in the claim log (2897).
* `README.md:126` says that collecting nectar needs an active planting session and
  100 m; the code needs no planting (3060) and allows 120 m (3086).
* `service.sh` copies the return mode to `files/return_rpc_mode.txt`; the native
  module reads `/data/local/tmp/pikmin-return-mode.txt` (3678), the operator's
  own file. The copies have no reader.
* `README.md:7` says that tokens of before a log-out are revoked. Only the one
  in the file at that moment is; see `RevokedStays`.
* `dispatch` reads the lease for itself, so for up to one tick its token may be
  newer than the one the route gate was opened for.

## Proofs

`TLAPS` proves, for all values of the constants that satisfy
`DispatchAssumption` (sets of the right kind, natural limits, finitely many
expeditions) and `NoTaskAssumption`:

| theorem | module |
|---|---|
| `TypeCorrect`: `Spec => []TypeOK` | `Dispatch_proofs` |
| `LeaseDisciplined`: `Spec => []LeaseDiscipline` | `Dispatch_proofs` |
| `BatchOneAtATimeHolds`, `InFlightBounded`, `GiftOnlyOwnerHolds`, `SentAsSelectedHolds` | `Dispatch_proofs` |
| `RequestsHeld`: `Spec => []RequestInv` | `DispatchRequests_proofs` |
| `NoDuplicateStarts`, `NoDoubleBookings` | `DispatchRequests_proofs` |
| `ImplementsLease`: `Spec => RefinesLease` | `DispatchRequests_proofs` |
| `SelectionsConsistent`: `Spec => []SelectionInv` | `Dispatch_proofs` |
| `TypeCorrect`, `JournaledAlways`, `ImplementsJournal`: `Spec => RefinesJournal` | `Planter_proofs` |
| `TypeCorrect`, `Counted`, `Limited`, `OneShotConfirmed`, `ImplementsPromise`: `Spec => RefinesBatch` | `Return_proofs` |
| `TypeCorrect`, `RouteReadyCorrect`, `RewardCorrect` | `PlantingControl_proofs` |
| `TypeCorrect`, `ClaimedOnceCorrect`, `RewardsCorrect`, `TestOnceCorrect` | `NectarClaim_proofs` |
| `NearbyCorrect`, `RouteCorrect`, `RouteEpochCorrect` (of `GatesSpec`), `AccountCorrect`, `RevokedCorrect` (of `LeaseSpec`), `PatchedCorrect`, `LatestCorrect` (of `StartSpec`), `TypeCorrect` (of `MCGates`) | `Gates_proofs` |

**The argument.** `LeaseDiscipline` is not inductive: a batch scan could meet a
selection of a nearby mode. `SelectionInv` adds that the two kinds of selection
exclude each other and that a scan only finds those of its own mode.
`NoDoubleBooking` is far from inductive: it speaks of the server, while the
ledger speaks of the module. `RequestInv` closes the gap. While a request is
undecided, each member of its team is held for it, sent, and if the ledger has
seen it busy it still looks busy, because what made it busy is an errand
(`WaitingHeld`). Once granted, the member is still held, or the module was
restarted and sees it busy (`UnderwayHeld`). An expedition that left the list is over
(`AbsentIsOver`), which is why reconciling is safe, and a complete scan's list
is the projection (`CompleteScan`). An expedition with a selection has no sent
hold (`SelectedNotSent`), so sending it never covers an older request. The
ledger lemmas of `DispatchReservations_proofs` say what each operator keeps:
a sent hold survives reserve, cancel and send for others, and observe ends it
only for a Pikmin that was seen busy and is available.

Each invariant is one induction with one step per action, by the three facts
`Init => Inv`, `Inv /\ [Next]_vars => Inv'`, and PTL. The refinement maps
`SubmitSelection`, `SubmitSettled` and `SelectFarm` to `Ask`; `Accept`,
`Refuse`, `Leave` and `PlayerStarts` to `Answer` or a stutter; visits,
`ScanEnd` and `Restart` to `Release`; the rest stutters.
`SentAsSelected` needs the same `SelectionInv`: an expedition that settles has no
nearby selection, and a farm scan finds neither kind, so what `StartExpedition`
is given is the one selection there is.

For the planter (under `PlanterAssumption`), `Journaled` becomes inductive with
two facts: the inventory never shows more than the server has reached
(`ViewBehind`), which makes `Confirmed` and `Proved` proofs that a request is
over (`ConfirmedIsOver`, `ProvedIsOver`), and a written request is alone
(`WrittenFirst`). From it the refinement follows: `StartWrite` is `Write`, the
calls are `Send`, a restart between the two is `Abandon`, the world is `Settle`,
confirmation and recovery are `Forget`.

For the return engine (under `ReturnAssumption`), `CountedAreGone` is not
inductive: it says nothing of the projection, by which the code confirms. The
invariant adds that what is listed has appeared on the server
(`ListedAppeared`), that what was asked for is listed or gone (`AskedFor`) - this
makes absence a proof -, and that `pending` is the task the batch waits for as long as
the last mode seen was a batch mode. A call that resets works with an
empty session; `CurrentOK` shows once that whatever a call works with is in order,
and the cases of `BatchStep` start from there. The refinement needs the same: a call
that counts has found its id absent, and by `WaitsFor` and `AskedFor` nothing the batch
asked for is left (`CountPromise`); a call that asks waits for nothing, so its
count is the number of its requests (`AskPromise`). Leaving a mode and restarts are
`Abandon`, the server is `Vanish`, everything else stutters or changes the limit.

For nectar, `ClaimedOnce` and `TestOnce` count *requests* that history remembers,
the code decides by `attempted` and `test_once_sent`. `ClaimsMarked` says that
they agree: a flower has been asked for once if it is attempted and not at all if it is not,
and the same for the test. It is inductive because `Send` sets the marks in the tick
that sends, also when no Task comes back, and nothing but a restart takes them away.
`RewardsLogged` needs to know what the pending claim's answer is: `AnswersMatch`
says that it is there exactly when the Task has completed, and that a flower without
a Task has none. `Polled` shows once that the poll either leaves rows and pending
claim alone or logs that answer and ends the claim, and every tick begins with it; a
claim that is then sent is for a flower without a Task, by `ClaimsMarked`.

For planting (under `PlantingAssumption`), `RouteReady` rests on `SettledOver`: a
dialog seen since the last stop request closes the question of that request,
because a session only begins when the last dialog is open, and that no undecided
stop is left that could end a session after it.

For the nearby gate (`GatesAssumption`), the invariant relates `samples` to the
cardinality of `fixes` (a fix counts only if it is newer than the last), and
the age of the last fix to that of the last reading unless the device slept
(`NearbyInv`). For the route gate, `RouteInv` says that the last reading came at most
`RouteAge` after the last fix, which bounds how long re-reading can keep
the gate open, that every sample has the token of the gate, and that `lapsed`
implies that the last reading is too old to be followed. For the lease
(`RouteLeaseAssumption`), `LeaseInv` says that an identity is set only while the hook is
ready, the account is that one and the session thread is not between two accounts,
and that a token of `ended` is revoked or `found` by a log-out on its way.

For the start-up (`StartupAssumption`), `PatchedSafely` needs to know what has *not* been
done: a function from the worker's place on is untouched, so is every named one before the
metadata is looked up, and the dialogs before the first controller (`Unpatched`); the three
groups are disjoint (`FunctionsAre`). The worker patches only after the size was found right
(`Supported`). `CapturedIsLatest` needs that a captured manager has a patched hook
(`Capturing`) and that among the hooks of one manager the constructor comes first
(`ConstructorsFirst`): a constructor that is patched only now finds its manager
uncaptured.

Only model-checked: liveness (`SentHoldEnds`, `LockEnds`, `SuccessSettles`, `Drains`, `HandBack`,
`EveryFlowerTried`, `OffReaches`), which TLAPS cannot
prove here, and the four disagreements. Every other property of the passing runs is a theorem.

## Not modelled

* The files the module writes for the controller (candidates, status,
  histories, diagnostics), the preflight rows and the wire probes: nothing the
  program does depends on them. The trim of the reward history by `service.sh`
  (93-98) races with the module's appends and may lose a row of the log.
* Positions and distances: the gates and the dispatcher see their outcome as an
  input. The formulas are floating-point trigonometry, out of TLC's reach.
* SHA-256 (`session_identity.h`): a digest stands for its account.
* Of the start-up: the paths, the getters that are only looked up (2054-2067, 2075-2147, 2149-2248: an
  engine that needs a missing one does nothing, which the models allow as a free choice), and
  how `A64HookFunction` relocates instructions. That a first controller before the metadata
  loses the dialog and speed hooks for good (3562) is in the model, but nothing promises them.
* The return control files between operator and service, and the app's display.
* `support/`: vendored hooking and ELF code; build scripts.

The game's own behaviour behind the managed calls is the environment.

## Plan

What a continuation would add, in this order:

1. An abstract specification of the route: prepare, ready, walk, hand back, with
   `PlantingControl`, `RouteLease` and the route gate composed under it.
2. A refinement from `LocationGates` to the gate of `Dispatch`: an epoch that counts
   resets and a readiness that only a reset or time ends.
