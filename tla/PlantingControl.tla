--------------------------- MODULE PlantingControl ---------------------------
(***************************************************************************)
(* Flower planting: maybe_manage_planting() starts and stops a planting    *)
(* session on behalf of the controller's mode file or of a route lease,    *)
(* beside a player who does the same by hand, and closes the result dialog *)
(* of a session it stopped.  planting_reward.inc collects the reward that  *)
(* follows.  All of it runs on the game's update thread; the files belong  *)
(* to other processes.                                                     *)
(*                                                                         *)
(* A call of maybe_manage_planting() is one step.  What it reads in the    *)
(* planting mode file is an input of the step.  The game is the            *)
(* environment: a session, the requests to start and stop it, and the      *)
(* result dialogs it opens.  Times (1 s before a dialog is closed or a     *)
(* reward collected, 60 s in which one may be) are choices of the          *)
(* environment; the wall clock they are read from is taken not to go back. *)
(***************************************************************************)
EXTENDS Naturals, FiniteSets

CONSTANTS
  Token,     \* tokens of route leases
  NoToken,   \* no lease, no token
  Phases,    \* the phases a lease may be in
  Wishes     \* what the planting mode file may hold

ASSUME PlantingAssumption ==
  /\ NoToken \notin Token
  /\ Phases \subseteq {"prepare", "walk", "hold"}
  /\ Wishes \subseteq {"on", "off", "observe"}

Lease == [token : Token, phase : Phases]

NoLease == [token |-> NoToken, phase |-> "none"]

VARIABLES
  lease             \* what route_lease() returns

VARIABLES           \* the memory of the game process
  captured,         \* planting_controller and its methods are known
  owned,            \* planting_control_owned
  last_mode,        \* planting_control_last_mode
  start_attempted, stop_attempted,
  session_owned,    \* route_session_owned
  stop_token,       \* route_stop_token
  stop_started,     \* route_stop_started
  close_task,       \* route_close_task
  auto_close,       \* planting_result_auto_close_pending
  dialog,           \* a result dialog was captured: planting_result_dialog
  fresh,            \* the captured dialog was seen since the last stop request
  due,              \* planting_result_close_after_ms has passed
  overlay           \* reward_overlay is the overlay on the screen

VARIABLES           \* the environment: the game
  session,          \* whose planting session is active
  starting,         \* a request to start is undecided
  stopping,         \* a request to stop is undecided
  result,           \* by whom the session ended whose result dialog has yet to open
  screen,           \* the reward overlay on the screen, by what it is for
  recent            \* the last stop request is no more than 60 s ago

VARIABLES           \* history
  asked,            \* this process has asked for a start
  clicks            \* how often the overlay on the screen was clicked

control == <<owned, last_mode, start_attempted, stop_attempted, session_owned, stop_token,
             stop_started, asked>>
closing == <<close_task, auto_close, dialog, fresh, due>>
reward  == <<overlay, screen, recent, clicks>>
game    == <<session, starting, stopping, result>>
vars    == <<lease, captured, control, closing, reward, game>>

TypeOK ==
  /\ lease \in Lease \cup {NoLease}
  /\ captured \in BOOLEAN
  /\ owned \in BOOLEAN /\ asked \in BOOLEAN
  /\ owned => asked
  /\ last_mode \in {"none", "on", "off", "observe"}
  /\ start_attempted \in BOOLEAN /\ stop_attempted \in BOOLEAN
  /\ session_owned \in BOOLEAN
  /\ stop_token \in Token \cup {NoToken}
  /\ stop_started \in BOOLEAN
  /\ close_task \in {"none", "running", "done", "faulted"}
  /\ auto_close \in BOOLEAN /\ dialog \in BOOLEAN
  /\ fresh \in BOOLEAN /\ due \in BOOLEAN
  /\ overlay \in BOOLEAN
  /\ overlay => screen # "none"
  /\ session \in {"none", "ours", "players"}
  /\ starting \in BOOLEAN /\ stopping \in BOOLEAN
  /\ result \in {"none", "module", "player"}
  /\ screen \in {"none", "flower", "other"}
  /\ recent \in BOOLEAN
  /\ clicks \in Nat

Fresh ==
  /\ captured = FALSE /\ owned = FALSE /\ last_mode = "none" /\ asked = FALSE
  /\ start_attempted = FALSE /\ stop_attempted = FALSE
  /\ session_owned = FALSE /\ stop_token = NoToken /\ stop_started = FALSE
  /\ close_task = "none" /\ auto_close = FALSE /\ fresh = FALSE /\ due = FALSE
  /\ overlay = FALSE
  /\ starting = FALSE /\ stopping = FALSE /\ result = "none" /\ dialog = FALSE
  /\ screen = "none" /\ recent = FALSE /\ clicks = 0

Init ==
  /\ lease = NoLease
  /\ session = "none" /\ Fresh

Planting == captured /\ session # "none"

-----------------------------------------------------------------------------
(* maybe_dismiss_planting_result_dialog() *)

Dismissed == auto_close /\ dialog /\ fresh /\ due

AutoClose == auto_close /\ ~Dismissed

(* The close handler may return no Task. *)
CloseTasks ==
  IF Dismissed /\ stop_started /\ stop_token # NoToken THEN {"none", "running"}
  ELSE {close_task}

-----------------------------------------------------------------------------
(* The rest of maybe_manage_planting(): what it works with *)

Leased == lease # NoLease

Takeover == lease.phase = "prepare"

(* A token that takes planting over begins a stop of its own. *)
Renewed == Takeover /\ stop_token # lease.token

SessionOwned == session_owned \/ Leased

Mode(wish) == IF Takeover \/ (SessionOwned /\ ~Leased) THEN "off" ELSE wish

Changed(wish) == Mode(wish) # last_mode

StartAttempted(wish) == start_attempted /\ ~Changed(wish)

StopAttempted(wish) == stop_attempted /\ ~Changed(wish) /\ ~Renewed

StopStarted == stop_started /\ ~Renewed

(* A finished route gives planting back. *)
HandedBack == ~Leased /\ ~Planting /\ ~AutoClose

(* What every call does, whether it goes on or not. *)
Manage(wish) ==
  /\ session_owned' = (SessionOwned /\ ~HandedBack)
  /\ last_mode' = Mode(wish)
  /\ stop_token' = IF Renewed THEN lease.token ELSE stop_token
  /\ UNCHANGED <<lease, captured, dialog, overlay, screen, clicks, session, result>>

MayStop(wish) ==
  /\ Mode(wish) = "off" /\ Planting /\ ~StopAttempted(wish)
  /\ owned \/ (Takeover /\ ~StopStarted)

MayStart(wish) == Mode(wish) = "on" /\ ~Planting /\ ~StartAttempted(wish)

(* Nothing is asked of the game.  A session that was asked for is disowned *)
(* once it is seen to be over.                                             *)
ManageIdle(wish) ==
  /\ Manage(wish)
  /\ ~captured \/ ~(MayStop(wish) \/ MayStart(wish))
  /\ owned' = (owned /\ ~(captured /\ Mode(wish) = "off" /\ ~Planting))
  /\ start_attempted' = StartAttempted(wish) /\ stop_attempted' = StopAttempted(wish)
  /\ stop_started' = StopStarted
  /\ close_task' \in IF Renewed THEN {"none"} ELSE CloseTasks
  /\ auto_close' = AutoClose
  /\ UNCHANGED <<asked, fresh, due, recent, starting, stopping>>

(* Mutant of StartFails: the session is taken for the module's all the same. *)
StartFailsOwned(wish) ==
  /\ Manage(wish) /\ captured /\ MayStart(wish)
  /\ start_attempted' = TRUE /\ stop_attempted' = StopAttempted(wish)
  /\ close_task' \in CloseTasks /\ auto_close' = AutoClose
  /\ owned' = TRUE
  /\ UNCHANGED <<stop_started, asked, fresh, due, recent, starting, stopping>>

(* No petal is selected. *)
StartFails(wish) ==
  /\ Manage(wish) /\ captured /\ MayStart(wish)
  /\ start_attempted' = TRUE /\ stop_attempted' = StopAttempted(wish)
  /\ close_task' \in CloseTasks /\ auto_close' = AutoClose
  /\ UNCHANGED <<owned, stop_started, asked, fresh, due, recent, starting, stopping>>

(* The call may return no Task and do nothing. *)
Start(wish) ==
  /\ Manage(wish) /\ captured /\ MayStart(wish)
  /\ start_attempted' = TRUE /\ stop_attempted' = StopAttempted(wish)
  /\ owned' = TRUE /\ asked' = TRUE
  /\ close_task' \in CloseTasks /\ auto_close' = AutoClose
  /\ starting' \in {starting, TRUE}
  /\ UNCHANGED <<stop_started, fresh, due, recent, stopping>>

(* Mutant of Stop: an older dialog may be closed. *)
StopKeepsDialog(wish) ==
  /\ Manage(wish) /\ captured /\ MayStop(wish)
  /\ start_attempted' = StartAttempted(wish) /\ stop_attempted' = TRUE
  /\ stop_started' = (StopStarted \/ SessionOwned)
  /\ close_task' \in IF SessionOwned THEN {"none"} ELSE CloseTasks
  /\ auto_close' = TRUE /\ due' = FALSE /\ recent' = TRUE
  /\ stopping' \in {stopping, TRUE}
  /\ UNCHANGED <<owned, asked, fresh, starting>>

(* A stop on behalf of a route is answered for until its dialog is closed. *)
Stop(wish) ==
  /\ Manage(wish) /\ captured /\ MayStop(wish)
  /\ start_attempted' = StartAttempted(wish) /\ stop_attempted' = TRUE
  /\ stop_started' = (StopStarted \/ SessionOwned)
  /\ close_task' \in IF SessionOwned THEN {"none"} ELSE CloseTasks
  /\ auto_close' = TRUE /\ fresh' = FALSE /\ due' = FALSE /\ recent' = TRUE
  /\ stopping' \in {stopping, TRUE}
  /\ UNCHANGED <<owned, asked, starting>>

Tick ==
  \E wish \in Wishes : ManageIdle(wish) \/ StartFails(wish) \/ Start(wish) \/ Stop(wish)

(* update_nearby_location(): what the module reports to the controller of  *)
(* a route.                                                                *)
StopOk ==
  /\ captured /\ ~Planting /\ ~auto_close
  /\ stop_started => close_task = "done"

-----------------------------------------------------------------------------
(* planting_reward.inc *)

(* all: the return mode file, read at each call, holds "all". *)
Authorized(all) == all \/ recent

(* The overlay's Start() hook: the last root is given up. *)
RewardStart(all) ==
  /\ screen' \in {"flower", "other"}
  /\ overlay' \in {FALSE, Authorized(all)}
  /\ clicks' = 0
  /\ UNCHANGED <<lease, captured, control, closing, recent, game>>

(* Not authorised any more, older than 60 s, or a call into it failed. *)
RewardForget ==
  /\ overlay /\ overlay' = FALSE
  /\ UNCHANGED <<lease, captured, control, closing, screen, recent, clicks, game>>

(* Mutant of RewardCollect: it is given up when the click succeeded. *)
RewardCollectRetry(all) ==
  /\ overlay /\ Authorized(all) /\ screen = "flower"
  /\ overlay' \in BOOLEAN /\ clicks' = clicks + 1
  /\ UNCHANGED <<lease, captured, control, closing, screen, recent, game>>

(* After at least 1 s, with a button that can be touched. *)
RewardCollect(all) ==
  /\ overlay /\ Authorized(all) /\ screen = "flower"
  /\ overlay' = FALSE /\ clicks' = clicks + 1
  /\ UNCHANGED <<lease, captured, control, closing, screen, recent, game>>

-----------------------------------------------------------------------------
(* The environment *)

(* The lease is a file of another process. *)
Control ==
  /\ lease' \in Lease \cup {NoLease}
  /\ UNCHANGED <<captured, control, closing, overlay, screen, recent, clicks, game>>

Capture ==
  /\ captured' = TRUE
  /\ UNCHANGED <<lease, control, closing, reward, game>>

Untouched == UNCHANGED <<lease, captured, control, reward>>

(* A session begins when the result dialog of the last one has opened. *)
MayBegin == session = "none" /\ result = "none" /\ ~stopping

StartDecided ==
  /\ Untouched /\ starting /\ starting' = FALSE
  /\ \/ MayBegin /\ session' = "ours"
     \/ UNCHANGED session
  /\ UNCHANGED <<closing, stopping, result>>

(* A stop ends the session it finds, if it succeeds. *)
StopDecided ==
  /\ Untouched /\ stopping /\ stopping' = FALSE
  /\ \/ session # "none" /\ session' = "none" /\ result' = "module"
     \/ UNCHANGED <<session, result>>
  /\ UNCHANGED <<closing, starting>>

PlayerStarts ==
  /\ Untouched /\ MayBegin
  /\ session' = "players"
  /\ UNCHANGED <<closing, starting, stopping, result>>

(* The player stops planting, or the petals run out. *)
PlayerStops ==
  /\ Untouched /\ session # "none"
  /\ session' = "none" /\ result' = "player"
  /\ UNCHANGED <<closing, starting, stopping>>

(* Mutant of DialogStart: the time of the first dialog is kept. *)
DialogStartFirst ==
  /\ Untouched /\ result # "none"
  /\ result' = "none" /\ dialog' = TRUE
  /\ fresh' = IF ~dialog THEN TRUE ELSE fresh
  /\ UNCHANGED <<close_task, auto_close, due, session, starting, stopping>>

(* The result dialog opens: hooked_planting_result_dialog_start(). *)
DialogStart ==
  /\ Untouched /\ result # "none"
  /\ result' = "none" /\ dialog' = TRUE
  /\ fresh' = TRUE
  /\ UNCHANGED <<close_task, auto_close, due, session, starting, stopping>>

CloseEnds ==
  /\ Untouched /\ close_task = "running"
  /\ close_task' \in {"done", "faulted"}
  /\ UNCHANGED <<auto_close, dialog, fresh, due, game>>

SecondPasses ==
  /\ Untouched /\ auto_close /\ ~due
  /\ due' = TRUE
  /\ UNCHANGED <<close_task, auto_close, dialog, fresh, game>>

MinutePasses ==
  /\ recent /\ recent' = FALSE
  /\ UNCHANGED <<lease, captured, control, closing, overlay, screen, clicks, game>>

(* The process restarts; a session goes on as the game's. *)
Restart ==
  /\ session' \in {session, "none"} /\ lease' = NoLease
  /\ captured' = FALSE /\ owned' = FALSE /\ last_mode' = "none" /\ asked' = FALSE
  /\ start_attempted' = FALSE /\ stop_attempted' = FALSE
  /\ session_owned' = FALSE /\ stop_token' = NoToken /\ stop_started' = FALSE
  /\ close_task' = "none" /\ auto_close' = FALSE /\ fresh' = FALSE /\ due' = FALSE
  /\ overlay' = FALSE
  /\ starting' = FALSE /\ stopping' = FALSE /\ result' = "none" /\ dialog' = FALSE
  /\ screen' = "none" /\ recent' = FALSE /\ clicks' = 0

Environment ==
  \/ Control \/ Capture \/ StartDecided \/ StopDecided \/ PlayerStarts \/ PlayerStops
  \/ DialogStart \/ CloseEnds \/ SecondPasses \/ MinutePasses

Next ==
  \/ Tick
  \/ \E all \in BOOLEAN : RewardStart(all) \/ RewardCollect(all)
  \/ RewardForget
  \/ Environment \/ Restart

Spec == Init /\ [][Next]_vars

(* The update thread keeps calling, time passes, the game decides and      *)
(* opens the dialog of a session that ended.                               *)
FairSpec ==
  /\ Spec
  /\ WF_vars(Tick) /\ WF_vars(SecondPasses) /\ WF_vars(StopDecided) /\ WF_vars(DialogStart)

-----------------------------------------------------------------------------
(* Properties *)

(* When the module reports to a route that it has ended planting, the      *)
(* result dialog of that session has opened and been closed: none of its   *)
(* own is still to come while the route walks on.                          *)
RouteReady ==
  StopOk /\ stop_started => result # "module"

(* RouteReady with what it rests on: a dialog seen since the last stop     *)
(* request belongs to the session that request was for, and a session      *)
(* begins when the dialog of the last one is open.                         *)
Settled ==
  \/ auto_close /\ fresh
  \/ ~auto_close /\ stop_started /\ close_task # "none"

SettledOver ==
  /\ result # "none" => session = "none"
  /\ Settled => result # "module" /\ (stopping => session = "none")

(* The button of an overlay is clicked once, and only if the reward is for *)
(* planting, however the modes change while the overlay is on the screen   *)
(* and whatever the click does.                                            *)
RewardOnce ==
  [][clicks' > clicks => clicks = 0 /\ screen = "flower"]_vars

(* When the route is over and nobody plants, the mode file counts again: a *)
(* dialog that is still to be closed does not keep planting off for ever.  *)
HandBack ==
  <>[](lease = NoLease /\ session = "none") => <>[]~session_owned

-----------------------------------------------------------------------------
(* What docs say, and the code does not do *)

(* src/README.md:102 says of the mode file that off only stops a session   *)
(* the module itself began, and never one the player began by hand;        *)
(* nectar_rpc.cpp:2573-2575 says of an active session of the player's that *)
(* ownership is left false, "so a later off never shuts down the player's  *)
(* session".  Only a route lease may end it (2552).                        *)
OffStopsOwnOnly ==
  [][(\E wish \in Wishes : Stop(wish)) /\ ~SessionOwned => session # "players"]_vars
=============================================================================
