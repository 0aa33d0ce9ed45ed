------------------------------- MODULE Startup -------------------------------
(***************************************************************************)
(* How the module gets into the game.  A worker thread waits for the       *)
(* game's library and patches nine functions at fixed addresses, one after *)
(* the other, while the game is already running.  The rest is looked up by *)
(* name, once, on the game's own thread, the first time that a patched     *)
(* function is called and the runtime is usable.                           *)
(*                                                                         *)
(* The patched constructors capture the game's managers, which the engines *)
(* use from then on.  Only whether the captured one is still the latest    *)
(* matters, not how many there have been.                                  *)
(***************************************************************************)
EXTENDS Naturals, Sequences

(* Mutant of Direct: log-ins are seen before constructors. *)
DirectLoginFirst ==
  <<"register", "map_update", "flower_model", "logged_in", "rpc_ctor",
    "planting_init", "planting_start", "planting_state", "awake">>

(* The functions that start() patches, in its order. *)
Direct ==
  <<"register", "map_update", "flower_model", "rpc_ctor", "logged_in",
    "planting_init", "planting_start", "planting_state", "awake">>

(* What install_return_diagnostic_hook() cannot do without, in its order:  *)
(* it returns at the first one that is missing.  "list" stands for the     *)
(* task list and for the getters that are looked up with it.               *)
Chain == <<"action_ctor", "complete", "preparer_ctor", "prepare", "ready", "list">>

(* What may be missing. *)
Optional == {"duration", "store_ctor", "wire", "logged_out", "reward", "dialog", "speed"}

Elements(s) == {s[i] : i \in DOMAIN s}

Function == Elements(Direct) \cup Elements(Chain) \cup Optional

(* The manager that a patched function captures ... *)
Captures ==
  [rpc_ctor |-> "rpc", logged_in |-> "rpc", planting_init |-> "planting",
   planting_start |-> "planting", planting_state |-> "planting", awake |-> "location",
   action_ctor |-> "action", preparer_ctor |-> "preparer", store_ctor |-> "store"]

(* ... and the ones among these that run when the game makes a new one. *)
Constructors == {"rpc_ctor", "planting_init", "awake", "action_ctor", "preparer_ctor", "store_ctor"}

Manager == {"rpc", "planting", "location", "action", "preparer", "store"}

CONSTANTS
  Builds,     \* sets of functions that a build of the game may have by name
  Failures,   \* sets of functions whose patching may fail
  MaxPolls    \* how many seconds the worker waits

ASSUME StartupAssumption ==
  /\ Builds \subseteq SUBSET Function /\ Failures \subseteq SUBSET Function
  /\ MaxPolls \in Nat \ {0}

VARIABLES
  worker,     \* the worker: "new", "open", "check", "hook", or "over"
  polls,      \* how often it has tried to open the library
  next,       \* the place in Direct of the next function to patch
  compat,     \* the compatibility file: "none", "yes" or "no"
  patches,    \* how often each function was patched
  metadata,   \* runtime_metadata_ready
  logged,     \* planting_controller_metadata_logged
  manager     \* of each manager: "absent" in the game, "unseen", "current" or "stale"

VARIABLES     \* the environment
  library,    \* libil2cpp.so: "absent", "v152", of another "size" or "stripped" of its symbols
  domain,     \* il2cpp_domain_get() returns a domain
  build,      \* what the game has by name
  failing     \* what cannot be patched

memory    == <<patches, metadata, logged, manager>>
startEnv  == <<library, domain, build, failing>>
startVars == <<worker, polls, next, compat, memory, startEnv>>

StartTypeOK ==
  /\ worker \in {"new", "open", "check", "hook", "over"}
  /\ polls \in 0..MaxPolls
  /\ next \in 1..(Len(Direct) + 1)
  /\ compat \in {"none", "yes", "no"}
  /\ patches \in [Function -> Nat]
  /\ metadata \in BOOLEAN /\ logged \in BOOLEAN
  /\ manager \in [Manager -> {"absent", "unseen", "current", "stale"}]
  /\ library \in {"absent", "v152", "size", "stripped"} /\ domain \in BOOLEAN
  /\ build \in Builds \cup {{}} /\ failing \in Failures \cup {{}}

StartInit ==
  /\ worker = "new" /\ polls = 0 /\ next = 1 /\ compat = "none"
  /\ patches = [f \in Function |-> 0]
  /\ metadata = FALSE /\ logged = FALSE
  /\ manager = [m \in Manager |-> "absent"]
  /\ library = "absent" /\ domain = FALSE
  /\ build = {} /\ failing = {}

-----------------------------------------------------------------------------
(* A64HookFunction(): without a trampoline, or on a page that cannot be    *)
(* made writable, the function stays as it is and original stays null.     *)
Patch(fs) ==
  patches' = [f \in Function |-> patches[f] + (IF f \in fs \ failing THEN 1 ELSE 0)]

Patched(f) == patches[f] > 0

-----------------------------------------------------------------------------
(* The worker *)

(* Only in the process of the game does the worker start. *)
Specialize(game) ==
  /\ worker = "new"
  /\ worker' = IF game THEN "open" ELSE "over"
  /\ UNCHANGED <<polls, next, compat, memory, startEnv>>

(* xdl_open(), once a second *)
Open ==
  /\ worker = "open" /\ polls < MaxPolls /\ polls' = polls + 1
  /\ worker' = IF library # "absent" THEN "check" ELSE IF polls' = MaxPolls THEN "over" ELSE "open"
  /\ UNCHANGED <<next, compat, memory, startEnv>>

(* The symbols of the runtime, the paths of the files and the size of the  *)
(* library; what is patched later is left alone when one of them is wrong. *)
Check ==
  /\ worker = "check"
  /\ compat' = IF library = "stripped" THEN compat ELSE IF library = "v152" THEN "yes" ELSE "no"
  /\ worker' = IF library = "v152" THEN "hook" ELSE "over"
  /\ UNCHANGED <<polls, next, memory, startEnv>>

InstallHook ==
  /\ worker = "hook"
  /\ Patch({Direct[next]})
  /\ next' = next + 1
  /\ worker' = IF next = Len(Direct) THEN "over" ELSE "hook"
  /\ UNCHANGED <<polls, compat, metadata, logged, manager, startEnv>>

-----------------------------------------------------------------------------
(* On the game's thread *)

Found(f) == f \in build

(* install_return_diagnostic_hook(), as far as it comes ... *)
ReturnHooks == {Chain[i] : i \in {k \in DOMAIN Chain : \A j \in 1..k : Found(Chain[j])}}

(* ... and what it tries on its way to the task list, for the dispatcher *)
DispatchHooks == IF "list" \in ReturnHooks THEN {"duration", "store_ctor"} \cap build ELSE {}

(* install_dispatch_wire_probe() *)
WireHook == {"wire"} \cap build

LogoutHook == {"logged_out"} \cap build

MetadataHooks == ReturnHooks \cup DispatchHooks \cup WireHook \cup LogoutHook

(* Mutant of Due: tried again until the last hook is there. *)
DueUntilWhole == ~Patched("list") /\ domain

(* initialize_runtime_metadata() is due: what it finds missing it does not *)
(* look up again.                                                          *)
Due == ~metadata /\ domain

Register ==
  /\ Patched("register")
  /\ metadata' = (metadata \/ Due)
  /\ Patch(IF Due THEN MetadataHooks ELSE {})
  /\ UNCHANGED <<worker, polls, next, compat, logged, manager, startEnv>>

LoggedIn ==
  /\ manager["rpc"] # "absent" /\ Patched("logged_in")
  /\ manager' = [manager EXCEPT !["rpc"] = "current"]
  /\ metadata' = (metadata \/ Due)
  /\ Patch(IF Due THEN MetadataHooks ELSE {})
  /\ UNCHANGED <<worker, polls, next, compat, logged, startEnv>>

-----------------------------------------------------------------------------
(* A new manager: a patched constructor captures it. *)
Made(f) ==
  LET m == Captures[f]
      unpatched == IF manager[m] \in {"absent", "unseen"} THEN "unseen" ELSE "stale"
  IN  manager' = [manager EXCEPT ![m] = IF Patched(f) THEN "current" ELSE unpatched]

Construct(f) ==
  /\ library # "absent" /\ f # "planting_init"
  /\ Made(f)
  /\ UNCHANGED <<worker, polls, next, compat, patches, metadata, logged, startEnv>>

(* Names are only found once the metadata is there. *)
Nameable(fs) == IF metadata THEN fs \cap build ELSE {}

(* install_planting_reward_hook() *)
RewardHook == IF Patched("reward") THEN {} ELSE Nameable({"reward"})

(* Looked up at the first controller, whether the metadata is there or not *)
DialogHooks == IF logged THEN {} ELSE Nameable({"dialog", "speed"})

PlantingInit ==
  /\ library # "absent"
  /\ Made("planting_init")
  /\ logged' = (logged \/ Patched("planting_init"))
  /\ Patch(IF Patched("planting_init") THEN RewardHook \cup DialogHooks ELSE {})
  /\ UNCHANGED <<worker, polls, next, compat, metadata, startEnv>>

(* planting_start and planting_state_updated *)
PlantingSeen(f) ==
  /\ manager["planting"] # "absent" /\ Patched(f)
  /\ manager' = [manager EXCEPT !["planting"] = "current"]
  /\ UNCHANGED <<worker, polls, next, compat, patches, metadata, logged, startEnv>>

-----------------------------------------------------------------------------
(* The game maps its library, and later the runtime becomes usable. *)
MapLibrary ==
  /\ worker # "new" /\ library = "absent"
  /\ library' \in {"v152", "size", "stripped"}
  /\ build' \in Builds /\ failing' \in Failures
  /\ UNCHANGED <<worker, polls, next, compat, memory, domain>>

DomainUsable ==
  /\ library # "absent" /\ ~domain /\ domain' = TRUE
  /\ UNCHANGED <<worker, polls, next, compat, memory, library, build, failing>>

StartNext ==
  \/ \E game \in BOOLEAN : Specialize(game)
  \/ Open \/ Check \/ InstallHook
  \/ Register \/ LoggedIn \/ PlantingInit
  \/ \E f \in Constructors : Construct(f)
  \/ \E f \in {"planting_start", "planting_state"} : PlantingSeen(f)
  \/ MapLibrary \/ DomainUsable

StartSpec == StartInit /\ [][StartNext]_startVars

-----------------------------------------------------------------------------
(* Properties *)

(* No function of the game is patched twice, which would make it call      *)
(* itself for ever, however often metadata and hooks are tried; and none   *)
(* in a library the module does not know (README.md:54).                   *)
PatchedSafely == \A f \in Function : Patched(f) => patches[f] = 1 /\ compat = "yes" /\ library = "v152"

(* The engines never use a manager the game has replaced, once its         *)
(* constructor is patched: not though the hooks are installed one by one   *)
(* while the game makes managers, logs in and plants.                      *)
CapturedIsLatest ==
  \A f \in Constructors : Patched(f) => manager[Captures[f]] # "stale"
=============================================================================
