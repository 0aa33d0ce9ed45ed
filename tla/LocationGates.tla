---------------------------- MODULE LocationGates ----------------------------
(***************************************************************************)
(* The two gates that tell whether the position of the game can be trusted *)
(* enough to send Pikmin: NearbyLocationGate and RouteLocationGate.        *)
(* update_nearby_location() shows both of them the fix of the game about   *)
(* once a second; the dispatcher asks them at any other time.              *)
(*                                                                         *)
(* Positions are left out: of a fix it is an input whether it moved too    *)
(* far since the last one, whether the processed position agrees with the  *)
(* raw one, and how it lies to the trajectory; an invalid fix has the time *)
(* 0, which both gates refuse for the same reason.  Times are in seconds.  The boot-time *)
(* clock goes on while the device sleeps, the monotonic clock does not;    *)
(* neither goes back or fails.  Epochs are modelled in Dispatch.           *)
(***************************************************************************)
EXTENDS Integers, FiniteSets

CONSTANTS
  Tokens,        \* tokens of route leases
  NoToken,       \* no lease
  Stale,         \* 5: the age of a fix, the gaps between fixes and readings
  Settle,        \* 3: how long the nearby gate waits
  Heartbeat,     \* 2: how long a reading of the nearby gate lasts
  RouteAge,      \* 2: the same ages and gaps for the route gate
  RouteSamples,  \* 8: how many fixes the route gate needs
  RouteSpan,     \* 10: over how long
  RouteKeep,     \* 12: how long it keeps them
  Naps,          \* for how long the device may sleep
  Horizon        \* bound: the last second

ASSUME GatesAssumption ==
  /\ NoToken \notin Tokens
  /\ {Stale, Settle, Heartbeat, RouteAge, RouteSamples, RouteSpan, RouteKeep, Horizon} \subseteq Nat
  /\ RouteSpan <= RouteKeep /\ RouteSamples > 0
  /\ Naps \subseteq Nat

VARIABLES
  now,        \* CLOCK_BOOTTIME
  slept       \* for how long of it the device slept

VARIABLES     \* NearbyLocationGate
  anchored, since, samples,
  last_fix,   \* last_fix_, or 0
  last_seen   \* last_seen_ on the monotonic clock, or 0

VARIABLES     \* RouteLocationGate, and route_gate_token
  history,    \* its samples; two of them differ in the time of their fix
  last,       \* history.back(), or NoSample
  ready,      \* ready_
  seen,       \* seen_
  gate_token

VARIABLES     \* history of the model
  fixes,      \* times of the fixes since the nearby gate was last anchored
  dozed,      \* the device slept since the last reading
  lapsed      \* the route gate was ready, and time closed it, since its reset

nearby    == <<anchored, since, samples, last_fix, last_seen, fixes, dozed>>
route     == <<history, last, ready, seen, gate_token, lapsed>>
gateVars  == <<now, slept, nearby, route>>

Sample == [at : Nat, elapsed : Nat, token : Tokens]

NoSample == [at |-> 0, elapsed |-> 0, token |-> NoToken]

(* path: whether the processed position lies near the trajectory of the    *)
(* last 10 s, and then also within 60 m of the raw position.               *)
Fix ==
  [at : {t \in 0..(now + 1) : t >= now - Stale - 1},
   agrees : BOOLEAN, moved : BOOLEAN, path : {"off", "far", "near"}]

GatesTypeOK ==
  /\ now \in Nat \ {0} /\ slept \in 0..(now - 1)
  /\ anchored \in BOOLEAN /\ since \in Nat /\ samples \in 0..3
  /\ last_fix \in 0..now /\ last_seen \in 0..(now - slept)
  /\ IsFiniteSet(history) /\ history \subseteq Sample
  /\ last \in Sample \cup {NoSample}
  /\ ready \in BOOLEAN /\ seen \in 0..now
  /\ gate_token \in Tokens \cup {NoToken}
  /\ IsFiniteSet(fixes) /\ fixes \subseteq Nat
  /\ dozed \in BOOLEAN /\ lapsed \in BOOLEAN

GatesInit ==
  /\ now = 1 /\ slept = 0
  /\ anchored = FALSE /\ since = 0 /\ samples = 0 /\ last_fix = 0 /\ last_seen = 0
  /\ history = {} /\ last = NoSample /\ ready = FALSE /\ seen = 0 /\ gate_token = NoToken
  /\ fixes = {} /\ dozed = FALSE /\ lapsed = FALSE

Steady == now - slept

-----------------------------------------------------------------------------
(* NearbyLocationGate::observe() *)

NearbyGap == last_seen # 0 /\ Steady - last_seen > Stale

(* Mutant of NearbyRejects: a fix from the future is taken. *)
NearbyRejectsOld(f) == f.at = 0 \/ now - f.at > Stale \/ ~f.agrees

NearbyRejects(f) ==
  \/ f.at = 0 \/ f.at > now \/ now - f.at > Stale
  \/ ~f.agrees

NearbyMoved(f) == f.at < last_fix \/ f.at - last_fix > Stale \/ f.moved

NearbyFollows(f) == anchored /\ ~NearbyGap /\ ~NearbyMoved(f)

NearbyReset(f) ==
  /\ NearbyRejects(f)
  /\ anchored' = FALSE /\ since' = 0 /\ samples' = 0 /\ last_fix' = 0 /\ fixes' = {}

NearbyAnchor(f) ==
  /\ ~NearbyRejects(f) /\ ~NearbyFollows(f)
  /\ anchored' = TRUE /\ since' = Steady /\ samples' = 1
  /\ last_fix' = f.at /\ fixes' = {f.at}

(* Mutant of NearbyFollow: a fix counts each time it is read. *)
NearbyFollowReread(f) ==
  /\ ~NearbyRejects(f) /\ NearbyFollows(f)
  /\ last_fix' = f.at
  /\ samples' = IF samples < 3 THEN samples + 1 ELSE samples
  /\ fixes' = fixes \cup {f.at}
  /\ UNCHANGED <<anchored, since>>

(* A fix that was read before counts for nothing. *)
NearbyFollow(f) ==
  /\ ~NearbyRejects(f) /\ NearbyFollows(f)
  /\ last_fix' = f.at
  /\ samples' = IF f.at > last_fix /\ samples < 3 THEN samples + 1 ELSE samples
  /\ fixes' = fixes \cup {f.at}
  /\ UNCHANGED <<anchored, since>>

NearbyObserve(f) ==
  /\ NearbyReset(f) \/ NearbyAnchor(f) \/ NearbyFollow(f)
  /\ last_seen' = Steady
  /\ dozed' = FALSE

(* NearbyLocationGate::ready() *)
NearbyReady ==
  /\ anchored /\ samples >= 3
  /\ Steady - since >= Settle /\ Steady - last_seen <= Heartbeat

-----------------------------------------------------------------------------
(* RouteLocationGate, and its part of update_nearby_location() *)

RouteReset ==
  /\ history' = {} /\ last' = NoSample /\ ready' = FALSE /\ seen' = 0 /\ lapsed' = FALSE

RouteRejects(f) == f.at = 0 \/ f.at > now \/ now - f.at > RouteAge

(* Mutant of RouteBroken: only the times of the fixes count. *)
RouteBrokenFix(f) == f.at < last.at \/ f.at - last.at > RouteAge \/ f.moved

RouteBroken(f) ==
  \/ now - seen > RouteAge
  \/ f.at < last.at \/ f.at - last.at > RouteAge
  \/ f.moved

(* Mutant of RouteHistory: a new lease goes on with the trajectory. *)
RouteHistoryKept(t) == history

(* A lease with another token starts anew. *)
RouteHistory(t) == IF t = gate_token THEN history ELSE {}

Kept(t, f) ==
  {s \in RouteHistory(t) : now - s.elapsed <= RouteKeep}
    \cup {[at |-> f.at, elapsed |-> now, token |-> t]}

RouteLost(t, f) ==
  /\ \/ t = NoToken
     \/ RouteRejects(f)
     \/ RouteHistory(t) # {} /\ RouteBroken(f)
  /\ RouteReset

(* The same fix again. *)
RouteReread(t, f) ==
  /\ t # NoToken /\ ~RouteRejects(f)
  /\ RouteHistory(t) # {} /\ ~RouteBroken(f) /\ f.at = last.at
  /\ seen' = now
  /\ UNCHANGED <<history, last, ready, lapsed>>

RouteSample(t, f) ==
  /\ t # NoToken /\ ~RouteRejects(f)
  /\ RouteHistory(t) # {} => ~RouteBroken(f) /\ f.at # last.at
  /\ IF f.path # "off" \/ Cardinality(Kept(t, f)) = 1
     THEN /\ history' = Kept(t, f)
          /\ last' = [at |-> f.at, elapsed |-> now, token |-> t]
          /\ seen' = now
          /\ ready' = /\ Cardinality(history') >= RouteSamples
                      /\ \E s \in history' : now - s.elapsed >= RouteSpan
                      /\ f.path = "near"
          /\ lapsed' = (lapsed /\ RouteHistory(t) # {})
     ELSE RouteReset

RouteObserve(t, f) ==
  /\ RouteLost(t, f) \/ RouteReread(t, f) \/ RouteSample(t, f)
  /\ gate_token' = t

(* RouteLocationGate::ready() *)
RouteReady == ready /\ now - seen <= RouteAge

-----------------------------------------------------------------------------
(* maybe_claim() comes here at most once a second. *)
Update(t, f) ==
  /\ Steady > last_seen \/ dozed
  /\ NearbyObserve(f) /\ RouteObserve(t, f)
  /\ UNCHANGED <<now, slept>>

Lapses(later) == lapsed \/ (ready /\ later - seen > RouteAge)

Tick ==
  /\ now < Horizon /\ now' = now + 1
  /\ lapsed' = Lapses(now')
  /\ UNCHANGED <<slept, nearby, history, last, ready, seen, gate_token>>

Sleep(d) ==
  /\ now + d <= Horizon /\ now' = now + d /\ slept' = slept + d
  /\ dozed' = TRUE /\ lapsed' = Lapses(now')
  /\ UNCHANGED <<anchored, since, samples, last_fix, last_seen, fixes, history, last, ready, seen,
                 gate_token>>

GatesNext ==
  \/ \E t \in Tokens \cup {NoToken}, f \in Fix : Update(t, f)
  \/ Tick
  \/ \E d \in Naps : Sleep(d)

GatesSpec == GatesInit /\ [][GatesNext]_gateVars

-----------------------------------------------------------------------------
(* Properties *)

(* While the nearby gate is open, three different fixes have followed each *)
(* other without a jump, a gap or a disagreement, and the last one is no   *)
(* older than Stale + Heartbeat - unless the device slept since: ready()   *)
(* counts on a clock that stops in sleep.                                  *)
NearbyTrusted ==
  NearbyReady => Cardinality(fixes) >= 3 /\ (dozed \/ now - last_fix <= Stale + Heartbeat)

(* While the route gate is open, its trajectory is long enough and of one  *)
(* lease, and a match of it was found at most twice RouteAge ago, though   *)
(* the same fix may be read again and the device may sleep.                *)
RouteTrusted ==
  RouteReady =>
    /\ Cardinality(history) >= RouteSamples
    /\ \E s \in history : last.elapsed - s.elapsed >= RouteSpan
    /\ \A s \in history : s.token = gate_token
    /\ now - last.elapsed <= 2 * RouteAge

(* A route gate that time has closed does not open again before its reset: *)
(* who remembers its epoch is not deceived by a gap.                       *)
RouteUnbroken == lapsed => ~RouteReady
=============================================================================
