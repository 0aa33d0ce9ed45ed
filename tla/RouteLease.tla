----------------------------- MODULE RouteLease -----------------------------
(***************************************************************************)
(* Who may run a route: route_lease() grants the lease in the controller's *)
(* file only to the account that is logged in.  Log-in and log-out run on  *)
(* one thread of the game, the scan on another; both read the lease file   *)
(* first and take identity_mutex after that, so the file, the session and  *)
(* the identity may all change in between.                                 *)
(*                                                                         *)
(* A digest stands for its account.  A lease is live while its time has    *)
(* not run out; the controller may renew it under the same token.          *)
(***************************************************************************)
CONSTANTS
  Token, Account,
  Nobody      \* no account, no token

ASSUME RouteLeaseAssumption == Nobody \notin Token \cup Account

Lease == [token : Token, account : Account]

NoLease == [token |-> Nobody, account |-> Nobody]

VARIABLES
  file,       \* the live lease of the file, or NoLease
  hooked,     \* identity_logout_hook_ready
  identity,   \* identity_hash, by its account
  revoked,    \* revoked_route_tokens
  account,    \* the account the game is logged in with
  step,       \* the session thread: "idle", "lock", "native" or "hash"
  goal,       \* what it does: log in with an account, or "logout", "construct"
  found,      \* the token invalidate_identity() has read
  read,       \* the lease the scan has read
  granted     \* what its last route_lease() returned

VARIABLE ended  \* history: tokens that were live when a session was left

session   == <<hooked, identity, revoked, account, step, goal, found, ended>>
scan      == <<read, granted>>
leaseVars == <<file, session, scan>>

LeaseTypeOK ==
  /\ file \in Lease \cup {NoLease}
  /\ hooked \in BOOLEAN
  /\ identity \in Account \cup {Nobody} /\ account \in Account \cup {Nobody}
  /\ revoked \subseteq Token /\ ended \subseteq Token
  /\ step \in {"idle", "lock", "native", "hash"}
  /\ goal \in Account \cup {"logout", "construct"}
  /\ found \in Token \cup {Nobody}
  /\ read \in Lease \cup {NoLease} /\ granted \in Lease \cup {NoLease}

LeaseInit ==
  /\ file = NoLease /\ hooked = FALSE
  /\ identity = Nobody /\ revoked = {} /\ account = Nobody
  /\ step = "idle" /\ goal = "construct" /\ found = Nobody
  /\ read = NoLease /\ granted = NoLease
  /\ ended = {}

-----------------------------------------------------------------------------
(* The session thread *)

Install ==
  /\ ~hooked /\ hooked' = TRUE
  /\ UNCHANGED <<file, identity, revoked, account, step, goal, found, ended, scan>>

(* The hooks of the constructor, the log-in and the log-out begin with     *)
(* invalidate_identity(), which reads the lease file ...                   *)
Enter(g) ==
  /\ step = "idle"
  /\ g = "logout" => hooked /\ account # Nobody
  /\ goal' = g /\ step' = "lock"
  /\ found' = file.token
  /\ ended' = ended \cup ({file.token} \ {Nobody})
  /\ UNCHANGED <<file, hooked, identity, revoked, account, scan>>

(* Mutant of Invalidate: a log-out revokes nothing. *)
InvalidateIdentity ==
  /\ step = "lock"
  /\ identity' = Nobody
  /\ step' = IF goal = "construct" THEN "idle" ELSE "native"
  /\ UNCHANGED <<file, hooked, account, goal, found, revoked, ended, scan>>

(* ... and takes the identity and the token away under the mutex. *)
Invalidate ==
  /\ step = "lock"
  /\ identity' = Nobody
  /\ revoked' = revoked \cup ({found} \ {Nobody})
  /\ step' = IF goal = "construct" THEN "idle" ELSE "native"
  /\ UNCHANGED <<file, hooked, account, goal, found, ended, scan>>

(* Mutant of Native: the identity is still that of the last log-in. *)
NativeEarly ==
  /\ step \in {"lock", "native"}
  /\ account' = IF goal = "logout" THEN Nobody ELSE goal
  /\ step' = IF goal = "logout" THEN "idle" ELSE "hash"
  /\ goal # "construct"
  /\ UNCHANGED <<file, hooked, identity, revoked, goal, found, ended, scan>>

(* The game's own log-in or log-out. *)
Native ==
  /\ step = "native"
  /\ account' = IF goal = "logout" THEN Nobody ELSE goal
  /\ step' = IF goal = "logout" THEN "idle" ELSE "hash"
  /\ UNCHANGED <<file, hooked, identity, revoked, goal, found, ended, scan>>

(* Different ids have different digests; an id that is empty, too long or   *)
(* of an unexpected type has none.                                          *)
AccountDigest(id) == {id, Nobody}

SetHash ==
  /\ step = "hash" /\ step' = "idle"
  /\ identity' \in IF hooked THEN AccountDigest(goal) ELSE {identity}
  /\ UNCHANGED <<file, hooked, revoked, account, goal, found, ended, scan>>

(* Before its hook is ready, a log-out is not seen. *)
UnseenLogout ==
  /\ step = "idle" /\ ~hooked /\ account # Nobody
  /\ account' = Nobody
  /\ UNCHANGED <<file, hooked, identity, revoked, step, goal, found, ended, scan>>

Session ==
  \/ Install \/ Invalidate \/ Native \/ SetHash \/ UnseenLogout
  \/ \E g \in Account \cup {"logout", "construct"} : Enter(g)

-----------------------------------------------------------------------------
(* The scan thread: route_lease() *)

ScanRead ==
  /\ read = NoLease /\ file # NoLease
  /\ read' = file
  /\ UNCHANGED <<file, session, granted>>

Grants(l) ==
  /\ hooked /\ identity # Nobody
  /\ l.account = identity /\ l.token \notin revoked

ScanCheck ==
  /\ read # NoLease /\ read' = NoLease
  /\ granted' = IF Grants(read) THEN read ELSE NoLease
  /\ UNCHANGED <<file, session>>

(* The controller writes, renews or lets lapse. *)
Publish ==
  /\ file' \in Lease \cup {NoLease}
  /\ UNCHANGED <<session, scan>>

LeaseNext == Session \/ ScanRead \/ ScanCheck \/ Publish

LeaseSpec == LeaseInit /\ [][LeaseNext]_leaseVars

-----------------------------------------------------------------------------
(* Properties *)

(* A lease is granted only to the account that is logged in at that        *)
(* moment, though the scan read it before and the session changes on       *)
(* another thread.                                                         *)
AccountMatches ==
  [][ScanCheck /\ granted' # NoLease => granted'.account = account]_leaseVars

(* A token that was live when a session was left is not granted again in   *)
(* this process: not to the same account, not after it was renewed, not to *)
(* a scan that had read it before.                                         *)
RevokedStays ==
  [][ScanCheck /\ granted' # NoLease =>
       granted'.token \notin ended \/ (step = "lock" /\ found = granted'.token)]_leaseVars
=============================================================================
