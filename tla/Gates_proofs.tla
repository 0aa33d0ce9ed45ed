----------------------------- MODULE Gates_proofs -----------------------------
(***************************************************************************)
(* What the location gates, the route lease and the start-up guarantee,    *)
(* for every clock, fix, threshold, account, token, build of the game and  *)
(* hook that cannot be installed.                                          *)
(***************************************************************************)
EXTENDS MCGates, FiniteSetTheorems, TLAPS

-----------------------------------------------------------------------------
(* The route lease *)

(* An identity is that of the account that is logged in, whenever the      *)
(* session thread is not between two of them; a token that was live when a *)
(* session was left is revoked, or about to be.                            *)
LeaseInv ==
  /\ identity # Nobody => hooked /\ account = identity /\ step \in {"idle", "lock"}
  /\ \A t \in ended : t \in revoked \/ (step = "lock" /\ found = t)
  /\ step \in {"native", "hash"} => goal # "construct"
  /\ step = "hash" => account = goal

LeaseIInv == LeaseTypeOK /\ LeaseInv

LEMMA LeaseInitInv == LeaseInit => LeaseIInv
  <1> SUFFICES ASSUME LeaseInit PROVE LeaseIInv
    OBVIOUS
  <1>1. hooked \in BOOLEAN
    BY DEF LeaseInit
  <1> QED
    BY <1>1 DEF LeaseInit, LeaseIInv, LeaseTypeOK, LeaseInv

LEMMA FoundType == ASSUME LeaseTypeOK PROVE file.token \in Token \cup {Nobody}
  BY DEF LeaseTypeOK, Lease, NoLease

LEMMA SessionInv ==
  ASSUME LeaseIInv, Session
  PROVE  LeaseIInv'
  <1> USE RouteLeaseAssumption DEF LeaseIInv, LeaseTypeOK, LeaseInv, scan
  <1>1. CASE Install
    <2>1. hooked' \in BOOLEAN
      BY <1>1 DEF Install
    <2>2. UNCHANGED <<file, identity, revoked, account, step, goal, found, ended, scan>>
      BY <1>1 DEF Install
    <2>3. identity = Nobody
      BY <1>1 DEF Install
    <2> QED
      BY <2>1, <2>2, <2>3
  <1>2. ASSUME NEW g \in Account \cup {"logout", "construct"}, Enter(g) PROVE LeaseIInv'
    <2>1. /\ step = "idle" /\ step' = "lock" /\ goal' = g /\ found' = file.token
          /\ ended' = ended \cup ({found'} \ {Nobody})
          /\ UNCHANGED <<file, hooked, identity, revoked, account, scan>>
      BY <1>2 DEF Enter
    <2>2. found' \in Token \cup {Nobody}
      BY <2>1, FoundType
    <2>3. LeaseTypeOK'
      BY <2>1, <2>2
    <2>4. \A t \in ended' : t \in revoked' \/ (step' = "lock" /\ found' = t)
      BY <2>1
    <2> QED
      BY <2>1, <2>3, <2>4
  <1>3. CASE Invalidate
    BY <1>3 DEF Invalidate
  <1>4. CASE Native
    BY <1>4 DEF Native
  <1>5. CASE SetHash
    BY <1>5 DEF SetHash, AccountDigest
  <1>6. CASE UnseenLogout
    BY <1>6 DEF UnseenLogout
  <1> QED
    BY <1>1, <1>2, <1>3, <1>4, <1>5, <1>6 DEF Session

LEMMA LeaseStep == LeaseIInv /\ [LeaseNext]_leaseVars => LeaseIInv'
  <1> SUFFICES ASSUME LeaseIInv, [LeaseNext]_leaseVars PROVE LeaseIInv'
    OBVIOUS
  <1> USE DEF LeaseIInv, LeaseTypeOK, LeaseInv, scan, session
  <1>1. CASE ScanRead
    BY <1>1 DEF ScanRead
  <1>2. CASE ScanCheck
    BY <1>2 DEF ScanCheck
  <1>3. CASE Publish
    BY <1>3 DEF Publish
  <1>4. CASE UNCHANGED leaseVars
    BY <1>4 DEF leaseVars
  <1> QED
    BY <1>1, <1>2, <1>3, <1>4, SessionInv DEF LeaseNext

THEOREM LeaseInductive == LeaseSpec => []LeaseIInv
  BY LeaseInitInv, LeaseStep, PTL DEF LeaseSpec

(* Only a check of the scan grants, and only what it has read. *)
LEMMA GrantsRead ==
  ASSUME LeaseIInv, ScanCheck, granted' # NoLease
  PROVE  Grants(read) /\ granted' = read /\ read \in Lease
  BY DEF LeaseIInv, LeaseTypeOK, ScanCheck

(* A lease is granted only to the account that is logged in. *)
THEOREM AccountCorrect == LeaseSpec => AccountMatches
  <1>1. LeaseIInv /\ [LeaseNext]_leaseVars =>
          [ScanCheck /\ granted' # NoLease => granted'.account = account]_leaseVars
    BY GrantsRead DEF LeaseIInv, LeaseInv, Grants
  <1> QED
    BY <1>1, LeaseInductive, PTL DEF LeaseSpec, AccountMatches

(* A token that was live when a session was left is not granted again. *)
THEOREM RevokedCorrect == LeaseSpec => RevokedStays
  <1>1. LeaseIInv /\ [LeaseNext]_leaseVars =>
          [ScanCheck /\ granted' # NoLease =>
             granted'.token \notin ended \/ (step = "lock" /\ found = granted'.token)]_leaseVars
    BY GrantsRead DEF LeaseIInv, LeaseInv, Grants
  <1> QED
    BY <1>1, LeaseInductive, PTL DEF LeaseSpec, RevokedStays

-----------------------------------------------------------------------------
(* The location gates *)

(* The fixes that the nearby gate counts are different ones, and the last  *)
(* was fresh when it was read.                                             *)
NearbyInv ==
  /\ samples <= Cardinality(fixes)
  /\ anchored => last_fix \in fixes
  /\ \A t \in fixes : t <= last_fix
  /\ anchored /\ ~dozed => now - last_fix <= Stale + (Steady - last_seen)

(* The trajectory of the route gate is that of one lease, its last fix was *)
(* fresh whenever it was read, and what opened the gate lies in it.        *)
RouteInv ==
  /\ history = {} => ~ready /\ ~lapsed
  /\ history # {} =>
       /\ last \in history /\ last.elapsed <= now
       /\ seen <= last.at + RouteAge /\ last.at <= last.elapsed
  /\ \A s \in history : s.token = gate_token
  /\ ready =>
       /\ Cardinality(history) >= RouteSamples
       /\ \E s \in history : last.elapsed - s.elapsed >= RouteSpan
  /\ lapsed => now - seen > RouteAge

NearbyType ==
  /\ anchored \in BOOLEAN /\ since \in Nat /\ samples \in 0..3
  /\ last_fix \in 0..now /\ last_seen \in 0..(now - slept)
  /\ IsFiniteSet(fixes) /\ fixes \subseteq Nat /\ dozed \in BOOLEAN

RouteType ==
  /\ IsFiniteSet(history) /\ history \subseteq Sample
  /\ last \in Sample \cup {NoSample}
  /\ ready \in BOOLEAN /\ seen \in 0..now
  /\ gate_token \in Tokens \cup {NoToken} /\ lapsed \in BOOLEAN

ClockType == now \in Nat \ {0} /\ slept \in 0..(now - 1)

GatesIInv == ClockType /\ NearbyType /\ NearbyInv /\ RouteType /\ RouteInv

LEMMA Thresholds ==
  /\ Stale \in Nat /\ Settle \in Nat /\ Heartbeat \in Nat /\ RouteAge \in Nat
  /\ RouteSamples \in Nat /\ RouteSpan \in Nat /\ RouteKeep \in Nat /\ Horizon \in Nat
  /\ RouteSpan <= RouteKeep /\ NoToken \notin Tokens
  BY GatesAssumption

LEMMA GatesInitInv == GatesInit => GatesIInv
  <1> SUFFICES ASSUME GatesInit PROVE GatesIInv
    OBVIOUS
  <1>1. now = 1 /\ slept = 0 /\ samples = 0 /\ since = 0 /\ last_fix = 0 /\ last_seen = 0
    BY DEF GatesInit
  <1>2. ~anchored /\ ~dozed /\ ~ready /\ ~lapsed /\ {anchored, dozed, ready, lapsed} \subseteq BOOLEAN
    BY DEF GatesInit
  <1>3. history = {} /\ fixes = {} /\ last = NoSample /\ seen = 0 /\ gate_token = NoToken
    BY DEF GatesInit
  <1>4. IsFiniteSet({}) /\ Cardinality({}) = 0
    BY FS_EmptySet
  <1> QED
    BY <1>1, <1>2, <1>3, <1>4 DEF GatesIInv, ClockType, NearbyType, NearbyInv, RouteType, RouteInv

LEMMA NearbyStep ==
  ASSUME ClockType, NearbyType, NearbyInv, NEW f \in Fix, NearbyObserve(f), UNCHANGED <<now, slept>>
  PROVE  NearbyType' /\ NearbyInv'
  <1> USE Thresholds
  <1>1. f.at \in Nat
    BY DEF Fix
  <1>2. /\ last_seen' = now - slept /\ dozed' \in BOOLEAN /\ ~dozed'
        /\ now' = now /\ slept' = slept /\ now - slept \in Nat
    <2>1. last_seen' = now - slept /\ now' = now /\ slept' = slept
      BY DEF NearbyObserve, Steady
    <2>2. dozed' \in BOOLEAN
      BY DEF NearbyObserve
    <2>3. ~dozed'
      BY DEF NearbyObserve
    <2>4. now - slept \in Nat
      BY DEF ClockType
    <2> QED
      BY <2>1, <2>2, <2>3, <2>4
  <1>3. CASE NearbyReset(f)
    <2>1. /\ anchored' \in BOOLEAN /\ ~anchored' /\ since' = 0 /\ samples' = 0 /\ last_fix' = 0
          /\ fixes' = {}
      BY <1>3 DEF NearbyReset
    <2>2. IsFiniteSet({}) /\ Cardinality({}) = 0
      BY FS_EmptySet
    <2> QED
      BY <1>2, <2>1, <2>2 DEF NearbyType, NearbyInv, ClockType
  <1>4. CASE NearbyAnchor(f)
    <2>1. /\ anchored' \in BOOLEAN /\ since' = now - slept /\ samples' = 1 /\ last_fix' = f.at
          /\ fixes' = {f.at} /\ f.at <= now /\ now - f.at <= Stale
      BY <1>1, <1>4 DEF NearbyAnchor, NearbyRejects, Steady, ClockType
    <2>2. IsFiniteSet({f.at}) /\ Cardinality({f.at}) = 1
      BY FS_Singleton
    <2> QED
      BY <1>1, <1>2, <2>1, <2>2 DEF NearbyType, NearbyInv, ClockType, Steady
  <1>5. CASE NearbyFollow(f)
    <2>1. /\ last_fix' = f.at /\ f.at <= now /\ now - f.at <= Stale /\ fixes' = fixes \cup {f.at}
          /\ anchored /\ f.at >= last_fix /\ UNCHANGED <<anchored, since>>
      BY <1>1, <1>5
      DEF NearbyFollow, NearbyRejects, NearbyFollows, NearbyMoved, ClockType, NearbyType
    <2>2. /\ IsFiniteSet(fixes') /\ Cardinality(fixes) \in Nat
          /\ Cardinality(fixes') = IF f.at \in fixes THEN Cardinality(fixes)
                                   ELSE Cardinality(fixes) + 1
      BY <2>1, FS_AddElement, FS_CardinalityType DEF NearbyType
    <2>3. samples' = IF f.at > last_fix /\ samples < 3 THEN samples + 1 ELSE samples
      BY <1>5 DEF NearbyFollow
    <2>4. samples' \in 0..3 /\ samples' <= Cardinality(fixes')
      <3>1. CASE f.at > last_fix
        <4>1. f.at \notin fixes
          BY <1>1, <3>1 DEF NearbyType, NearbyInv
        <4> QED
          BY <2>2, <2>3, <4>1 DEF NearbyType, NearbyInv
      <3>2. CASE ~(f.at > last_fix)
        BY <2>2, <2>3, <3>2 DEF NearbyType, NearbyInv
      <3> QED
        BY <3>1, <3>2
    <2>5. NearbyType'
      <3>1. anchored' \in BOOLEAN /\ since' \in Nat /\ dozed' \in BOOLEAN
        BY <1>2, <2>1 DEF NearbyType
      <3>2. last_fix' \in 0..now' /\ last_seen' \in 0..(now' - slept')
        BY <1>1, <1>2, <2>1 DEF ClockType
      <3>3. fixes' \subseteq Nat
        BY <1>1, <2>1 DEF NearbyType
      <3> QED
        BY <2>2, <2>4, <3>1, <3>2, <3>3 DEF NearbyType
    <2>6. \A t \in fixes' : t <= last_fix'
      BY <1>1, <2>1 DEF NearbyType, NearbyInv
    <2> QED
      BY <1>2, <2>1, <2>4, <2>5, <2>6 DEF NearbyInv, Steady, ClockType
  <1> QED
    BY <1>3, <1>4, <1>5 DEF NearbyObserve

LEMMA RouteStep ==
  ASSUME ClockType, RouteType, RouteInv, NEW t \in Tokens \cup {NoToken}, NEW f \in Fix,
         RouteObserve(t, f), UNCHANGED <<now, slept>>
  PROVE  RouteType' /\ RouteInv'
  <1> USE Thresholds
  <1>1. f.at \in Nat /\ now' = now /\ gate_token' = t /\ now \in Nat
    BY DEF Fix, RouteObserve, ClockType
  <1>2. ASSUME RouteReset PROVE RouteType' /\ RouteInv'
    <2>1. /\ history' = {} /\ last' = NoSample /\ seen' = 0
          /\ ~ready' /\ ~lapsed' /\ ready' \in BOOLEAN /\ lapsed' \in BOOLEAN
      BY <1>2 DEF RouteReset
    <2>2. IsFiniteSet({})
      BY FS_EmptySet
    <2> QED
      BY <1>1, <2>1, <2>2 DEF RouteType, RouteInv
  <1>3. CASE RouteLost(t, f)
    BY <1>2, <1>3 DEF RouteLost
  <1>4. CASE RouteReread(t, f)
    <2>1. /\ t = gate_token /\ history # {} /\ ~(now - seen > RouteAge) /\ f.at = last.at
          /\ ~(now - f.at > RouteAge) /\ seen' = now /\ UNCHANGED <<history, last, ready, lapsed>>
      <3>1. RouteHistory(t) # {} /\ ~RouteBroken(f) /\ ~RouteRejects(f) /\ f.at = last.at
        BY <1>4 DEF RouteReread
      <3>2. t = gate_token /\ history # {}
        BY <3>1 DEF RouteHistory
      <3>3. ~(now - seen > RouteAge)
        BY <3>1 DEF RouteBroken
      <3>4. ~(now - f.at > RouteAge)
        BY <3>1 DEF RouteRejects
      <3>5. seen' = now /\ UNCHANGED <<history, last, ready, lapsed>>
        BY <1>4 DEF RouteReread
      <3> QED
        BY <3>1, <3>2, <3>3, <3>4, <3>5
    <2>2. ~lapsed
      BY <2>1 DEF RouteInv
    <2>3. RouteType'
      BY <1>1, <2>1 DEF RouteType
    <2>4. last.at \in Nat /\ last.elapsed \in Nat
      BY DEF RouteType, Sample, NoSample
    <2> QED
      BY <1>1, <2>1, <2>2, <2>3, <2>4 DEF RouteInv
  <1>5. CASE RouteSample(t, f)
    <2> DEFINE new == [at |-> f.at, elapsed |-> now, token |-> t]
    <2>1. /\ t \in Tokens /\ f.at <= now /\ now - f.at <= RouteAge
          /\ RouteHistory(t) # {} => ~(now - seen > RouteAge)
      <3>1. t # NoToken /\ ~RouteRejects(f)
        BY <1>5 DEF RouteSample
      <3>2. RouteHistory(t) # {} => ~RouteBroken(f)
        BY <1>5 DEF RouteSample
      <3>3. ~(f.at > now) /\ ~(now - f.at > RouteAge)
        BY <3>1 DEF RouteRejects
      <3>4. RouteHistory(t) # {} => ~(now - seen > RouteAge)
        BY <3>2 DEF RouteBroken
      <3> QED
        BY <1>1, <3>1, <3>3, <3>4
    <2>2. CASE ~(f.path # "off" \/ Cardinality(Kept(t, f)) = 1)
      BY <1>2, <1>5, <2>2 DEF RouteSample
    <2>3. CASE f.path # "off" \/ Cardinality(Kept(t, f)) = 1
      <3>1. /\ history' = Kept(t, f) /\ last' = new /\ seen' = now
            /\ ready' = /\ Cardinality(history') >= RouteSamples
                        /\ \E s \in history' : now - s.elapsed >= RouteSpan
                        /\ f.path = "near"
            /\ lapsed' = (lapsed /\ RouteHistory(t) # {})
        BY <1>5, <2>3 DEF RouteSample
      <3>2. new \in Sample /\ new.at = f.at /\ new.elapsed = now /\ new.token = t
        BY <1>1, <2>1 DEF Sample
      <3>3. new \in history' /\ history' \subseteq RouteHistory(t) \cup {new}
        BY <3>1 DEF Kept
      <3>4. RouteHistory(t) \subseteq history /\ IsFiniteSet(RouteHistory(t))
        BY FS_EmptySet DEF RouteHistory, RouteType
      <3>5. IsFiniteSet(history')
        <4>1. IsFiniteSet(RouteHistory(t) \cup {new})
          BY <3>4, FS_AddElement
        <4> QED
          BY <3>3, <4>1, FS_Subset
      <3>6. \A s \in history' : s.token = t
        BY <3>2, <3>3 DEF RouteHistory, RouteInv
      <3>7. lapsed' \in BOOLEAN /\ ~lapsed'
        <4>1. CASE RouteHistory(t) = {}
          BY <3>1, <4>1
        <4>2. CASE RouteHistory(t) # {}
          <5>1. ~lapsed
            BY <2>1, <4>2 DEF RouteInv
          <5> QED
            BY <3>1, <5>1
        <4> QED
          BY <4>1, <4>2
      <3>8. /\ ready' \in BOOLEAN
            /\ ready' => /\ Cardinality(history') >= RouteSamples
                         /\ \E s \in history' : now - s.elapsed >= RouteSpan
        BY <3>1
      <3>9. RouteType'
        BY <1>1, <2>1, <3>1, <3>2, <3>3, <3>4, <3>5, <3>7, <3>8 DEF RouteType
      <3> QED
        BY <1>1, <2>1, <3>1, <3>2, <3>3, <3>6, <3>7, <3>8, <3>9 DEF RouteInv
    <2> QED
      BY <2>2, <2>3
  <1> QED
    BY <1>3, <1>4, <1>5 DEF RouteObserve

(* Time alone changes nothing but whether a route gate has lapsed. *)
LEMMA TimeStep ==
  ASSUME GatesIInv, Tick \/ \E d \in Naps : Sleep(d)
  PROVE  GatesIInv'
  <1> USE Thresholds
  <1>1. PICK k \in Nat : now' = now + k /\ slept' \in {slept, slept + k}
    <2>1. CASE Tick
      BY <2>1 DEF Tick
    <2>2. CASE \E d \in Naps : Sleep(d)
      BY <2>2, GatesAssumption DEF Sleep
    <2> QED
      BY <2>1, <2>2
  <1>d. /\ dozed' \in BOOLEAN
        /\ ~dozed' => ~dozed /\ slept' = slept
    <2>1. CASE Tick
      <3>1. slept' = slept /\ dozed' = dozed
        BY <2>1 DEF Tick, nearby
      <3>2. dozed' \in BOOLEAN
        BY <3>1 DEF GatesIInv, NearbyType
      <3> QED
        BY <3>1, <3>2
    <2>2. CASE \E d \in Naps : Sleep(d)
      <3>1. dozed'
        BY <2>2 DEF Sleep
      <3>2. dozed' \in BOOLEAN
        BY <2>2 DEF Sleep
      <3> QED
        BY <3>1, <3>2
    <2> QED
      BY <2>1, <2>2
  <1>2. UNCHANGED <<anchored, since, samples, last_fix, last_seen, fixes, history, last, ready,
                    seen, gate_token>>
    BY DEF Tick, Sleep, nearby
  <1>3. lapsed' \in BOOLEAN /\ (lapsed' <=> lapsed \/ (ready /\ now' - seen > RouteAge))
    <2>1. lapsed' = Lapses(now')
      BY DEF Tick, Sleep
    <2>2. lapsed \in BOOLEAN /\ ready \in BOOLEAN
      BY DEF GatesIInv, RouteType
    <2>3. Lapses(now') \in BOOLEAN
      BY DEF Lapses
    <2> QED
      BY <2>1, <2>2, <2>3 DEF Lapses
  <1>t. now \in Nat \ {0} /\ slept \in 0..(now - 1)
    BY DEF GatesIInv, ClockType
  <1>4. ClockType'
    BY <1>1, <1>t DEF ClockType
  <1>5. NearbyType'
    <2>1. last_fix' \in 0..now' /\ last_seen' \in 0..(now' - slept')
      <3>1. last_fix' = last_fix /\ last_seen' = last_seen
        BY <1>2
      <3>2. last_fix \in 0..now /\ last_seen \in 0..(now - slept)
        BY DEF GatesIInv, NearbyType
      <3>3. last_fix \in 0..(now + k) /\ last_seen \in 0..(now - slept)
            /\ last_seen \in 0..((now + k) - slept)
        BY <1>t, <3>2
      <3>4. (now + k) - (slept + k) = now - slept
        BY <1>t
      <3> QED
        BY <1>1, <3>1, <3>3, <3>4
    <2>2. /\ anchored' \in BOOLEAN /\ since' \in Nat /\ samples' \in 0..3
          /\ IsFiniteSet(fixes') /\ fixes' \subseteq Nat
      BY <1>2 DEF GatesIInv, NearbyType
    <2> QED
      BY <1>d, <2>1, <2>2 DEF NearbyType
  <1>6. NearbyInv'
    <2>1. /\ samples' <= Cardinality(fixes')
          /\ anchored' => last_fix' \in fixes'
          /\ \A t \in fixes' : t <= last_fix'
      BY <1>2 DEF GatesIInv, NearbyInv
    <2>2. ASSUME anchored', ~dozed' PROVE now' - last_fix' <= Stale + (Steady' - last_seen')
      <3>1. ~dozed /\ slept' = slept /\ anchored
        BY <1>d, <1>2, <2>2
      <3>2. last_fix' = last_fix /\ last_seen' = last_seen
        BY <1>2
      <3>3. now - last_fix <= Stale + ((now - slept) - last_seen)
        BY <3>1 DEF GatesIInv, NearbyInv, Steady
      <3>4. last_fix \in Nat /\ last_seen \in Nat
        BY DEF GatesIInv, ClockType, NearbyType
      <3> QED
        BY <1>1, <1>t, <3>1, <3>2, <3>3, <3>4 DEF Steady
    <2>3. anchored' /\ ~dozed' => now' - last_fix' <= Stale + (Steady - last_seen)'
      BY <2>2 DEF Steady
    <2> QED
      BY <2>1, <2>3 DEF NearbyInv
  <1>7. RouteType'
    <2>1. seen' \in 0..now'
      BY <1>1, <1>2 DEF GatesIInv, ClockType, RouteType
    <2> QED
      BY <1>2, <1>3, <2>1 DEF GatesIInv, RouteType
  <1>8. lapsed' => now' - seen' > RouteAge
    <2>1. CASE lapsed
      BY <1>1, <1>2, <2>1 DEF GatesIInv, ClockType, RouteType, RouteInv
    <2>2. CASE ~lapsed
      BY <1>2, <1>3, <2>2
    <2> QED
      BY <2>1, <2>2
  <1>9. RouteInv'
    <2>1. last.elapsed \in Nat /\ last.at \in Nat
      BY DEF GatesIInv, RouteType, Sample, NoSample
    <2>2. history = {} => ~lapsed'
      BY <1>3 DEF GatesIInv, RouteInv
    <2>3. history # {} => last.elapsed <= now'
      BY <1>1, <2>1 DEF GatesIInv, ClockType, RouteInv
    <2> QED
      BY <1>2, <1>8, <2>2, <2>3 DEF GatesIInv, RouteInv
  <1> QED
    BY <1>4, <1>5, <1>6, <1>7, <1>9 DEF GatesIInv

(* The gates remember what they promise. *)
THEOREM GatesInductive == GatesSpec => []GatesIInv
  <1>1. GatesIInv /\ [GatesNext]_gateVars => GatesIInv'
    <2> SUFFICES ASSUME GatesIInv, [GatesNext]_gateVars PROVE GatesIInv'
      OBVIOUS
    <2>1. ASSUME NEW t \in Tokens \cup {NoToken}, NEW f \in Fix, Update(t, f) PROVE GatesIInv'
      <3>1. NearbyType' /\ NearbyInv'
        BY <2>1, NearbyStep DEF GatesIInv, Update
      <3>2. RouteType' /\ RouteInv'
        BY <2>1, RouteStep DEF GatesIInv, Update
      <3>3. ClockType'
        BY <2>1 DEF GatesIInv, Update, ClockType
      <3> QED
        BY <3>1, <3>2, <3>3 DEF GatesIInv
    <2>2. CASE UNCHANGED gateVars
      BY <2>2
      DEF GatesIInv, ClockType, NearbyType, NearbyInv, RouteType, RouteInv, gateVars, nearby, route,
          Steady
    <2> QED
      BY <2>1, <2>2, TimeStep DEF GatesNext
  <1> QED
    BY <1>1, GatesInitInv, PTL DEF GatesSpec

(* An open nearby gate rests on three different fixes, the last one fresh  *)
(* unless the device slept.                                                *)
THEOREM NearbyCorrect == GatesSpec => []NearbyTrusted
  <1>1. GatesIInv => NearbyTrusted
    <2> SUFFICES ASSUME GatesIInv, NearbyReady
                 PROVE  Cardinality(fixes) >= 3 /\ (dozed \/ now - last_fix <= Stale + Heartbeat)
      BY DEF NearbyTrusted
    <2>1. Cardinality(fixes) \in Nat
      BY FS_CardinalityType DEF GatesIInv, NearbyType
    <2>2. samples >= 3 /\ anchored /\ Steady - last_seen <= Heartbeat
      BY DEF NearbyReady
    <2>3. Cardinality(fixes) >= 3
      BY <2>1, <2>2 DEF GatesIInv, NearbyType, NearbyInv
    <2>4. CASE ~dozed
      BY <2>2, <2>3, <2>4, Thresholds DEF GatesIInv, ClockType, NearbyType, NearbyInv, Steady
    <2> QED
      BY <2>3, <2>4
  <1> QED
    BY <1>1, GatesInductive, PTL

(* An open route gate rests on a long enough trajectory of one lease that  *)
(* was matched a short time ago.                                           *)
THEOREM RouteCorrect == GatesSpec => []RouteTrusted
  <1>1. GatesIInv => RouteTrusted
    <2> SUFFICES ASSUME GatesIInv, RouteReady
                 PROVE  /\ Cardinality(history) >= RouteSamples
                        /\ \E s \in history : last.elapsed - s.elapsed >= RouteSpan
                        /\ \A s \in history : s.token = gate_token
                        /\ now - last.elapsed <= 2 * RouteAge
      BY DEF RouteTrusted
    <2>1. ready /\ now - seen <= RouteAge
      BY DEF RouteReady
    <2>2. last.elapsed \in Nat /\ last.at \in Nat
      BY DEF GatesIInv, RouteType, Sample, NoSample
    <2>3. history # {} /\ seen <= last.at + RouteAge /\ last.at <= last.elapsed
      BY <2>1 DEF GatesIInv, RouteInv
    <2>4. now - last.elapsed <= 2 * RouteAge
      BY <2>1, <2>2, <2>3, Thresholds DEF GatesIInv, ClockType, RouteType
    <2> QED
      BY <2>1, <2>4 DEF GatesIInv, RouteInv
  <1> QED
    BY <1>1, GatesInductive, PTL

(* A route gate that time has closed stays closed within its epoch. *)
THEOREM RouteEpochCorrect == GatesSpec => []RouteUnbroken
  <1>1. GatesIInv => RouteUnbroken
    BY Thresholds DEF GatesIInv, ClockType, RouteType, RouteInv, RouteUnbroken, RouteReady
  <1> QED
    BY <1>1, GatesInductive, PTL

-----------------------------------------------------------------------------
(* The start-up *)

(* What start() patches, and what is looked up by name with the metadata.  *)
DirectFunctions ==
  {"register", "map_update", "flower_model", "rpc_ctor", "logged_in",
   "planting_init", "planting_start", "planting_state", "awake"}

Named ==
  {"action_ctor", "complete", "preparer_ctor", "prepare", "ready", "list",
   "duration", "store_ctor", "wire", "logged_out"}

LEMMA DirectOrder ==
  /\ Len(Direct) = 9
  /\ \A i \in 1..9 : Direct[i] \in DirectFunctions
  /\ \A i, j \in 1..9 : Direct[i] = Direct[j] => i = j
  /\ \A f \in DirectFunctions : \E i \in 1..9 : Direct[i] = f
  BY DEF Direct, DirectFunctions

(* A constructor comes before what else captures the same manager. *)
LEMMA ConstructorsFirst ==
  \A i \in 1..9 :
    /\ Direct[i] = "rpc_ctor" => i < 5 /\ Direct[5] = "logged_in"
    /\ Direct[i] = "planting_init" =>
         i < 7 /\ Direct[7] = "planting_start" /\ Direct[8] = "planting_state"
  BY DEF Direct

LEMMA FunctionsAre == Function = DirectFunctions \cup Named \cup {"reward", "dialog", "speed"}
  <1>1. Elements(Direct) = DirectFunctions
    BY DEF Elements, Direct, DirectFunctions
  <1>2. Elements(Chain) = {"action_ctor", "complete", "preparer_ctor", "prepare", "ready", "list"}
    BY DEF Elements, Chain
  <1> QED
    BY <1>1, <1>2 DEF Function, Optional, Named

LEMMA MetadataNamed == MetadataHooks \subseteq Named
  <1>1. ReturnHooks \subseteq Named
    BY DEF ReturnHooks, Chain, Named
  <1> QED
    BY <1>1 DEF MetadataHooks, DispatchHooks, WireHook, LogoutHook, Named

(* What is still to be done has not been done. *)
Unpatched ==
  /\ \A i \in 1..9 : i >= next => patches[Direct[i]] = 0
  /\ ~metadata => \A f \in Named : patches[f] = 0
  /\ ~logged => patches["dialog"] = 0 /\ patches["speed"] = 0
  /\ worker # "over" => next \in 1..9

(* Only the known library is patched, each function once. *)
Supported ==
  /\ worker = "hook" => compat = "yes" /\ library = "v152"
  /\ worker = "check" => library # "absent"
  /\ \A f \in Function : Patched(f) => patches[f] = 1 /\ compat = "yes" /\ library = "v152"

(* Whoever captured a manager is patched. *)
Capturing ==
  \A m \in Manager : manager[m] \in {"current", "stale"} =>
    \E f \in DOMAIN Captures : Captures[f] = m /\ Patched(f)

StartIInv == StartTypeOK /\ Unpatched /\ Supported /\ Capturing /\ CapturedIsLatest

LEMMA PatchType ==
  ASSUME StartTypeOK, NEW fs, Patch(fs)
  PROVE  /\ patches' \in [Function -> Nat]
         /\ \A f \in Function : f \notin fs => patches'[f] = patches[f]
         /\ \A f \in Function : patches'[f] \in {patches[f], patches[f] + 1}
  BY DEF StartTypeOK, Patch

LEMMA CapturesType ==
  /\ DOMAIN Captures = {"rpc_ctor", "logged_in", "planting_init", "planting_start",
                        "planting_state", "awake", "action_ctor", "preparer_ctor", "store_ctor"}
  /\ \A f \in DOMAIN Captures : Captures[f] \in Manager /\ f \in Function
  /\ Constructors \subseteq DOMAIN Captures
  <1>1. DOMAIN Captures = {"rpc_ctor", "logged_in", "planting_init", "planting_start",
                        "planting_state", "awake", "action_ctor", "preparer_ctor", "store_ctor"}
    BY DEF Captures
  <1> QED
    BY <1>1, FunctionsAre DEF Captures, Manager, Constructors, DirectFunctions, Named

LEMMA StartInitInv == StartInit => StartIInv
  <1> SUFFICES ASSUME StartInit PROVE StartIInv
    OBVIOUS
  <1>1. \A f \in Function : patches[f] = 0
    BY DEF StartInit
  <1>2. StartTypeOK
    <2>1. patches \in [Function -> Nat] /\ manager \in [Manager -> {"absent", "unseen", "current", "stale"}]
      BY DEF StartInit
    <2>2. polls \in 0..MaxPolls /\ next \in 1..(Len(Direct) + 1)
      BY StartupAssumption, DirectOrder DEF StartInit
    <2> QED
      BY <2>1, <2>2 DEF StartInit, StartTypeOK
  <1>3. Unpatched
    BY <1>1, DirectOrder, FunctionsAre DEF StartInit, Unpatched
  <1>4. Supported
    BY <1>1 DEF StartInit, Supported, Patched
  <1>5. Capturing /\ CapturedIsLatest
    BY CapturesType DEF StartInit, Capturing, CapturedIsLatest
  <1> QED
    BY <1>2, <1>3, <1>4, <1>5 DEF StartIInv

(* The worker until it patches, and the game that loads *)
LEMMA QuietInv ==
  ASSUME StartIInv, UNCHANGED <<next, patches, metadata, logged, manager>>,
         (\E game \in BOOLEAN : Specialize(game)) \/ Open \/ Check \/ MapLibrary \/ DomainUsable
           \/ UNCHANGED startVars
  PROVE  StartIInv'
  <1> USE DEF StartIInv
  <1>1. StartTypeOK'
    <2>1. CASE \E game \in BOOLEAN : Specialize(game)
      BY <2>1 DEF StartTypeOK, Specialize, startEnv
    <2>2. CASE Open
      <3>1. polls' \in 0..MaxPolls
        BY <2>2, StartupAssumption DEF StartTypeOK, Open
      <3> QED
        BY <2>2, <3>1 DEF StartTypeOK, Open, startEnv
    <2>3. CASE Check
      BY <2>3 DEF StartTypeOK, Check, startEnv
    <2>4. CASE MapLibrary
      BY <2>4 DEF StartTypeOK, MapLibrary
    <2>5. CASE DomainUsable
      BY <2>5 DEF StartTypeOK, DomainUsable
    <2>6. CASE UNCHANGED startVars
      BY <2>6 DEF StartTypeOK, startVars, startEnv
    <2> QED
      BY <2>1, <2>2, <2>3, <2>4, <2>5, <2>6
  <1>2. worker' # "over" => worker # "over"
    BY DEF Specialize, Open, Check, MapLibrary, DomainUsable, startVars
  <1>3. Unpatched'
    BY <1>2 DEF Unpatched
  <1>4. Supported'
    BY DEF Supported, Patched, StartTypeOK, Specialize, Open, Check, MapLibrary, DomainUsable,
       startVars, memory, startEnv
  <1>5. Capturing' /\ CapturedIsLatest'
    BY DEF Capturing, CapturedIsLatest, Patched
  <1> QED
    BY <1>1, <1>3, <1>4, <1>5

(* Patching what was not yet patched *)
LEMMA PatchSupported ==
  ASSUME StartIInv, UNCHANGED <<compat, library>>, NEW fs, Patch(fs),
         \A f \in fs : patches[f] = 0 /\ compat = "yes" /\ library = "v152"
  PROVE  /\ \A f \in Function : Patched(f)' => patches'[f] = 1 /\ compat' = "yes" /\ library' = "v152"
         /\ \A f \in Function : Patched(f) => Patched(f)'
         /\ \A f \in Function : Patched(f)' /\ ~Patched(f) => f \in fs
  <1> USE DEF StartIInv, StartTypeOK
  <1> SUFFICES ASSUME NEW f \in Function
               PROVE  /\ Patched(f)' => patches'[f] = 1 /\ compat' = "yes" /\ library' = "v152"
                      /\ Patched(f) => Patched(f)'
                      /\ Patched(f)' /\ ~Patched(f) => f \in fs
    OBVIOUS
  <1>1. CASE f \notin fs
    BY <1>1, PatchType DEF Supported, Patched
  <1>2. CASE f \in fs
    BY <1>2, PatchType DEF Supported, Patched
  <1> QED
    BY <1>1, <1>2

(* Managers that were not captured stay that way, and the others stay the  *)
(* latest, when only constructors of the former are patched.               *)
LEMMA PatchCaptures ==
  ASSUME StartIInv, UNCHANGED manager, NEW fs, Patch(fs),
         \A f \in fs \cap Constructors : manager[Captures[f]] # "stale"
  PROVE  Capturing' /\ CapturedIsLatest'
  <1> USE DEF StartIInv, StartTypeOK
  <1>1. \A f \in Function : Patched(f) => Patched(f)'
    BY PatchType DEF Patched
  <1>2. Capturing'
    BY <1>1, CapturesType DEF Capturing
  <1>3. \A f \in Function : Patched(f)' /\ f \notin fs => Patched(f)
    BY PatchType DEF Patched
  <1>4. CapturedIsLatest'
    BY <1>3, CapturesType DEF CapturedIsLatest
  <1> QED
    BY <1>2, <1>4

LEMMA InstallInv == ASSUME StartIInv, InstallHook PROVE StartIInv'
  <1> USE DEF StartIInv
  <1> DEFINE f == Direct[next]
  <1>1. /\ worker = "hook" /\ next \in 1..9 /\ next' = next + 1 /\ Patch({f})
        /\ worker' = IF next = 9 THEN "over" ELSE "hook"
        /\ UNCHANGED <<polls, compat, metadata, logged, manager, library, domain, build, failing>>
    BY DirectOrder DEF InstallHook, Unpatched, startEnv
  <1>2. f \in DirectFunctions /\ f \in Function /\ patches[f] = 0
    BY <1>1, DirectOrder, FunctionsAre DEF Unpatched
  <1> HIDE DEF f
  <1>3. StartTypeOK'
    BY <1>1, PatchType, DirectOrder DEF StartTypeOK
  <1>4. Unpatched'
    <2>1. \A i \in 1..9 : i >= next + 1 => Direct[i] # f /\ Direct[i] \in Function
      BY <1>1, DirectOrder, FunctionsAre DEF f
    <2>2. f \notin Named /\ f # "dialog" /\ f # "speed"
      BY <1>2 DEF DirectFunctions, Named
    <2>3. \A g \in Function : g # f => patches'[g] = patches[g]
      BY <1>1, PatchType
    <2>4. \A i \in 1..9 : i >= next' => patches'[Direct[i]] = 0
      BY <1>1, <2>1, <2>3 DEF Unpatched
    <2>5. (~metadata' => \A g \in Named : patches'[g] = 0)
          /\ (~logged' => patches'["dialog"] = 0 /\ patches'["speed"] = 0)
      BY <1>1, <2>2, <2>3, FunctionsAre DEF Unpatched
    <2>6. worker' # "over" => next' \in 1..9
      BY <1>1
    <2> QED
      BY <2>4, <2>5, <2>6 DEF Unpatched
  <1>5. Supported'
    <2>1. compat = "yes" /\ library = "v152"
      BY <1>1 DEF Supported
    <2>2. \A g \in Function : Patched(g)' => patches'[g] = 1 /\ compat' = "yes" /\ library' = "v152"
      BY <1>1, <1>2, <2>1, PatchSupported
    <2> QED
      BY <1>1, <2>1, <2>2 DEF Supported
  <1>6. f \in Constructors => manager[Captures[f]] # "stale"
    <2> SUFFICES ASSUME f \in Constructors, manager[Captures[f]] = "stale" PROVE FALSE
      OBVIOUS
    <2>1. PICK g \in DOMAIN Captures : Captures[g] = Captures[f] /\ Patched(g)
      BY CapturesType DEF Capturing
    <2>2. \A i \in 1..9 : i >= next => g # Direct[i]
      BY <2>1 DEF Unpatched, Patched
    <2>3. CASE f = "rpc_ctor"
      <3>1. g \in {"rpc_ctor", "logged_in"}
        BY <2>1, <2>3, CapturesType DEF Captures
      <3>2. next < 5 /\ Direct[5] = "logged_in"
        BY <1>1, <2>3, ConstructorsFirst DEF f
      <3> QED
        BY <1>1, <2>2, <2>3, <3>1, <3>2 DEF f
    <2>4. CASE f = "planting_init"
      <3>1. g \in {"planting_init", "planting_start", "planting_state"}
        BY <2>1, <2>4, CapturesType DEF Captures
      <3>2. next < 7 /\ Direct[7] = "planting_start" /\ Direct[8] = "planting_state"
        BY <1>1, <2>4, ConstructorsFirst DEF f
      <3> QED
        BY <1>1, <2>2, <2>4, <3>1, <3>2 DEF f
    <2>5. CASE f = "awake"
      <3>1. g = "awake"
        BY <2>1, <2>5, CapturesType DEF Captures
      <3> QED
        BY <1>1, <2>2, <2>5, <3>1 DEF f
    <2> QED
      BY <1>2, <2>3, <2>4, <2>5 DEF Constructors, DirectFunctions
  <1>7. Capturing' /\ CapturedIsLatest'
    BY <1>1, <1>6, PatchCaptures
  <1> QED
    BY <1>3, <1>4, <1>5, <1>7

(* initialize_runtime_metadata(), in a patched function, after manager was *)
(* changed by it or not                                                     *)
LEMMA MetadataInv ==
  ASSUME StartIInv, \E f \in Function : Patched(f),
         metadata' = (metadata \/ Due), Patch(IF Due THEN MetadataHooks ELSE {}),
         UNCHANGED <<worker, polls, next, compat, logged, startEnv>>
  PROVE  /\ UNCHANGED manager => StartIInv'
         /\ manager' = [manager EXCEPT !["rpc"] = "current"] /\ Patched("logged_in") => StartIInv'
  <1> USE DEF StartIInv
  <1> DEFINE fs == IF Due THEN MetadataHooks ELSE {}
  <1>1. Patch(fs) /\ UNCHANGED <<library, domain, build, failing>>
    BY DEF startEnv
  <1>2. \A f \in fs : f \in Named /\ f \in Function /\ patches[f] = 0
    BY MetadataNamed, FunctionsAre DEF Due, Unpatched
  <1>3. compat = "yes" /\ library = "v152"
    BY DEF Supported
  <1>4. Due => metadata'
    OBVIOUS
  <1> HIDE DEF fs
  <1>5. /\ \A f \in Function : Patched(f)' => patches'[f] = 1 /\ compat' = "yes" /\ library' = "v152"
        /\ \A f \in Function : Patched(f) => Patched(f)'
        /\ \A f \in Function : Patched(f)' /\ ~Patched(f) => f \in fs
    BY <1>1, <1>2, <1>3, PatchSupported
  <1>6. Supported'
    BY <1>1, <1>5 DEF Supported
  <1>7. Unpatched'
    <2>1. \A f \in Function : f \notin fs => patches'[f] = patches[f]
      BY <1>1, PatchType
    <2>2. DirectFunctions \cap fs = {} /\ "dialog" \notin fs /\ "speed" \notin fs
      BY <1>2 DEF DirectFunctions, Named
    <2>3. \A i \in 1..9 : i >= next' => patches'[Direct[i]] = 0
      BY <2>1, <2>2, DirectOrder, FunctionsAre DEF Unpatched
    <2>4. ~logged' => patches'["dialog"] = 0 /\ patches'["speed"] = 0
      BY <2>1, <2>2, FunctionsAre DEF Unpatched
    <2>5. ~metadata' => \A f \in Named : patches'[f] = 0
      <3> SUFFICES ASSUME ~metadata' PROVE \A f \in Named : patches'[f] = 0
        OBVIOUS
      <3>1. ~metadata /\ ~Due
        OBVIOUS
      <3>2. fs = {}
        BY <3>1 DEF fs
      <3> QED
        BY <2>1, <3>1, <3>2, FunctionsAre DEF Unpatched
    <2> QED
      BY <2>3, <2>4, <2>5 DEF Unpatched
  <1>8. metadata' \in BOOLEAN
    BY DEF StartTypeOK, Due
  <1>9. \A f \in fs \cap Constructors : manager[Captures[f]] \notin {"current", "stale"}
    <2> SUFFICES ASSUME NEW f \in fs, f \in Constructors, manager[Captures[f]] \in {"current", "stale"}
                 PROVE  FALSE
      OBVIOUS
    <2>1. PICK g \in DOMAIN Captures : Captures[g] = Captures[f] /\ Patched(g)
      BY CapturesType DEF Capturing
    <2>2. f \in {"action_ctor", "preparer_ctor", "store_ctor"}
      BY <1>2 DEF Constructors, Named
    <2>3. g = f
      BY <2>1, <2>2, CapturesType DEF Captures
    <2> QED
      BY <1>2, <2>1, <2>3 DEF Patched
  <1>10. UNCHANGED manager => StartIInv'
    <2> SUFFICES ASSUME UNCHANGED manager PROVE StartIInv'
      OBVIOUS
    <2>1. Capturing' /\ CapturedIsLatest'
      BY <1>1, <1>9, PatchCaptures
    <2>2. StartTypeOK'
      BY <1>1, <1>8, PatchType DEF StartTypeOK
    <2> QED
      BY <1>6, <1>7, <2>1, <2>2
  <1>11. manager' = [manager EXCEPT !["rpc"] = "current"] /\ Patched("logged_in") => StartIInv'
    <2> SUFFICES ASSUME manager' = [manager EXCEPT !["rpc"] = "current"], Patched("logged_in")
                 PROVE  StartIInv'
      OBVIOUS
    <2>1. StartTypeOK'
      BY <1>1, <1>8, PatchType DEF StartTypeOK
    <2>2. /\ manager'["rpc"] = "current"
          /\ \A m \in Manager : m # "rpc" => manager'[m] = manager[m]
      BY DEF StartTypeOK, Manager
    <2>3. Capturing'
      <3> SUFFICES ASSUME NEW m \in Manager, manager'[m] \in {"current", "stale"}
                   PROVE  \E f \in DOMAIN Captures : Captures[f] = m /\ Patched(f)'
        BY DEF Capturing
      <3>1. CASE m = "rpc"
        BY <1>5, <3>1, CapturesType DEF Captures
      <3>2. CASE m # "rpc"
        BY <1>5, <2>2, <3>2, CapturesType DEF Capturing
      <3> QED
        BY <3>1, <3>2
    <2>4. CapturedIsLatest'
      <3> SUFFICES ASSUME NEW f \in Constructors, Patched(f)' PROVE manager'[Captures[f]] # "stale"
        BY DEF CapturedIsLatest
      <3>1. manager'[Captures[f]] = manager[Captures[f]] \/ manager'[Captures[f]] = "current"
        BY <2>2, CapturesType
      <3>2. manager[Captures[f]] # "stale"
        BY <1>5, <1>9, CapturesType DEF CapturedIsLatest
      <3> QED
        BY <3>1, <3>2
    <2> QED
      BY <1>6, <1>7, <2>1, <2>3, <2>4
  <1> QED
    BY <1>10, <1>11

(* What becomes of the manager of f when the game makes another one, or    *)
(* another patched function sees it                                        *)
LEMMA ManagerInv ==
  ASSUME StartIInv, NEW f \in DOMAIN Captures, NEW v,
         manager' = [manager EXCEPT ![Captures[f]] = v],
         \/ v = "current" /\ Patched(f)
         \/ v = "unseen"
         \/ v = "stale" /\ manager[Captures[f]] \in {"current", "stale"}
              /\ \A g \in Constructors : Captures[g] = Captures[f] => ~Patched(g)
  PROVE  /\ manager' \in [Manager -> {"absent", "unseen", "current", "stale"}]
         /\ UNCHANGED patches => Capturing' /\ CapturedIsLatest'
  <1> USE DEF StartIInv
  <1> DEFINE c == Captures[f]
  <1>1. c \in Manager
    BY CapturesType
  <1>2. v \in {"unseen", "current", "stale"}
    OBVIOUS
  <1>3. manager' \in [Manager -> {"absent", "unseen", "current", "stale"}]
    BY <1>1, <1>2 DEF StartTypeOK
  <1>4. manager'[c] = v /\ \A m \in Manager : m # c => manager'[m] = manager[m]
    BY <1>1 DEF StartTypeOK
  <1>5. ASSUME UNCHANGED patches PROVE Capturing' /\ CapturedIsLatest'
    <2>1. ASSUME NEW m \in Manager, manager'[m] \in {"current", "stale"}
          PROVE  \E g \in DOMAIN Captures : Captures[g] = m /\ Patched(g)
      BY <1>4, <2>1 DEF Capturing
    <2>2. ASSUME NEW g \in Constructors, Patched(g) PROVE manager'[Captures[g]] # "stale"
      BY <1>4, <2>2, CapturesType DEF CapturedIsLatest
    <2> QED
      BY <1>5, <2>1, <2>2 DEF Capturing, CapturedIsLatest, Patched
  <1> QED
    BY <1>3, <1>5

(* No other constructor makes the same manager. *)
LEMMA OneConstructor == \A f, g \in Constructors : Captures[f] = Captures[g] => f = g
  BY DEF Constructors, Captures

LEMMA MadeIs ==
  ASSUME StartIInv, NEW f \in Constructors, Made(f)
  PROVE  \E v : /\ manager' = [manager EXCEPT ![Captures[f]] = v]
               /\ \/ v = "current" /\ Patched(f)
                  \/ v = "unseen"
                  \/ v = "stale" /\ manager[Captures[f]] \in {"current", "stale"}
                       /\ \A g \in Constructors : Captures[g] = Captures[f] => ~Patched(g)
  <1>1. manager[Captures[f]] \in {"absent", "unseen", "current", "stale"}
    BY CapturesType DEF StartIInv, StartTypeOK
  <1>2. CASE Patched(f)
    BY <1>2 DEF Made
  <1>3. CASE ~Patched(f)
    <2>1. \A g \in Constructors : Captures[g] = Captures[f] => ~Patched(g)
      BY <1>3, OneConstructor
    <2>2. CASE manager[Captures[f]] \in {"absent", "unseen"}
      BY <1>3, <2>2 DEF Made
    <2>3. CASE manager[Captures[f]] \in {"current", "stale"}
      BY <1>3, <2>1, <2>3 DEF Made
    <2> QED
      BY <1>1, <2>2, <2>3
  <1> QED
    BY <1>2, <1>3

LEMMA ConstructInv ==
  ASSUME StartIInv,
         (\E f \in Constructors : Construct(f))
           \/ \E f \in {"planting_start", "planting_state"} : PlantingSeen(f)
  PROVE  StartIInv'
  <1> USE DEF StartIInv
  <1>1. UNCHANGED <<worker, polls, next, compat, patches, metadata, logged, library, domain, build, failing>>
    BY DEF Construct, PlantingSeen, startEnv
  <1>2. Unpatched' /\ Supported'
    BY <1>1 DEF Unpatched, Supported, Patched
  <1>3. manager' \in [Manager -> {"absent", "unseen", "current", "stale"}] /\ Capturing' /\ CapturedIsLatest'
    <2>1. ASSUME NEW f \in Constructors, Construct(f)
          PROVE  manager' \in [Manager -> {"absent", "unseen", "current", "stale"}]
                 /\ Capturing' /\ CapturedIsLatest'
      <3>1. Made(f) /\ f \in DOMAIN Captures
        BY <2>1, CapturesType DEF Construct
      <3> QED
        BY <1>1, <3>1, MadeIs, ManagerInv
    <2>2. ASSUME NEW f \in {"planting_start", "planting_state"}, PlantingSeen(f)
          PROVE  manager' \in [Manager -> {"absent", "unseen", "current", "stale"}]
                 /\ Capturing' /\ CapturedIsLatest'
      <3>1. f \in DOMAIN Captures /\ Captures[f] = "planting"
        BY CapturesType DEF Captures
      <3>2. manager' = [manager EXCEPT ![Captures[f]] = "current"] /\ Patched(f)
        BY <2>2, <3>1 DEF PlantingSeen
      <3> QED
        BY <1>1, <3>1, <3>2, ManagerInv
    <2> QED
      BY <2>1, <2>2
  <1>4. StartTypeOK'
    BY <1>1, <1>3 DEF StartTypeOK
  <1> QED
    BY <1>2, <1>3, <1>4

LEMMA PlantingInv == ASSUME StartIInv, PlantingInit PROVE StartIInv'
  <1> USE DEF StartIInv
  <1> DEFINE fs == IF Patched("planting_init") THEN RewardHook \cup DialogHooks ELSE {}
  <1>1. /\ Patch(fs) /\ Made("planting_init") /\ logged' = (logged \/ Patched("planting_init"))
        /\ UNCHANGED <<worker, polls, next, compat, metadata, library, domain, build, failing>>
    BY DEF PlantingInit, startEnv
  <1>2. "planting_init" \in Function /\ "reward" \in Function
    BY FunctionsAre DEF DirectFunctions
  <1>3. patches["reward"] = 0 \/ Patched("reward")
    BY <1>2 DEF StartTypeOK, Patched
  <1>4. \A f \in fs : f \in {"reward", "dialog", "speed"} /\ patches[f] = 0
                    /\ compat = "yes" /\ library = "v152"
    <2>1. CASE Patched("planting_init")
      <3>1. compat = "yes" /\ library = "v152"
        BY <1>2, <2>1 DEF Supported
      <3>2. \A f \in RewardHook : f = "reward" /\ patches[f] = 0
        BY <1>3 DEF RewardHook, Nameable
      <3>3. \A f \in DialogHooks : f \in {"dialog", "speed"} /\ patches[f] = 0
        BY DEF DialogHooks, Nameable, Unpatched
      <3> QED
        BY <3>1, <3>2, <3>3
    <2>2. CASE ~Patched("planting_init")
      BY <2>2
    <2> QED
      BY <2>1, <2>2
  <1>5. fs # {} => logged'
    BY <1>1
  <1>6. logged' \in BOOLEAN
    BY <1>1 DEF StartTypeOK, Patched
  <1> HIDE DEF fs
  <1>7. /\ \A f \in Function : Patched(f)' => patches'[f] = 1 /\ compat' = "yes" /\ library' = "v152"
        /\ \A f \in Function : Patched(f) => Patched(f)'
        /\ \A f \in Function : Patched(f)' /\ ~Patched(f) => f \in fs
    BY <1>1, <1>4, PatchSupported
  <1>8. Supported'
    BY <1>1, <1>7 DEF Supported
  <1>9. Unpatched'
    <2>1. \A f \in Function : f \notin fs => patches'[f] = patches[f]
      BY <1>1, PatchType
    <2>2. \A f \in DirectFunctions \cup Named : f \notin fs
      BY <1>4 DEF DirectFunctions, Named
    <2>3. \A i \in 1..9 : i >= next' => patches'[Direct[i]] = 0
      BY <1>1, <2>1, <2>2, DirectOrder, FunctionsAre DEF Unpatched
    <2>4. ~metadata' => \A f \in Named : patches'[f] = 0
      BY <1>1, <2>1, <2>2, FunctionsAre DEF Unpatched
    <2>5. ~logged' => patches'["dialog"] = 0 /\ patches'["speed"] = 0
      <3> SUFFICES ASSUME ~logged' PROVE patches'["dialog"] = 0 /\ patches'["speed"] = 0
        OBVIOUS
      <3>1. fs = {} /\ ~logged
        BY <1>1, <1>5
      <3> QED
        BY <2>1, <3>1, FunctionsAre DEF Unpatched
    <2> QED
      BY <1>1, <2>3, <2>4, <2>5 DEF Unpatched
  <1>10. "planting_init" \in Constructors /\ "planting_init" \in DOMAIN Captures
    BY CapturesType DEF Constructors
  <1>11. PICK v : /\ manager' = [manager EXCEPT ![Captures["planting_init"]] = v]
               /\ \/ v = "current" /\ Patched("planting_init")
                  \/ v = "unseen"
                  \/ v = "stale" /\ manager[Captures["planting_init"]] \in {"current", "stale"}
                       /\ \A g \in Constructors : Captures[g] = Captures["planting_init"] => ~Patched(g)
    BY <1>1, <1>10, MadeIs
  <1>12. manager' \in [Manager -> {"absent", "unseen", "current", "stale"}]
    BY <1>10, <1>11, ManagerInv
  <1>13. /\ \A m \in Manager : m # Captures["planting_init"] => manager'[m] = manager[m]
         /\ manager'[Captures["planting_init"]] = v
    BY <1>10, <1>11, CapturesType DEF StartTypeOK
  <1>14. Capturing'
    <2> SUFFICES ASSUME NEW m \in Manager, manager'[m] \in {"current", "stale"}
                 PROVE  \E f \in DOMAIN Captures : Captures[f] = m /\ Patched(f)'
      BY DEF Capturing
    <2>1. \E f \in DOMAIN Captures : Captures[f] = m /\ Patched(f)
      BY <1>10, <1>11, <1>13 DEF Capturing
    <2> QED
      BY <1>7, <2>1, CapturesType
  <1>15. CapturedIsLatest'
    <2> SUFFICES ASSUME NEW f \in Constructors, Patched(f)' PROVE manager'[Captures[f]] # "stale"
      BY DEF CapturedIsLatest
    <2>1. Patched(f)
      BY <1>4, <1>7, CapturesType DEF Constructors
    <2> QED
      BY <1>11, <1>13, <2>1, CapturesType DEF CapturedIsLatest
  <1>16. StartTypeOK'
    BY <1>1, <1>6, <1>12, PatchType DEF StartTypeOK
  <1> QED
    BY <1>8, <1>9, <1>14, <1>15, <1>16

LEMMA StartStep == StartIInv /\ [StartNext]_startVars => StartIInv'
  <1> SUFFICES ASSUME StartIInv, [StartNext]_startVars PROVE StartIInv'
    OBVIOUS
  <1>1. CASE (\E game \in BOOLEAN : Specialize(game)) \/ Open \/ Check \/ MapLibrary \/ DomainUsable
               \/ UNCHANGED startVars
    <2>1. UNCHANGED <<next, patches, metadata, logged, manager>>
      BY <1>1 DEF Specialize, Open, Check, MapLibrary, DomainUsable, startVars, memory
    <2> QED
      BY <1>1, <2>1, QuietInv
  <1>2. CASE Register
    <2>1. "register" \in Function
      BY FunctionsAre DEF DirectFunctions
    <2> QED
      BY <1>2, <2>1, MetadataInv DEF Register
  <1>3. CASE LoggedIn
    <2>1. "logged_in" \in Function
      BY FunctionsAre DEF DirectFunctions
    <2> QED
      BY <1>3, <2>1, MetadataInv DEF LoggedIn
  <1> QED
    BY <1>1, <1>2, <1>3, InstallInv, ConstructInv, PlantingInv DEF StartNext

(* What was patched is patched once, what is to be patched is untouched,   *)
(* and the captured managers are the latest.                               *)
THEOREM StartInductive == StartSpec => []StartIInv
  BY StartInitInv, StartStep, PTL DEF StartSpec

(* start() and initialize_runtime_metadata() patch a function at most once, *)
(* and only in the library whose size the module knows.                     *)
THEOREM PatchedCorrect == StartSpec => []PatchedSafely
  <1>1. StartIInv => PatchedSafely
    BY DEF StartIInv, Supported, PatchedSafely
  <1> QED
    BY <1>1, StartInductive, PTL

(* The engines use the latest manager, in whatever order hooks are         *)
(* installed, metadata is found and the game makes managers.               *)
THEOREM LatestCorrect == StartSpec => []CapturedIsLatest
  <1>1. StartIInv => CapturedIsLatest
    BY DEF StartIInv
  <1> QED
    BY <1>1, StartInductive, PTL

-----------------------------------------------------------------------------
(* Side by side *)

LEMMA Components == Spec => GatesSpec /\ LeaseSpec /\ StartSpec
  <1>1. Init => GatesInit /\ LeaseInit /\ StartInit
    BY DEF Init
  <1>2. [Next]_vars => [GatesNext]_gateVars /\ [LeaseNext]_leaseVars /\ [StartNext]_startVars
    BY DEF Next, vars
  <1> QED
    BY <1>1, <1>2, PTL DEF Spec, GatesSpec, LeaseSpec, StartSpec

(* The memory of the gates, of the identity and of the start-up keeps its  *)
(* shape.                                                                  *)
THEOREM TypeCorrect == Spec => []TypeOK
  <1>1. GatesIInv => GatesTypeOK
    BY DEF GatesIInv, ClockType, NearbyType, RouteType, GatesTypeOK
  <1>2. LeaseIInv => LeaseTypeOK
    BY DEF LeaseIInv
  <1>3. StartIInv => StartTypeOK
    BY DEF StartIInv
  <1>4. GatesTypeOK /\ LeaseTypeOK /\ StartTypeOK => TypeOK
    BY DEF TypeOK
  <1> QED
    BY <1>1, <1>2, <1>3, <1>4, Components, GatesInductive, LeaseInductive, StartInductive, PTL
=============================================================================
