------------------------ MODULE PlantingControl_proofs ------------------------
(***************************************************************************)
(* What planting control guarantees, for any set of leases and any content *)
(* of the planting mode file.                                              *)
(***************************************************************************)
EXTENDS PlantingControl, TLAPS

USE PlantingAssumption

(* A lease is never the absence of one. *)
LEMMA NoLeaseIsNone == NoLease \notin Lease
  BY DEF Lease, NoLease

IInv == TypeOK /\ SettledOver

LEMMA InitIInv == Init => IInv
  <1> SUFFICES ASSUME Init PROVE IInv
    OBVIOUS
  <1>1. /\ ~captured /\ ~owned /\ ~asked /\ ~start_attempted /\ ~stop_attempted /\ ~session_owned
        /\ ~stop_started /\ ~auto_close /\ ~fresh /\ ~due /\ ~overlay /\ ~starting /\ ~stopping
        /\ ~dialog /\ ~recent
    BY DEF Init, Fresh
  <1>2. /\ {captured, owned, asked, start_attempted, stop_attempted, session_owned} \subseteq BOOLEAN
        /\ {stop_started, auto_close, fresh, due, overlay, starting, stopping} \subseteq BOOLEAN
        /\ {dialog, recent} \subseteq BOOLEAN
    BY DEF Init, Fresh
  <1>3. /\ last_mode = "none" /\ stop_token = NoToken /\ close_task = "none" /\ result = "none"
        /\ screen = "none" /\ clicks = 0 /\ session = "none" /\ lease = NoLease
    BY DEF Init, Fresh
  <1> QED
    BY <1>1, <1>2, <1>3 DEF IInv, TypeOK, SettledOver, Settled

LEMMA TakesOver == ASSUME TypeOK, Takeover PROVE lease \in Lease /\ lease.token \in Token
  BY DEF TypeOK, Takeover, Lease, NoLease

(* The Task that closes a dialog is new only if a request to close is met. *)
LEMMA CloseTasksType ==
  ASSUME TypeOK, NEW c \in CloseTasks
  PROVE  /\ c \in {"none", "running", "done", "faulted"}
         /\ c = close_task \/ Dismissed
  BY DEF TypeOK, CloseTasks

LEMMA ModeType == ASSUME NEW wish \in Wishes PROVE Mode(wish) \in {"on", "off", "observe"}
  BY DEF Mode

(* The part that every call has in common. *)
LEMMA ManageType ==
  ASSUME TypeOK, NEW wish \in Wishes, Manage(wish)
  PROVE  /\ session_owned' \in BOOLEAN
         /\ last_mode' \in {"none", "on", "off", "observe"}
         /\ stop_token' \in Token \cup {NoToken}
         /\ lease' = lease /\ captured' = captured /\ dialog' = dialog
         /\ overlay' = overlay /\ screen' = screen /\ clicks' = clicks
         /\ session' = session /\ result' = result
  <1>1. Mode(wish) \in {"none", "on", "off", "observe"}
    BY ModeType
  <1>2. Renewed => lease.token \in Token
    BY TakesOver DEF Renewed
  <1>3. session_owned' = (SessionOwned /\ ~HandedBack)
    BY DEF Manage
  <1>4. session_owned' \in BOOLEAN
    BY <1>3
  <1> QED
    BY <1>1, <1>2, <1>4 DEF Manage, TypeOK

LEMMA IdleIInv ==
  ASSUME IInv, NEW wish \in Wishes, ManageIdle(wish)
  PROVE  IInv'
  <1>1. TypeOK /\ Manage(wish)
    BY DEF IInv, ManageIdle
  <1>2. /\ close_task' \in {"none", "running", "done", "faulted"}
        /\ close_task' = close_task \/ Dismissed \/ close_task' = "none"
    BY <1>1, CloseTasksType DEF ManageIdle
  <1>3. /\ owned' \in BOOLEAN /\ start_attempted' \in BOOLEAN /\ stop_attempted' \in BOOLEAN
        /\ stop_started' \in BOOLEAN /\ auto_close' \in BOOLEAN
    BY <1>1 DEF ManageIdle, TypeOK, StartAttempted, StopAttempted, StopStarted, AutoClose
  <1>4. owned' => asked'
    BY <1>1 DEF ManageIdle, TypeOK
  <1>5. TypeOK'
    BY <1>1, <1>2, <1>3, <1>4, ManageType DEF ManageIdle, TypeOK
  <1>6. SettledOver'
    BY <1>1, <1>2, ManageType
    DEF IInv, ManageIdle, SettledOver, Settled, AutoClose, Dismissed, StopStarted, TypeOK
  <1> QED
    BY <1>5, <1>6 DEF IInv

LEMMA StartIInv ==
  ASSUME IInv, NEW wish \in Wishes, StartFails(wish) \/ Start(wish)
  PROVE  IInv'
  <1>1. /\ TypeOK /\ Manage(wish) /\ close_task' \in CloseTasks /\ auto_close' = AutoClose
        /\ stop_attempted' = StopAttempted(wish) /\ start_attempted' \in BOOLEAN
    BY DEF IInv, StartFails, Start
  <1>2. /\ owned' \in BOOLEAN /\ asked' \in BOOLEAN /\ starting' \in BOOLEAN
        /\ owned' => asked'
    <2>1. CASE StartFails(wish)
      BY <2>1 DEF IInv, TypeOK, StartFails
    <2>2. CASE Start(wish)
      <3>1. starting' \in BOOLEAN
        <4>1. starting' = starting \/ starting' = TRUE
          BY <2>2, Zenon DEF Start
        <4>2. starting \in BOOLEAN
          BY DEF IInv, TypeOK
        <4> QED
          BY <4>1, <4>2, Zenon
      <3>2. owned' \in BOOLEAN /\ asked' \in BOOLEAN /\ asked'
        BY <2>2, Zenon DEF Start
      <3> QED
        BY <3>1, <3>2
    <2> QED
      BY <2>1, <2>2
  <1>3. UNCHANGED <<stop_started, fresh, due, recent, stopping>>
    BY DEF StartFails, Start
  <1>4. /\ close_task' \in {"none", "running", "done", "faulted"}
        /\ close_task' = close_task \/ Dismissed
    BY <1>1, CloseTasksType
  <1>5. stop_attempted' \in BOOLEAN /\ auto_close' \in BOOLEAN
    BY <1>1 DEF TypeOK, StopAttempted, AutoClose
  <1>6. TypeOK'
    BY <1>1, <1>2, <1>3, <1>4, <1>5, ManageType DEF TypeOK
  <1>7. UNCHANGED <<session, result>>
    BY <1>1, ManageType
  <1>8. SettledOver'
    <2>1. CASE Dismissed
      BY <2>1, <1>1, <1>3, <1>7 DEF IInv, SettledOver, Settled, AutoClose, Dismissed
    <2>2. CASE ~Dismissed
      <3>1. close_task' = close_task /\ (auto_close' <=> auto_close)
        BY <2>2, <1>1, <1>4 DEF AutoClose
      <3> QED
        BY <3>1, <1>3, <1>7 DEF IInv, SettledOver, Settled
    <2> QED
      BY <2>1, <2>2
  <1> QED
    BY <1>6, <1>8 DEF IInv

LEMMA StopIInv ==
  ASSUME IInv, NEW wish \in Wishes, Stop(wish)
  PROVE  IInv'
  <1>1. TypeOK /\ Manage(wish)
    BY DEF IInv, Stop
  <1>2. close_task' \in {"none", "running", "done", "faulted"}
    BY <1>1, CloseTasksType DEF Stop
  <1>3. start_attempted' \in BOOLEAN /\ stop_started' \in BOOLEAN /\ stopping' \in BOOLEAN
    BY <1>1 DEF Stop, TypeOK, StartAttempted
  <1>4. {stop_attempted', auto_close', fresh', due', recent'} \subseteq BOOLEAN
    BY DEF Stop
  <1>5. UNCHANGED <<owned, asked, starting>>
    BY DEF Stop
  <1>6. TypeOK'
    BY <1>1, <1>2, <1>3, <1>4, <1>5, ManageType DEF TypeOK
  <1>7. ~fresh' /\ auto_close' /\ UNCHANGED <<session, result>>
    BY <1>1, ManageType DEF Stop
  <1> QED
    BY <1>6, <1>7 DEF IInv, SettledOver, Settled

LEMMA RewardIInv ==
  ASSUME IInv, NEW all \in BOOLEAN, RewardStart(all) \/ RewardCollect(all) \/ RewardForget
  PROVE  IInv'
  <1>1. TypeOK' 
    <2>1. CASE RewardStart(all)
      <3>1. overlay' \in BOOLEAN /\ screen' \in {"flower", "other"} /\ clicks' = 0
        BY <2>1 DEF IInv, TypeOK, RewardStart, Authorized
      <3>2. UNCHANGED <<lease, captured, control, closing, recent, game>>
        BY <2>1 DEF RewardStart
      <3> QED
        BY <3>1, <3>2 DEF IInv, TypeOK, control, closing, game
    <2>2. CASE RewardCollect(all)
      <3>1. overlay' \in BOOLEAN /\ ~overlay' /\ clicks' = clicks + 1
        BY <2>2 DEF RewardCollect
      <3>2. UNCHANGED <<lease, captured, control, closing, screen, recent, game>>
        BY <2>2 DEF RewardCollect
      <3> QED
        BY <3>1, <3>2 DEF IInv, TypeOK, control, closing, game
    <2>3. CASE RewardForget
      <3>1. overlay' \in BOOLEAN /\ ~overlay'
        BY <2>3 DEF RewardForget
      <3>2. UNCHANGED <<lease, captured, control, closing, screen, recent, clicks, game>>
        BY <2>3 DEF RewardForget
      <3> QED
        BY <3>1, <3>2 DEF IInv, TypeOK, control, closing, game
    <2> QED
      BY <2>1, <2>2, <2>3
  <1>2. SettledOver'
    <2>1. UNCHANGED <<control, closing, game>>
      BY DEF RewardStart, RewardCollect, RewardForget
    <2> QED
      BY <2>1 DEF IInv, SettledOver, Settled, control, closing, game
  <1> QED
    BY <1>1, <1>2 DEF IInv

LEMMA EnvironmentIInv ==
  ASSUME IInv, Environment
  PROVE  IInv'
  <1> USE DEF IInv, TypeOK, SettledOver, Settled, Untouched, MayBegin, control, closing, reward,
              game
  <1>1. CASE Control
    BY <1>1 DEF Control
  <1>2. CASE Capture
    BY <1>2 DEF Capture
  <1>3. CASE StartDecided
    <2>1. /\ starting' \in BOOLEAN
          /\ UNCHANGED <<lease, captured, control, reward, closing, stopping, result>>
      BY <1>3 DEF StartDecided
    <2>2. \/ session' = session
          \/ ~stopping /\ result = "none" /\ session' = "ours"
      BY <1>3 DEF StartDecided
    <2> QED
      BY <2>1, <2>2
  <1>4. CASE StopDecided
    <2>1. /\ stopping' \in BOOLEAN /\ ~stopping' /\ stopping
          /\ UNCHANGED <<lease, captured, control, reward, closing, starting>>
      BY <1>4 DEF StopDecided
    <2>2. CASE UNCHANGED <<session, result>>
      BY <2>1, <2>2
    <2>3. CASE session # "none" /\ session' = "none" /\ result' = "module"
      <3>1. ~Settled
        BY <2>1, <2>3
      <3>2. ~Settled'
        BY <2>1, <3>1
      <3>3. TypeOK'
        BY <2>1, <2>3
      <3> QED
        BY <2>3, <3>2, <3>3
    <2> QED
      BY <1>4, <2>2, <2>3 DEF StopDecided
  <1>5. CASE PlayerStarts
    BY <1>5 DEF PlayerStarts
  <1>6. CASE PlayerStops
    BY <1>6 DEF PlayerStops
  <1>7. CASE DialogStart
    <2>1. UNCHANGED <<lease, captured, control, reward, close_task, auto_close, due, session,
                      starting, stopping>>
      BY <1>7 DEF DialogStart
    <2>2. result # "none" /\ result' = "none" /\ dialog' \in BOOLEAN /\ fresh' \in BOOLEAN
      BY <1>7 DEF DialogStart
    <2> QED
      BY <2>1, <2>2
  <1>8. CASE CloseEnds
    BY <1>8 DEF CloseEnds
  <1>9. CASE SecondPasses
    BY <1>9 DEF SecondPasses
  <1>10. CASE MinutePasses
    <2>1. recent' \in BOOLEAN
      BY <1>10 DEF MinutePasses
    <2>2. UNCHANGED <<lease, captured, control, closing, overlay, screen, clicks, game>>
      BY <1>10 DEF MinutePasses
    <2> QED
      BY <2>1, <2>2
  <1> QED
    BY <1>1, <1>2, <1>3, <1>4, <1>5, <1>6, <1>7, <1>8, <1>9, <1>10 DEF Environment

LEMMA RestartIInv == ASSUME IInv, Restart PROVE IInv'
  BY DEF IInv, TypeOK, SettledOver, Settled, Restart

LEMMA StutterIInv == ASSUME IInv, UNCHANGED vars PROVE IInv'
  BY DEF IInv, TypeOK, SettledOver, Settled, vars, control, closing, reward, game

(* The memory keeps its shape, and a dialog seen since the last request to *)
(* stop is the dialog of the session that request was for.                 *)
THEOREM Inductive == Spec => []IInv
  <1>1. IInv /\ [Next]_vars => IInv'
    <2> SUFFICES ASSUME IInv, [Next]_vars PROVE IInv'
      OBVIOUS
    <2>1. CASE Tick
      BY <2>1, IdleIInv, StartIInv, StopIInv DEF Tick
    <2>2. CASE RewardForget \/ \E all \in BOOLEAN : RewardStart(all) \/ RewardCollect(all)
      BY <2>2, RewardIInv
    <2>3. CASE Environment
      BY <2>3, EnvironmentIInv
    <2>4. CASE Restart
      BY <2>4, RestartIInv
    <2>5. CASE UNCHANGED vars
      BY <2>5, StutterIInv
    <2> QED
      BY <2>1, <2>2, <2>3, <2>4, <2>5 DEF Next
  <1> QED
    BY <1>1, InitIInv, PTL DEF Spec

(* The memory of planting control keeps its shape, and no session is taken *)
(* for the module's before this process has asked for one.                 *)
THEOREM TypeCorrect == Spec => []TypeOK
  BY Inductive, PTL DEF IInv

(* A dialog seen since the last request to stop is the dialog of the       *)
(* session that request was for.                                           *)
THEOREM SettledCorrect == Spec => []SettledOver
  BY Inductive, PTL DEF IInv

(* What the module reports to a route: the result dialog of the session it *)
(* ended for the route is not still to come.                               *)
THEOREM RouteReadyCorrect == Spec => []RouteReady
  <1>1. IInv => RouteReady
    BY DEF IInv, SettledOver, Settled, RouteReady, StopOk
  <1> QED
    BY <1>1, Inductive, PTL

(* An overlay that may be clicked has not been clicked yet. *)
Unclicked == overlay => clicks = 0

LEMMA UnclickedStep == ASSUME Unclicked, [Next]_vars PROVE Unclicked'
  <1>1. CASE UNCHANGED <<overlay, clicks>>
    BY <1>1 DEF Unclicked
  <1>2. ASSUME NEW wish \in Wishes, Manage(wish) PROVE Unclicked'
    BY <1>2, <1>1 DEF Manage
  <1>3. CASE Tick
    BY <1>2, <1>3 DEF Tick, ManageIdle, StartFails, Start, Stop
  <1>4. CASE Environment
    BY <1>1, <1>4
    DEF Environment, Control, Capture, StartDecided, StopDecided, PlayerStarts, PlayerStops,
        DialogStart, CloseEnds, SecondPasses, MinutePasses, Untouched, reward
  <1>5. CASE RewardForget \/ \E all \in BOOLEAN : RewardStart(all) \/ RewardCollect(all)
    BY <1>5 DEF RewardForget, RewardStart, RewardCollect, Unclicked
  <1>6. CASE Restart
    BY <1>6 DEF Restart, Unclicked
  <1>7. CASE UNCHANGED vars
    BY <1>1, <1>7 DEF vars, reward
  <1> QED
    BY <1>3, <1>4, <1>5, <1>6, <1>7 DEF Next

(* The reward of an overlay is collected once, and only one for planting. *)
THEOREM RewardCorrect == Spec => RewardOnce
  <1>1. Init => Unclicked
    BY DEF Init, Fresh, Unclicked
  <1>2. TypeOK /\ Unclicked /\ [Next]_vars =>
          [clicks' > clicks => clicks = 0 /\ screen = "flower"]_vars
    <2> SUFFICES ASSUME TypeOK, Unclicked, [Next]_vars, clicks' > clicks
                 PROVE  clicks = 0 /\ screen = "flower"
      OBVIOUS
    <2>1. clicks \in Nat /\ clicks' # clicks /\ clicks' # 0
      BY DEF TypeOK
    <2>2. ASSUME NEW wish \in Wishes, Manage(wish) PROVE FALSE
      BY <2>1, <2>2 DEF Manage
    <2>3. ~Tick
      BY <2>2 DEF Tick, ManageIdle, StartFails, Start, Stop
    <2>4. ~Environment
      BY <2>1
      DEF Environment, Control, Capture, StartDecided, StopDecided, PlayerStarts, PlayerStops,
          DialogStart, CloseEnds, SecondPasses, MinutePasses, Untouched, reward
    <2>5. ~RewardForget /\ ~Restart /\ ~UNCHANGED vars
      BY <2>1 DEF RewardForget, Restart, vars, reward
    <2>6. PICK all \in BOOLEAN : RewardStart(all) \/ RewardCollect(all)
      BY <2>3, <2>4, <2>5 DEF Next
    <2> QED
      BY <2>1, <2>6 DEF RewardStart, RewardCollect, Unclicked
  <1> QED
    BY <1>1, <1>2, UnclickedStep, TypeCorrect, PTL DEF Spec, RewardOnce
=============================================================================
