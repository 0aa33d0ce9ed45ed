-------------------------- MODULE NectarClaim_proofs --------------------------
(***************************************************************************)
(* A process claims a flower once, sends one claim in the mode "test_once" *)
(* and logs exactly the rewards that each claim came back with, for every  *)
(* set of flowers and whatever the files, the map and the answers do.      *)
(***************************************************************************)
EXTENDS NectarClaim, TLAPS

(* The names NectarClaim gives its groups of variables. *)
USE DEF bridge, records, claims, answers, world

(* The marks that forbid a second claim are set with the first one.        *)
ClaimsMarked ==
  /\ \A f \in Flower : sent[f] = IF f \in attempted THEN 1 ELSE 0
  /\ tests = IF test_once_sent THEN 1 ELSE 0

(* A Task has completed exactly when its claim has an answer, and only     *)
(* claims with a Task have one.                                            *)
AnswersMatch ==
  \A f \in Flower :
    /\ pending_id = f => (task = "completed" <=> given[f] # NoAnswer)
    /\ f \notin tasks => given[f] = NoAnswer

IInv == TypeOK /\ ClaimsMarked /\ AnswersMatch /\ RewardsLogged

-----------------------------------------------------------------------------
(* The shape of the memory *)

LEMMA InitType == Init => TypeOK
<1> SUFFICES ASSUME Init PROVE TypeOK
  OBVIOUS
<1>1. BridgeTypeOK
  BY DEF Init, BridgeInit, BridgeTypeOK
<1>2. /\ flowers \in [Flower -> {"live", "spent"}] /\ sent \in [Flower -> Nat]
      /\ rows \in [Flower -> Nat] /\ given \in [Flower -> Answer \cup {NoAnswer}]
  BY DEF Init
<1>3. attempted = {} /\ near = {} /\ tasks = {} /\ pending_id = None /\ task = "none"
  BY DEF Init
<1>4. tests \in Nat /\ restarts \in 0..MaxRestarts
  BY NectarAssumption DEF Init
<1>5. target_loaded = FALSE /\ test_once_sent = FALSE /\ rested = TRUE
  BY DEF Init
<1>6. QED
  BY <1>1, <1>2, <1>3, <1>4, <1>5 DEF TypeOK

LEMMA RowsType == ASSUME NEW answer \in Answer PROVE RowsFor(answer) \in Nat
  BY NectarAssumption DEF Answer, RowsFor

(* The first half of a tick *)
LEMMA TickType ==
  ASSUME TypeOK, AnswersMatch, NEW mode, Tick(mode)
  PROVE  /\ flowers' \in [Flower -> {"live", "spent"}] /\ target_loaded' \in BOOLEAN
         /\ rows' \in [Flower -> Nat]
         /\ UNCHANGED <<control, mode_file, near, restarts>>
<1>1. flowers' \in [Flower -> {"live", "spent"}]
  <2>1. Target # None => Target \in Flower
    BY NectarAssumption
  <2>2. QED
    BY <2>1 DEF TypeOK, Tick, Known
<1>2. target_loaded' \in BOOLEAN
  BY DEF TypeOK, Tick, Active
<1>3. rows' \in [Flower -> Nat]
  <2>1. CASE Completed
    <3>1. pending_id \in Flower
      BY <2>1 DEF TypeOK, Completed
    <3>2. given[pending_id] \in Answer
      BY <2>1, <3>1 DEF TypeOK, AnswersMatch, Completed
    <3>3. rows' = [rows EXCEPT ![pending_id] = @ + RowsFor(given[pending_id])]
      BY <2>1 DEF Tick, Poll
    <3>4. QED
      BY <3>1, <3>2, <3>3, RowsType DEF TypeOK
  <2>2. CASE ~Completed
    BY <2>2 DEF Tick, Poll, TypeOK
  <2>3. QED
    BY <2>1, <2>2
<1>4. QED
  BY <1>1, <1>2, <1>3 DEF Tick

LEMMA WaitType == ASSUME TypeOK, AnswersMatch, NEW mode, Wait(mode) PROVE TypeOK'
<1>1. Tick(mode)
  BY DEF Wait
<1>2. BridgeTypeOK'
  BY <1>1, TickType DEF TypeOK, BridgeTypeOK
<1>3. pending_id' \in tasks' \cup {None} /\ task' \in {"none", "running", "completed"}
      /\ (task' = "none" <=> pending_id' = None)
  BY DEF Wait, TypeOK
<1>4. QED
  BY <1>1, <1>2, <1>3, TickType DEF TypeOK, Wait

LEMMA SendType == ASSUME TypeOK, AnswersMatch, NEW mode, NEW f \in Flower, Send(mode, f) PROVE TypeOK'
<1>1. Tick(mode)
  BY DEF Send, Claim
<1>2. BridgeTypeOK'
  BY <1>1, TickType DEF TypeOK, BridgeTypeOK
<1>3. /\ attempted' = attempted \cup {f} /\ attempted' \subseteq Flower
      /\ rested' = FALSE /\ test_once_sent' \in BOOLEAN
  BY DEF Send, Claim, TypeOK
<1>4. sent' \in [Flower -> Nat] /\ tests' \in Nat /\ given' = given
  BY DEF Send, Claim, TypeOK
<1>5. /\ tasks' \subseteq attempted' /\ pending_id' \in tasks' \cup {None}
      /\ task' \in {"none", "running", "completed"}
      /\ (task' = "none" <=> pending_id' = None)
  BY <1>3, NectarAssumption DEF Send, Answered, Unanswered, TypeOK
<1>6. QED
  BY <1>1, <1>2, <1>3, <1>4, <1>5, TickType DEF TypeOK

LEMMA BridgeType == ASSUME TypeOK, Bridge PROVE TypeOK'
<1>1. BridgeTypeOK'
  BY ModesAssumption DEF TypeOK, Bridge, BridgeTypeOK, Operate, ServiceCopy, AppWrite
<1>2. QED
  BY <1>1 DEF TypeOK, Bridge

LEMMA RestartType == ASSUME TypeOK, Restart PROVE TypeOK'
<1>1. BridgeTypeOK' /\ restarts' \in 0..MaxRestarts
  BY NectarAssumption DEF TypeOK, Restart, BridgeTypeOK
<1>2. /\ flowers' \in [Flower -> {"live", "spent"}] /\ sent' \in [Flower -> Nat]
      /\ rows' \in [Flower -> Nat] /\ given' \in [Flower -> Answer \cup {NoAnswer}]
  BY DEF Restart
<1>3. /\ attempted' = {} /\ near' \subseteq Flower /\ tasks' = {}
      /\ pending_id' = None /\ task' = "none" /\ tests' \in Nat
  BY DEF Restart, TypeOK
<1>4. target_loaded' = FALSE /\ test_once_sent' = FALSE /\ rested' = TRUE
  BY DEF Restart
<1>5. QED
  BY <1>1, <1>2, <1>3, <1>4 DEF TypeOK

LEMMA CompleteType == ASSUME TypeOK, Complete PROVE TypeOK'
<1>1. PICK answer \in Answer : given' = [given EXCEPT ![pending_id] = answer]
  BY DEF Complete
<1>2. given' \in [Flower -> Answer \cup {NoAnswer}]
  BY <1>1 DEF TypeOK
<1>3. BridgeTypeOK'
  BY DEF TypeOK, BridgeTypeOK, Complete
<1>4. QED
  BY <1>2, <1>3 DEF TypeOK, Complete

LEMMA StepType == TypeOK /\ AnswersMatch /\ [Next]_vars => TypeOK'
<1> SUFFICES ASSUME TypeOK, AnswersMatch, [Next]_vars PROVE TypeOK'
  OBVIOUS
<1>1. ASSUME NEW mode \in Reads, MaybeClaim(mode) PROVE TypeOK'
  BY <1>1, WaitType, SendType DEF MaybeClaim
<1>2. ASSUME NEW f \in Flower, LogFlower(f) PROVE TypeOK'
  BY <1>2 DEF LogFlower, TypeOK, BridgeTypeOK
<1>3. CASE Move
  BY <1>3 DEF Move, TypeOK, BridgeTypeOK
<1>4. CASE Rest
  BY <1>4 DEF Rest, TypeOK, BridgeTypeOK
<1>5. CASE Complete
  BY <1>5, CompleteType
<1>6. CASE UNCHANGED vars
  BY <1>6 DEF vars, TypeOK, BridgeTypeOK
<1>7. QED
  BY <1>1, <1>2, <1>3, <1>4, <1>5, <1>6, BridgeType, RestartType DEF Next

-----------------------------------------------------------------------------
(* Each flower once *)

LEMMA StepMarked == IInv /\ [Next]_vars => ClaimsMarked'
<1> SUFFICES ASSUME IInv, [Next]_vars PROVE ClaimsMarked'
  OBVIOUS
<1> USE DEF IInv
<1>1. ASSUME NEW mode, NEW f \in Flower, Send(mode, f) PROVE ClaimsMarked'
  <2>1. /\ f \notin attempted /\ attempted' = attempted \cup {f}
        /\ sent' = [sent EXCEPT ![f] = @ + 1]
    BY <1>1 DEF Send, Claim, MayClaim
  <2>2. ASSUME NEW g \in Flower PROVE sent'[g] = IF g \in attempted' THEN 1 ELSE 0
    BY <2>1 DEF ClaimsMarked, TypeOK
  <2>3. tests' = IF test_once_sent' THEN 1 ELSE 0
    <3>1. mode = "test_once" => ~test_once_sent
      BY <1>1 DEF Send, Claim, MayClaim, Active
    <3>2. /\ test_once_sent' = (test_once_sent \/ mode = "test_once")
          /\ tests' = tests + (IF mode = "test_once" THEN 1 ELSE 0)
      BY <1>1 DEF Send, Claim
    <3>3. CASE mode = "test_once"
      <4>1. ~test_once_sent /\ test_once_sent'
        BY <3>1, <3>2, <3>3
      <4>2. tests = 0
        BY <4>1 DEF ClaimsMarked
      <4>3. tests' = tests + 1
        BY <3>2, <3>3
      <4>4. QED
        BY <4>1, <4>2, <4>3
    <3>4. CASE mode # "test_once"
      <4>1. test_once_sent' = test_once_sent
        BY <3>2, <3>4 DEF TypeOK
      <4>2. QED
        BY <3>2, <3>4, <4>1 DEF ClaimsMarked, TypeOK
    <3>5. QED
      BY <3>3, <3>4
  <2>4. QED
    BY <2>2, <2>3 DEF ClaimsMarked
<1>2. CASE Restart
  BY <1>2 DEF Restart, ClaimsMarked
<1>3. CASE UNCHANGED <<attempted, sent, tests, test_once_sent>>
  BY <1>3 DEF ClaimsMarked
<1>4. ASSUME NEW mode, Wait(mode) PROVE UNCHANGED <<attempted, sent, tests, test_once_sent>>
  BY <1>4 DEF Wait
<1>5. (\E f \in Flower : LogFlower(f)) \/ Move \/ Rest \/ Complete \/ Bridge \/ UNCHANGED vars
      => UNCHANGED <<attempted, sent, tests, test_once_sent>>
  BY DEF LogFlower, Move, Rest, Complete, Bridge, vars
<1>6. QED
  BY <1>1, <1>2, <1>3, <1>4, <1>5 DEF Next, MaybeClaim

(* After a tick in which no claim was being waited for, the rewards of     *)
(* every claim that returned a Task are logged, and no other.              *)
LEMMA Polled ==
  ASSUME TypeOK, AnswersMatch, RewardsLogged, NEW mode, Tick(mode), ~Awaiting, NEW f \in Flower
  PROVE  IF f \in tasks THEN given[f] # NoAnswer /\ rows'[f] = RowsFor(given[f]) ELSE rows'[f] = 0
<1>0. f # None
  BY NectarAssumption
<1>1. CASE pending_id = f
  <2>1. task = "completed" /\ Completed
    BY <1>0, <1>1 DEF TypeOK, Awaiting, Completed
  <2>2. rows[f] = 0 /\ f \in tasks /\ given[f] # NoAnswer
    BY <1>0, <1>1, <2>1 DEF RewardsLogged, AnswersMatch, TypeOK
  <2>3. rows' = [rows EXCEPT ![f] = @ + RowsFor(given[f])]
    BY <1>1, <2>1 DEF Tick, Poll
  <2>4. RowsFor(given[f]) \in Nat
    BY <2>2, RowsType DEF TypeOK
  <2>5. rows'[f] = RowsFor(given[f])
    BY <2>2, <2>3, <2>4 DEF TypeOK
  <2>6. QED
    BY <2>2, <2>5
<1>2. CASE pending_id # f
  <2>1. rows' = rows \/ rows' = [rows EXCEPT ![pending_id] = @ + RowsFor(given[pending_id])]
    BY DEF Tick, Poll
  <2>2. rows'[f] = rows[f]
    BY <1>2, <2>1 DEF TypeOK
  <2>3. QED
    BY <1>2, <2>2 DEF RewardsLogged
<1>3. QED
  BY <1>1, <1>2

LEMMA StepLogged == IInv /\ [Next]_vars => RewardsLogged'
<1> DEFINE Logged(g) == IF g \in tasks' /\ pending_id' # g
                        THEN given'[g] # NoAnswer /\ rows'[g] = RowsFor(given'[g])
                        ELSE rows'[g] = 0
<1> SUFFICES ASSUME IInv, [Next]_vars, NEW g \in Flower
             PROVE  Logged(g)
  BY DEF RewardsLogged, RowsFor
<1> USE DEF IInv
<1>0. g # None
  BY NectarAssumption
<1>1. ASSUME NEW mode, NEW f \in Flower, Send(mode, f) PROVE Logged(g)
  <2>1. Tick(mode) /\ ~Awaiting /\ f \notin tasks /\ given' = given
    BY <1>1 DEF Send, Claim, MayClaim, Active, TypeOK
  <2>2. IF g \in tasks THEN given[g] # NoAnswer /\ rows'[g] = RowsFor(given[g]) ELSE rows'[g] = 0
    BY <2>1, Polled
  <2>3. CASE Answered(f)
    BY <2>1, <2>2, <2>3 DEF Answered
  <2>4. CASE Unanswered
    BY <2>1, <2>2, <2>4, <1>0 DEF Unanswered
  <2>5. QED
    BY <1>1, <2>3, <2>4 DEF Send
<1>2. ASSUME NEW mode, Wait(mode) PROVE Logged(g)
  <2>1. Tick(mode) /\ UNCHANGED <<tasks, given>>
    BY <1>2 DEF Wait
  <2>2. CASE Awaiting
    <3>1. rows' = rows /\ pending_id' = pending_id
      BY <1>2, <2>2 DEF Wait, Tick, Poll, Awaiting
    <3>2. QED
      BY <2>1, <3>1 DEF RewardsLogged
  <2>3. CASE ~Awaiting
    <3>1. pending_id' # g
      BY <1>0, <1>2, <2>3 DEF Wait
    <3>2. IF g \in tasks THEN given[g] # NoAnswer /\ rows'[g] = RowsFor(given[g]) ELSE rows'[g] = 0
      BY <2>1, <2>3, Polled
    <3>3. QED
      BY <2>1, <3>1, <3>2
  <2>4. QED
    BY <2>2, <2>3
<1>3. CASE Restart
  BY <1>3 DEF Restart
<1>4. CASE Complete
  <2>1. PICK answer \in Answer : given' = [given EXCEPT ![pending_id] = answer]
    BY <1>4 DEF Complete
  <2>2. UNCHANGED <<pending_id, tasks, rows>>
    BY <1>4 DEF Complete
  <2>3. pending_id # g => given'[g] = given[g]
    BY <2>1 DEF TypeOK
  <2>4. QED
    BY <2>2, <2>3 DEF RewardsLogged
<1>5. CASE UNCHANGED <<rows, pending_id, tasks, given>>
  BY <1>5 DEF RewardsLogged
<1>6. (\E f \in Flower : LogFlower(f)) \/ Move \/ Rest \/ Bridge \/ UNCHANGED vars
      => UNCHANGED <<rows, pending_id, tasks, given>>
  BY DEF LogFlower, Move, Rest, Bridge, vars
<1>7. QED
  BY <1>1, <1>2, <1>3, <1>4, <1>5, <1>6 DEF Next, MaybeClaim

-----------------------------------------------------------------------------
(* Each reward once *)

LEMMA StepAnswered == IInv /\ [Next]_vars => AnswersMatch'
<1> SUFFICES ASSUME IInv, [Next]_vars, NEW g \in Flower
             PROVE  /\ pending_id' = g => (task' = "completed" <=> given'[g] # NoAnswer)
                    /\ g \notin tasks' => given'[g] = NoAnswer
  BY DEF AnswersMatch
<1> DEFINE Goal == /\ pending_id' = g => (task' = "completed" <=> given'[g] # NoAnswer)
                   /\ g \notin tasks' => given'[g] = NoAnswer
<1> USE DEF IInv
<1>0. g # None
  BY NectarAssumption
<1>1. ASSUME NEW mode, NEW f \in Flower, Send(mode, f) PROVE Goal
  <2>1. f \notin tasks /\ given' = given
    BY <1>1 DEF Send, Claim, MayClaim, TypeOK
  <2>2. CASE Answered(f)
    <3>1. pending_id' = f /\ task' = "running" /\ tasks' = tasks \cup {f}
      BY <2>2 DEF Answered
    <3>2. given[f] = NoAnswer
      BY <2>1 DEF AnswersMatch
    <3>3. QED
      BY <2>1, <3>1, <3>2 DEF AnswersMatch
  <2>3. CASE Unanswered
    BY <2>1, <2>3, <1>0 DEF Unanswered, AnswersMatch
  <2>4. QED
    BY <1>1, <2>2, <2>3 DEF Send
<1>2. ASSUME NEW mode, Wait(mode) PROVE Goal
  BY <1>2, <1>0 DEF Wait, AnswersMatch
<1>3. CASE Restart
  BY <1>3, <1>0 DEF Restart
<1>4. CASE Complete
  <2>1. PICK answer \in Answer : given' = [given EXCEPT ![pending_id] = answer]
    BY <1>4 DEF Complete
  <2>2. answer # NoAnswer
    BY DEF Answer, NoAnswer
  <2>3. pending_id \in Flower /\ pending_id \in tasks
    BY <1>4 DEF Complete, TypeOK
  <2>4. task' = "completed" /\ UNCHANGED <<pending_id, tasks>>
    BY <1>4 DEF Complete
  <2>5. QED
    BY <2>1, <2>2, <2>3, <2>4 DEF AnswersMatch, TypeOK
<1>5. CASE UNCHANGED <<pending_id, task, tasks, given>>
  BY <1>5 DEF AnswersMatch
<1>6. (\E f \in Flower : LogFlower(f)) \/ Move \/ Rest \/ Bridge \/ UNCHANGED vars
      => UNCHANGED <<pending_id, task, tasks, given>>
  BY DEF LogFlower, Move, Rest, Bridge, vars
<1>7. QED
  BY <1>1, <1>2, <1>3, <1>4, <1>5, <1>6 DEF Next, MaybeClaim

(* The inductive invariant and what follows from it *)

(* A claim that was sent is marked, a Task has completed exactly when its  *)
(* claim has an answer, and the log holds what the claims that are over    *)
(* came back with: this is what every step keeps.                          *)
THEOREM Inductive == Spec => []IInv
<1>1. Init => IInv
  <2>1. ASSUME Init PROVE ClaimsMarked
    BY <2>1 DEF Init, ClaimsMarked
  <2>2. ASSUME Init PROVE AnswersMatch /\ RewardsLogged
    BY <2>2, NectarAssumption DEF Init, AnswersMatch, RewardsLogged
  <2>3. QED
    BY <2>1, <2>2, InitType DEF IInv
<1>2. IInv /\ [Next]_vars => IInv'
  BY StepType, StepMarked, StepAnswered, StepLogged DEF IInv
<1>3. QED
  BY <1>1, <1>2, PTL DEF Spec

(* The memory of the claims and the files keep their shape, for all sets   *)
(* of flowers and modes.                                                   *)
THEOREM TypeCorrect == Spec => []TypeOK
<1>1. IInv => TypeOK
  BY DEF IInv
<1>2. QED
  BY <1>1, Inductive, PTL

(* maybe_claim() sends no second claim for a flower in one process. *)
THEOREM ClaimedOnceCorrect == Spec => []ClaimedOnce
<1>1. IInv => ClaimedOnce
  BY DEF IInv, ClaimsMarked, ClaimedOnce
<1>2. QED
  BY <1>1, Inductive, PTL

(* The claim log holds exactly what the claims that are over came back     *)
(* with: no reward is lost, logged twice or under another flower.          *)
THEOREM RewardsCorrect == Spec => []RewardsLogged
<1>1. IInv => RewardsLogged
  BY DEF IInv
<1>2. QED
  BY <1>1, Inductive, PTL

(* The mode "test_once" sends at most one claim in one process. *)
THEOREM TestOnceCorrect == Spec => []TestOnce
<1>1. IInv => TestOnce
  BY DEF IInv, ClaimsMarked, TestOnce
<1>2. QED
  BY <1>1, Inductive, PTL
=============================================================================
