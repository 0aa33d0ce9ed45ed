---------------------------- MODULE ControlBridge ----------------------------
(***************************************************************************)
(* How the mode of nectar collection reaches the game: the Magisk service  *)
(* copies its own control file over the game's mode file every two         *)
(* seconds; the app on the phone writes the game's file directly.          *)
(***************************************************************************)

CONSTANT Modes      \* what the operator may put into the control file

ASSUME ModesAssumption == Modes \subseteq {"off", "auto", "test_once"}

VARIABLES
  control,    \* the service's own file, the operator's
  mode_file   \* the file the game reads; "none" while it is missing

bridge == <<control, mode_file>>

BridgeTypeOK ==
  /\ control \in Modes \cup {"off"}
  /\ mode_file \in Modes \cup {"none", "off", "diag", "auto"}

(* The service creates the control file with "off". *)
BridgeInit == control = "off" /\ mode_file = "none"

Operate ==
  /\ control' \in Modes
  /\ UNCHANGED mode_file

(* Mutant of ServiceCopy: a file the game has is left alone. *)
ServiceFills ==
  /\ mode_file = "none" /\ mode_file' = control
  /\ UNCHANGED control

ServiceCopy ==
  /\ mode_file' = control
  /\ UNCHANGED control

(* The switch of the app, turned by hand. *)
AppWrite ==
  /\ mode_file' \in {"auto", "diag"}
  /\ UNCHANGED control

(* What a read of the mode file returns: a missing file counts as "diag",  *)
(* and one that is being written may be read as empty.                     *)
Read == IF mode_file = "none" THEN "diag" ELSE mode_file

Reads == {Read, "cut"}
=============================================================================
