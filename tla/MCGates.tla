------------------------------- MODULE MCGates -------------------------------
(***************************************************************************)
(* The location gates, the route lease and the start-up on small           *)
(* instances.  They share no variable, so the run takes them one at a      *)
(* time: in a behaviour only the component chosen at the start moves.      *)
(***************************************************************************)
EXTENDS LocationGates, RouteLease, Startup

(* The build the module was made for, and one in which a class that the    *)
(* return engine needs and a method have changed.                          *)
MCBuilds == {Function, Function \ {"preparer_ctor", "wire"}}

MCFailures == {{}, {"rpc_ctor"}, {"register", "reward"}}

VARIABLE component

vars == <<component, gateVars, leaseVars, startVars>>

Init ==
  /\ component \in {"gates", "lease", "startup"}
  /\ GatesInit /\ LeaseInit /\ StartInit

Next ==
  \/ component = "gates" /\ GatesNext /\ UNCHANGED <<component, leaseVars, startVars>>
  \/ component = "lease" /\ LeaseNext /\ UNCHANGED <<component, gateVars, startVars>>
  \/ component = "startup" /\ StartNext /\ UNCHANGED <<component, gateVars, leaseVars>>

Spec == Init /\ [][Next]_vars

(* The memory of the gates, of the identity and of the start-up has its shape. *)
TypeOK == GatesTypeOK /\ LeaseTypeOK /\ StartTypeOK
=============================================================================
