---------------------------- MODULE MCExecution ----------------------------
(***************************************************************************)
(* Instances of Execution for TLC.                                         *)
(***************************************************************************)
EXTENDS Execution

CONSTANTS e1, e2, e3

\* Every execution has its own plan, or the first two have the same one.
OwnPlans == [e \in Exec |-> e]
SharedPlan == [e \in Exec |-> IF e = e2 THEN e1 ELSE e]
=============================================================================
