------------------------------- MODULE Refresh -------------------------------
(***************************************************************************)
(* Standing works and the other pulled settings of one daemon.  They share *)
(* no state, so a behaviour moves one of them, chosen at the start, and    *)
(* leaves the other in its initial state: the sum of the two, not their    *)
(* product.                                                                *)
(***************************************************************************)
EXTENDS WorkGrant, Pulls

VARIABLE part

refreshVars == <<part, workVars, pullVars>>

RefreshInit == WorkInit /\ PullInit /\ part \in {"works", "pulls"}

RefreshNext ==
    /\ part' = part
    /\ \/ part = "works" /\ WorkNext /\ UNCHANGED pullVars
       \/ part = "pulls" /\ PullNext /\ UNCHANGED workVars

\* The fairness of WorkSpec and PullSpec, each for its own part.
RefreshSpec ==
    /\ RefreshInit /\ [][RefreshNext]_refreshVars
    /\ WF_workVars(part = "works" /\ FetchWork) /\ WF_workVars(part = "works" /\ AckStep)
    /\ WF_workVars(part = "works" /\ EndRound) /\ WF_workVars(part = "works" /\ RestoreWork)
    /\ WF_pullVars(part = "pulls" /\ PullTick)

-----------------------------------------------------------------------------
(* Properties.                                                             *)

\* Between two rounds work.json is what the daemon holds, a version it cannot
\* read is never acknowledged, and a fact summary is attempted once per interval
\* (restore, AppliedWorkGrant::apply, within_fact_report_min_interval).
PullsSafe == WorkTypeOK /\ PullTypeOK /\ ViewCurrent /\ DriftVisible /\ FactsNotSilent

\* When the operator stops changing works and settings, the daemon ends up with
\* exactly those it authorised, and the gateway knows it (refresh_work_grant and
\* the four refresh functions of the tick).
PullsSettle == WorksSettle /\ SettingsConverge
=============================================================================
