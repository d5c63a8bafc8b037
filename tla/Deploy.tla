------------------------------- MODULE Deploy -------------------------------
(***************************************************************************)
(* The two ways the installed agent is replaced: an upgrade work and the   *)
(* `service` command.  An upgrade restarts the service and takes it that   *)
(* the manager does; the service command knows nothing of upgrades.  Each  *)
(* behaviour follows one of the two.                                       *)
(***************************************************************************)
EXTENDS Upgrade, Service

VARIABLE part

deployVars == <<part, vars, serviceVars>>

DeployInit ==
  /\ Init /\ ServiceInit
  /\ \/ part = "service"
     \/ part = "upgrade" /\ platform = "systemd" /\ enrolled /\ fit

Upgrading(A) == part = "upgrade" /\ A /\ UNCHANGED <<part, serviceVars>>
Serving(A) == part = "service" /\ A /\ UNCHANGED <<part, vars>>

DeployNext == Upgrading(Next) \/ Serving(ServiceNext)

\* Of the upgrade: agentd's loop and its service manager go on, upgraders that
\* live make progress (every wait of theirs has a limit), time passes.  Of the
\* service: a command that was started ends; the daemon starts and the manager
\* restarts what exits; a process told to stop is killed after 30 seconds; an
\* interval of 60 seconds passes.  Nothing ends a daemon started by hand.
DeploySpec ==
  /\ DeployInit /\ [][DeployNext]_deployVars
  /\ WF_vars(Upgrading(AgentdStep)) /\ WF_vars(Upgrading(HeartbeatExpires))
  /\ \A i \in Slot : WF_vars(Upgrading(UpgraderStep(i)))
  /\ WF_serviceVars(Serving(CliStep)) /\ WF_serviceVars(Serving(DaemonStep))
  /\ WF_serviceVars(Serving(LeavingExits)) /\ WF_serviceVars(Serving(IntervalPasses))
=============================================================================
