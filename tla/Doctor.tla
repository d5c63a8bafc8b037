------------------------------- MODULE Doctor -------------------------------
(***************************************************************************)
(* wist-agentd diagnose (doctor.rs): a process of its own that reads the   *)
(* configuration, the state directory and the network one check after the  *)
(* other, while the daemon, the upgrader and the gateway go on.  The       *)
(* machine is a record of facets; it may change between two checks.        *)
(***************************************************************************)
EXTENDS Investigate

CONSTANTS
    Machines,      \* machines a diagnosis may start on
    Changes,       \* facet -> values it may take on during it
    MaxChanges     \* bound: changes during one diagnosis

\* What the control plane and the certificate it presents may be found to be.
Probed ==
    [uplink |-> {"granted", "standby", "undispatched", "rejected", "failed"},
     certName |-> {"covers", "other", "unread", "garbled"}]
ASSUME ProbedAssumption ==
    /\ \A m \in Machines : \A f \in DOMAIN Probed : f \in DOMAIN m /\ m[f] \in Probed[f]
    /\ \A f \in DOMAIN Probed \cap DOMAIN Changes : Changes[f] \subseteq Probed[f]

VARIABLES
    dstep,     \* next group of checks
    offline,   \* --offline
    mach,      \* the machine
    dchecks,   \* checks reported so far
    dgrant,    \* uplink grant the probe brought back
    changed,   \* changes so far
    since,     \* troubles that have been there from the start
    ever       \* troubles that were there at some time

doctorVars == <<dstep, offline, mach, dchecks, dgrant, changed, since, ever>>

Check(id, status) == [id |-> id, status |-> status]

-----------------------------------------------------------------------------
(* Checks.                                                                 *)

\* A file that is denied is told from one that is not there; either ends the diagnosis.
LoadConfig == IF mach.config = "ok" THEN <<>> ELSE <<Check("config.file", "fail")>>

\* State identity is put into the configuration as at startup; a failure is only a warning.
StateIdentity == IF mach.identity = "broken" THEN <<Check("identity.state", "warn")>> ELSE <<>>

ControlPlaneChecks ==
    CASE mach.control = "off" -> <<Check("config.control_plane", "warn")>>
      [] mach.control = "noendpoint" -> <<Check("config.control_plane", "fail")>>
      [] OTHER -> <<Check("config.control_plane", IF mach.control = "bad" THEN "fail" ELSE "ok"),
                    Check("config.tls", IF mach.tls = "none" THEN "warn" ELSE "ok")>>

\* A directory that is missing is probed at the nearest one that exists.
ProbeWritable(dir) == IF dir = "bad" THEN "fail" ELSE "ok"
PathChecks == <<Check("paths.writable", ProbeWritable(mach.paths))>>

AuthTerminalCheck ==
    Check("identity.terminal", CASE mach.terminal = "none" -> "ok" [] mach.terminal = "set" -> "fail" [] OTHER -> "warn")

CredentialCheck == Check("identity.credential", IF mach.credential THEN "ok" ELSE "warn")

CertificateCheck ==
    Check("identity.certificate",
          CASE mach.cert = "valid" -> "ok" [] mach.cert = "expired" -> "fail" [] OTHER -> "warn")

\* An identity file that cannot be read hides what follows it.
IdentityChecks ==
    IF mach.identity = "broken" THEN <<Check("identity.state", "fail")>>
    ELSE <<Check("identity.agent", IF mach.identity = "registered" THEN "ok" ELSE "fail"),
           CredentialCheck, CertificateCheck, AuthTerminalCheck>>

\* The executor only has to be there; the upgrader must be of our version.
BinaryChecks ==
    <<Check("version.tools", IF mach.exec THEN "ok" ELSE "warn"),
      Check("version.tools", IF mach.upgrader = "same" THEN "ok" ELSE "warn")>>

\* Without a definition the lock tells whether an agent runs all the same.
ServiceChecks ==
    LET definition == CASE mach.service = "running" -> "ok"
                        [] mach.service = "stopped" -> "fail"
                        [] mach.service = "none" /\ mach.held -> "ok"
                        [] OTHER -> "warn"
        binary == IF mach.service \notin {"running", "stopped"} \/ (mach.agentBin /\ mach.exec) THEN <<>>
                  ELSE <<Check("service.binary", IF mach.agentBin THEN "warn" ELSE "fail")>>
    IN  <<Check(IF mach.service = "unsupported" THEN "service.platform" ELSE "service.definition", definition)>>
        \o binary \o BinaryChecks

ExporterToolChecks == IF mach.missingTools THEN <<Check("exporter.tools", "warn")>> ELSE <<>>

LogSourceCheck ==
    <<Check("discovery.log_sources", IF mach.sources \in {"off", "noprocess", "unresolved"} THEN "warn" ELSE "ok")>>

\* What the probe of the control plane brought back.
ClassifyControlPlaneProbe(fetch) ==
    Check("network.control_plane",
          CASE fetch \in {"granted", "standby"} -> "ok" [] fetch = "undispatched" -> "warn" [] OTHER -> "fail")

\* fetch_presented_certificate: any certificate is taken, whoever signed it; a
\* handshake that does not complete is left to the real request.
Presented == mach.tls = "https" /\ mach.certName # "unread"

\* The host of the endpoint must be among the names the certificate is for.
ClassifyPresentedCertificate == Check("network.tls_cert", IF mach.certName = "covers" THEN "ok" ELSE "fail")

TlsCertificateCheck ==
    CASE ~Presented -> <<>>
      [] Presented /\ mach.certName = "garbled" -> <<Check("network.tls_cert", "warn")>>
      [] OTHER -> <<ClassifyPresentedCertificate>>

HasTarget == mach.control \in {"ok", "off"}

\* Without an identity there is nothing to ask for.
Fetch == IF mach.identity = "registered" THEN mach.uplink ELSE "undispatched"

\* Name, connection, certificate, request: the first failure ends the group.
NetworkChecks ==
    CASE ~HasTarget -> <<>>
      [] HasTarget /\ ~mach.dns -> <<Check("network.dns", "fail")>>
      [] HasTarget /\ mach.dns /\ ~mach.tcp -> <<Check("network.dns", "ok"), Check("network.tcp", "fail")>>
      [] OTHER -> <<Check("network.dns", "ok"), Check("network.tcp", "ok")>> \o TlsCertificateCheck
                  \o <<ClassifyControlPlaneProbe(Fetch)>>

GrantOfProbe == IF HasTarget /\ mach.dns /\ mach.tcp /\ Fetch \in {"granted", "standby"} THEN Fetch ELSE "none"

\* effective_output: a grant decides, else the local configuration.
OutputUnder(grant) ==
    CASE grant = "standby" -> [mach.output EXCEPT !.enabled = FALSE]
      [] grant = "granted" -> [kind |-> "tcp", enabled |-> TRUE]
      [] OTHER -> mach.output

UplinkEffective == <<Check("uplink.effective", IF dgrant = "granted" THEN "ok" ELSE "warn")>>

\* effective_policy of snapshots, and an output that can carry them.
SnapshotUplinkCheck ==
    LET on == IF mach.snapGrant = "none" THEN mach.snapLocal ELSE mach.snapGrant = "on"
        out == OutputUnder(dgrant)
    IN  <<Check("discovery.snapshot_uplink", IF on /\ out.enabled /\ out.kind = "tcp" THEN "ok" ELSE "warn")>>

\* An input is looked at only while records would be sent.
LogInputsCheck ==
    <<Check("telemetry.inputs", IF OutputUnder(dgrant).enabled /\ mach.work = "active" /\ mach.inputs = "bad" THEN "fail" ELSE "ok")>>

SpoolCheck == <<Check("uplink.spool", IF mach.spool \in {"large", "corrupt"} THEN "warn" ELSE "ok")>>

LocalWorkCheck == <<Check("work.local", IF mach.work \in {"active", "paused"} THEN "ok" ELSE "warn")>>

UplinkTargetCheck ==
    IF ~(OutputUnder(dgrant).enabled /\ OutputUnder(dgrant).kind = "tcp") THEN <<>>
    ELSE <<Check("uplink.target", IF mach.target = "ok" THEN "ok" ELSE "fail")>>

\* Mutant: a record that says running is believed.
LocalUpgradeBelieved ==
    <<Check("upgrade.local",
            CASE mach.upgrade \in {"none", "succeeded", "running"} -> "ok" [] mach.upgrade = "failed" -> "fail" [] OTHER -> "warn")>>

\* A record that says running is believed while its heartbeat is fresh.
LocalUpgradeCheck ==
    <<Check("upgrade.local",
            CASE mach.upgrade \in {"none", "succeeded"} \/ (mach.upgrade = "running" /\ mach.beat = "fresh") -> "ok"
              [] mach.upgrade = "failed" \/ (mach.upgrade = "running" /\ mach.beat = "stale") -> "fail"
              [] OTHER -> "warn")>>

-----------------------------------------------------------------------------
(* The diagnosis.                                                          *)

\* What is really wrong with a machine.
Troubles(m) ==
    {t \in {"config", "unregistered", "terminal", "expired", "stopped", "paths", "upgrader", "upgrade"} :
        CASE t = "config" -> m.config # "ok"
          [] t = "unregistered" -> m.identity # "registered"
          [] t = "terminal" -> m.terminal = "set" /\ m.identity # "broken"
          [] t = "expired" -> m.cert = "expired" /\ m.identity # "broken"
          [] t = "stopped" -> m.service = "stopped"
          [] t = "paths" -> m.paths = "bad"
          [] t = "upgrader" -> m.upgrade = "running" /\ m.beat = "stale"
          [] t = "upgrade" -> m.upgrade = "failed"}
    \cup {t \in {"network", "gateway", "target", "inputs", "endpoint", "binary"} :
        CASE t = "network" -> m.control \in {"ok", "off"} /\ ~(m.dns /\ m.tcp)
          [] t = "gateway" -> m.control \in {"ok", "off"} /\ m.identity = "registered" /\ (m.uplink \in {"rejected", "failed"} \/ (m.tls = "https" /\ m.certName = "other"))
          [] t = "target" -> m.target # "ok"
          [] t = "inputs" -> m.inputs = "bad" /\ m.work = "active"
          [] t = "endpoint" -> m.control \in {"bad", "noendpoint"}
          [] t = "binary" -> ~m.agentBin /\ m.service \in {"running", "stopped"}}

\* Troubles the tool can only see when it may use the network.
Remote == {"network", "gateway", "target", "inputs"}

Report(checks, next) ==
    /\ dchecks' = dchecks \o checks
    /\ dstep' = next
    /\ UNCHANGED <<offline, mach, changed, since, ever>>

DoLoad == dstep = "load" /\ dgrant' = dgrant
          /\ IF mach.config = "ok" THEN Report(StateIdentity \o <<Check("config.file", "ok")>>, "config") ELSE Report(LoadConfig, "done")
DoConfig == dstep = "config" /\ dgrant' = dgrant /\ Report(ControlPlaneChecks \o PathChecks, "identity")
DoIdentity == dstep = "identity" /\ dgrant' = dgrant /\ Report(IdentityChecks, "service")
DoService == dstep = "service" /\ dgrant' = dgrant /\ Report(ServiceChecks \o ExporterToolChecks \o LogSourceCheck, "network")

\* One probe serves both the verdict on the control plane and the uplink checks.
DoNetwork ==
    /\ dstep = "network"
    /\ IF offline THEN dgrant' = "none" /\ Report(<<Check("network.skipped", "warn")>>, "local")
       ELSE dgrant' = GrantOfProbe /\ Report(NetworkChecks, "local")

DoLocal ==
    /\ dstep = "local" /\ dgrant' = dgrant
    /\ Report(UplinkEffective \o SnapshotUplinkCheck \o LogInputsCheck \o SpoolCheck \o LocalWorkCheck,
              IF offline THEN "upgrade" ELSE "target")
DoTarget == dstep = "target" /\ dgrant' = dgrant /\ Report(UplinkTargetCheck, "upgrade")
DoUpgrade == dstep = "upgrade" /\ dgrant' = dgrant /\ Report(LocalUpgradeCheck, "done")

Diagnose == DoLoad \/ DoConfig \/ DoIdentity \/ DoService \/ DoNetwork \/ DoLocal \/ DoTarget \/ DoUpgrade

\* The daemon, the upgrader, the gateway or the administrator changes something.
MachineChanges ==
    /\ dstep # "done" /\ changed < MaxChanges
    /\ \E facet \in DOMAIN Changes : \E value \in Changes[facet] :
          /\ mach[facet] # value
          /\ mach' = [mach EXCEPT ![facet] = value]
    /\ changed' = changed + 1
    /\ since' = since \cap Troubles(mach') /\ ever' = ever \cup Troubles(mach')
    /\ UNCHANGED <<dstep, offline, dchecks, dgrant>>

DoctorInit ==
    /\ dstep = "load" /\ offline \in BOOLEAN /\ mach \in Machines /\ dchecks = <<>> /\ dgrant = "none" /\ changed = 0
    /\ since = Troubles(mach) /\ ever = Troubles(mach)

DoctorNext == Diagnose \/ MachineChanges

-----------------------------------------------------------------------------
(* Properties.                                                             *)


\* The exit code can be trusted although the machine changes meanwhile: a trouble
\* that was there all along makes it 1 (one of the network only when the tool may
\* use it and the uplink is on), and it is 1 only if something was wrong at some
\* time (diagnose, exit_code).
ExitCodeTold ==
    dstep = "done" =>
        /\ since \ Remote # {} => ExitCode(dchecks) = 1
        /\ ~offline /\ {"network", "gateway"} \cap since # {} => ExitCode(dchecks) = 1
        /\ dgrant = "granted" /\ {"target", "inputs"} \cap since # {} => ExitCode(dchecks) = 1
        /\ ExitCode(dchecks) = 1 => ever # {}
=============================================================================
