-------------------------------- MODULE Plane --------------------------------
(***************************************************************************)
(* The data plane of a tick (daemon.rs, run_once_with_failure_cache): the  *)
(* discovery round with what is derived from it, the sending part, and     *)
(* what the tick tells of its log inputs.  They meet only in the frames of *)
(* the metrics batch, which the sending part takes as given, and in the    *)
(* link, whose outages are faults of each part; so each behaviour follows  *)
(* one of the three.                                                       *)
(***************************************************************************)
EXTENDS Discovery, Uplink, Notices

VARIABLE part

planeVars == <<part, discoveryVars, upVars, noticeVars>>

DiscoveryIdle ==
    /\ onHost = "idle" /\ outputs = "idle" /\ lastRun = "idle" /\ policy = "idle" /\ lastFetch = "idle" /\ latest = "idle"
    /\ cache = "idle" /\ planned = "idle" /\ view = "idle" /\ runtime = "idle" /\ exported = "idle" /\ round = "idle"
    /\ dpc = "none" /\ dhealth = "idle" /\ steady = "idle" /\ dfaults = "idle" /\ dchanges = "idle"
UpIdle ==
    /\ journal = "idle" /\ vacuumed = "idle" /\ aged = "idle" /\ large = "idle" /\ tool = "idle" /\ cursors = "idle"
    /\ ranAt = "idle" /\ lacking = "idle" /\ held = "idle" /\ sent = "idle" /\ passed = "idle" /\ stream = "idle"
    /\ finishing = "idle" /\ upc = "none" /\ uat = "idle" /\ batch = "idle" /\ ufaults = "idle"

NoticesIdle ==
    /\ works = "idle" /\ uplink = "idle" /\ local = "idle" /\ missing = "idle" /\ unread = "idle" /\ spool = "idle"
    /\ link = "idle" /\ npc = "none" /\ nat = "idle" /\ reports = "idle" /\ fails = <<>> /\ paused = "idle"
    /\ sentAny = "idle" /\ worked = "idle" /\ printed = "idle" /\ previousFailures = "idle" /\ previousPaused = "idle"
    /\ failing = FALSE /\ active = "idle" /\ pending = "idle" /\ told = "idle" /\ unheard = TRUE
    /\ nfaults = "idle" /\ moves = "idle"

PlaneInit ==
    \/ part = "discover" /\ DiscoveryInit /\ UpIdle /\ NoticesIdle
    \/ part = "send" /\ UpInit /\ DiscoveryIdle /\ NoticesIdle
    \/ part = "tell" /\ NoticesInit /\ DiscoveryIdle /\ UpIdle

Discovering(A) == part = "discover" /\ A /\ UNCHANGED <<part, upVars, noticeVars>>
Sending(A) == part = "send" /\ A /\ UNCHANGED <<part, discoveryVars, noticeVars>>
Telling(A) == part = "tell" /\ A /\ UNCHANGED <<part, discoveryVars, upVars>>

PlaneNext == Discovering(DiscoveryNext) \/ Sending(UpNext) \/ Telling(NoticesNext)

\* The daemon's loop never stops and reports its status every few seconds; what is finished in
\* the background is a task of its runtime; an outage ends.
PlaneSpec ==
    /\ PlaneInit /\ [][PlaneNext]_planeVars
    /\ WF_discoveryVars(Discovering(DiscoveryStep))
    /\ WF_upVars(Sending(UpStep)) /\ WF_upVars(Sending(Finish))
    /\ WF_noticeVars(Telling(TickStep)) /\ WF_noticeVars(Telling(LinkReturns)) /\ WF_noticeVars(Telling(ReportSent))

-----------------------------------------------------------------------------
(* Properties. *)

\* What the last refreshed snapshot held and the host has had ever since is in the new snapshot
\* too, or the report of the round names its probe as failed: nothing vanishes unsaid,
\* whichever probes were due, fell back on an earlier output, or followed a restart
\* (discovery/runtime.rs refresh_inner: leaving out a probe deletes its resources).
VanishTold ==
    dpc = "metrics" => \A i \in steady : i \in latest.of.resources \/ KindOf[i] \in dhealth.failed

\* A round that reports no failure leaves the three cache files, the candidates and the
\* target view telling of one snapshot, and what the tick exports names that snapshot
\* (cache.rs store_snapshot_async and daemon.rs refresh_discovery_snapshot write seven
\* files one after the other).
HealthyRoundAgrees ==
    /\ dpc = "metrics" /\ dhealth.failed = {} =>
        /\ cache.resources = Some(latest.of.resources) /\ cache.targets = Some(latest.of.targets)
        /\ cache.meta = Some(latest.of.revision) /\ view = Some(latest.of.targets)
        /\ \A k \in Kinds : planned[k] = Some(OfKind(latest.of.targets, k))
    /\ dpc = "idle" /\ dhealth.failed = {} =>
        \A c \in round.wrote :
            exported[c] = Some([revision |-> latest.of.revision, rows |-> {i \in latest.of.resources : ClassOf[i] = c}])

\* A run's cursor never passes an entry of the kernel log that was not sent for that run,
\* unless the entry left the journal first or the window of a run without a cursor: failed
\* sends, stalls, crashes, other runs of the same exporter and damaged cursors lose nothing
\* (daemon_telemetry.rs process_exporters: the cursor moves only after the records are out).
EntriesKept ==
    part = "send" =>
        \A r \in Runs : cursors[r] > 0 => 1..cursors[r] \subseteq sent[r] \cup passed[r]

\* As long as no report is lost and the daemon is not restarted, the inputs the control plane
\* holds for paused are those the last tick found paused, however many ticks passed between
\* two reports and whatever the gate, the grants and the files did in between
\* (daemon_runtime_state.rs work_state_changes sends differences only).
WorkStateTold ==
    part = "tell" /\ ~unheard /\ pending = <<>> => told = previousPaused

\* One tick tells a problem of an input once, however many batches the catch-up ran, and a
\* tick that leaves records in the spool of an input it ran is never shown as idle
\* (daemon_telemetry.rs process_telemetry_input, TelemetryTick::is_active).
TickTold ==
    /\ part = "tell" => \A j, k \in DOMAIN fails : fails[j] = fails[k] => j = k
    /\ npc = "input" /\ nat > Len(InputOrder) =>
        IsActive(fails, worked) \/ \A i \in works \ Unsupported : spool[i] = 0

Settled ==
    /\ view = Some(onHost) /\ Readable(runtime)
    /\ \A k \in Kinds : runtime.of[k].attempted = Cardinality(OfKind(onHost, k)) /\ runtime.of[k].failed = 0
    /\ \A c \in Classes : {i \in onHost : ClassOf[i] = c} # {} => Readable(exported[c]) /\ exported[c].of.rows = {i \in onHost : ClassOf[i] = c}

\* Once the host and the disk are quiet, the target view, the metrics snapshot and the
\* exported files come to tell of the host as it is, whatever policy table the gateway
\* answered with (policy.rs evaluate keeps the intervals within bounds).
ViewSettles == part = "discover" => <>[](dpc = "idle" => Settled)

\* All entries get sent, or lost to the run as EntriesKept allows, once the tool is there: a
\* cursor whose entry is gone does not make every run time out for good
\* (exporters.rs should_reset_cursor).
EntriesSent ==
    (part = "send" /\ tool) ~> (part = "send" /\ \A r \in Runs : 1..journal \subseteq sent[r] \cup passed[r])

\* The output is not shown as failing for good: the records that failed are sent in the end
\* and that is noticed, unless the output is switched off or cannot be built, or the input
\* they belong to was withdrawn (UplinkHealth::note_tick).
RecoveryTold ==
    (part = "tell" /\ UplinkState.failing)
        ~> (part = "tell" /\ (\/ ~UplinkState.failing \/ ~UplinkState.enabled \/ ~Buildable
                              \/ \E i \in Inputs \ works : spool[i] > 0))

\* The three parts of the data plane settle: discovery tells of the host as it is, exporters
\* get their entries out, and a failing output is seen to recover.
PlaneSettles == ViewSettles /\ EntriesSent /\ RecoveryTold
=============================================================================
