------------------------------ MODULE Upgrade ------------------------------
(***************************************************************************)
(* The upgrade of wist-agentd by a one-shot work of the gateway: agentd    *)
(* takes the work from the grant, launches wist-upgrader as a detached     *)
(* process, and learns from upgrade.json and the heartbeat file how it     *)
(* went; the upgrader swaps the binaries of the installation, restarts     *)
(* agentd in the middle of whatever it is doing, and rolls back when the   *)
(* new version does not come up.                                           *)
(*                                                                         *)
(* Binaries are 1..NBins in the order install_binaries takes them (sorted  *)
(* by name): 1 is wist-agentd, the others are its companions.  The content *)
(* of a binary is its version, 0 where there is no file.                   *)
(***************************************************************************)
EXTENDS Naturals, FiniteSets

CONSTANTS
  Work,          \* one-shot works with action "upgrade"
  NoWork,
  Torn,          \* content of a file whose copy was cut short
  NBins,         \* binaries of a full package
  Installed,     \* Installed[b]: version at the start, 0: not installed
  PkgVersion,    \* PkgVersion[w]: the version the packaged agentd reports
  PkgShape,      \* PkgShape[w]: "full", "bare" (agentd only) or "odd"
  Target,        \* Target[w]: explicit target_version of the spec, 0: none
  Downgrade,     \* Downgrade[w]: allow_downgrade
  Broken,        \* versions whose agentd never comes up
  Units,         \* TRUE: upgraders run as systemd units named by the work
  MaxLaunches,   \* bound: upgrader processes
  MaxCrashes,    \* bound: agentd crashes
  MaxWipes,      \* bound: times agentd goes away with a dispatch it has not stored
  MaxDeaths,     \* bound: upgraders killed
  MaxLost,       \* bound: requests or answers to the gateway that get lost
  MaxFaults      \* bound: failed commands, copies, downloads and writes

Versions == {Installed[b] : b \in 1..NBins} \cup {PkgVersion[w] : w \in Work}
Content == Versions \cup {0, Torn}

ASSUME UpgradeAssumption ==
  /\ NoWork \notin Work /\ Torn \notin Nat
  /\ NBins \in Nat \ {0}
  /\ Installed \in [1..NBins -> Nat] /\ Installed[1] # 0
  /\ PkgVersion \in [Work -> Nat \ {0}]
  /\ PkgShape \in [Work -> {"full", "bare", "odd"}]
  /\ Target \in [Work -> Nat]
  /\ Downgrade \in [Work -> BOOLEAN]
  /\ Broken \subseteq Nat /\ Installed[1] \notin Broken
  /\ Units \in BOOLEAN
  /\ MaxLaunches \in Nat /\ MaxCrashes \in Nat /\ MaxWipes \in Nat /\ MaxDeaths \in Nat
  /\ MaxLost \in Nat /\ MaxFaults \in Nat

VARIABLES
  \* the gateway
  verdict,   \* verdict[w]: "none", "open", "running", "succeeded", "failed", "withdrawn"
  seq,       \* sequence of its grant
  \* files
  wexe,      \* work.json: one_shot[].execution
  wseq,      \* work.json: gateway_sequence, 0: no file
  rec,       \* upgrade.json: work and status
  beat,      \* upgrade.heartbeat is younger than UPGRADER_DEAD_AFTER
  rtv,       \* agent_runtime.json: version
  bins,      \* bin_dir/<name>
  baks,      \* baks[b][v]: bin_dir/<name>.bak-<v>
  \* agentd
  pc,        \* where its refresh_work_grant is
  ver,       \* the version that runs
  exe,       \* AppliedWorkGrant.one_shot_execution
  aseq,      \* AppliedWorkGrant.sequence
  todo,      \* one_shot_to_dispatch not visited yet
  say,       \* the message about to be sent to the gateway
  dirty,     \* changed, dispatched_anything or progressed
  \* upgrader processes
  up, launches,
  \* bounds and bookkeeping
  crashes, deaths, lost, faults,
  forgot,    \* works in flight when agentd went away, of which work.json knew nothing
  wipes      \* how often that happened

gateway == <<verdict, seq>>
view    == <<wexe, wseq>>
machine == <<rtv, bins, baks>>
agentd  == <<pc, ver, exe, aseq, todo, say, dirty>>
bounds  == <<crashes, deaths, lost, faults>>
wiped   == <<forgot, wipes>>
vars    == <<gateway, view, rec, beat, machine, agentd, up, launches, bounds, wiped>>

-----------------------------------------------------------------------------
Executions == {"none", "unexecuted", "dispatched", "running", "succeeded",
               "failed", "rolled_back", "rejected"}
Bin == 1..NBins
Slot == 1..MaxLaunches

\* Mutant: a work that was only handed out is not in flight yet.
RunningInFlight(x) == x = "running"

\* is_one_shot_execution_in_flight, has_upgrade_in_flight
ExecutionInFlight(x) == x \in {"dispatched", "running"}
UpgradeInFlight == \E w \in Work : ExecutionInFlight(exe[w])

Terminal(s) == s \in {"succeeded", "failed", "rolled_back"}
Outstanding == {w \in Work : verdict[w] \in {"open", "running"}}

Process == [pc : {"none", "start", "fetch", "verify_digest", "stage", "verify_artifact",
                  "copy", "copying", "swap", "restart", "wait_ready", "undo", "again",
                  "finish", "gone"},
            work : Work \cup {NoWork}, from : Nat, k : Nat, m : Nat,
            before : [Bin -> Content], why : {"none", "install", "restart"},
            status : {"running", "succeeded", "failed", "rolled_back"}]
NoProcess == [pc |-> "none", work |-> NoWork, from |-> 0, k |-> 0, m |-> 0,
              before |-> [b \in Bin |-> 0], why |-> "none", status |-> "running"]

Live(i) == up[i].pc \notin {"none", "gone"}

NoSay == [work |-> NoWork, local |-> "none"]

Init ==
  /\ verdict = [w \in Work |-> "none"] /\ seq = 1
  /\ wexe = [w \in Work |-> "none"] /\ wseq = 0
  /\ rec = [work |-> NoWork, status |-> "running"] /\ beat = FALSE
  /\ bins = Installed /\ rtv = Installed[1]
  /\ baks = [b \in Bin |-> [v \in Versions |-> 0]]
  /\ pc = "idle" /\ ver = Installed[1]
  /\ exe = [w \in Work |-> "none"] /\ aseq = 0
  /\ todo = {} /\ say = NoSay /\ dirty = FALSE
  /\ up = [i \in Slot |-> NoProcess] /\ launches = 0
  /\ crashes = 0 /\ deaths = 0 /\ lost = 0 /\ faults = 0
  /\ forgot = {} /\ wipes = 0

Fault == faults < MaxFaults /\ faults' = faults + 1

-----------------------------------------------------------------------------
(* The gateway, external: it grants a work, withdraws it (or lets it       *)
(* expire), and closes it on the first terminal result; later results are  *)
(* answered "stale".  Whether closing moves the sequence is its business.  *)

Grant(w) ==
  /\ verdict[w] = "none"
  /\ verdict' = [verdict EXCEPT ![w] = "open"]
  /\ seq' = seq + 1
  /\ UNCHANGED <<view, rec, beat, machine, agentd, up, launches, bounds, wiped>>

Withdraw(w) ==
  /\ w \in Outstanding
  /\ verdict' = [verdict EXCEPT ![w] = "withdrawn"]
  /\ seq' = seq + 1
  /\ UNCHANGED <<view, rec, beat, machine, agentd, up, launches, bounds, wiped>>

GatewayTakes(w, status) ==
  IF w \in Outstanding
  THEN /\ verdict' = [verdict EXCEPT ![w] = status]
       /\ seq' \in IF Terminal(status) THEN {seq, seq + 1} ELSE {seq}
  ELSE UNCHANGED gateway

\* Mutant: a rollback is reported as it is recorded.
ResultAsRecorded(local) == local

\* work_result_of: what the gateway is told for a local status.
ResultOf(local) == IF local = "rolled_back" THEN "failed" ELSE local

\* report_work_result returned false: the request or its answer was lost.
ReportLost(w, status) ==
  /\ lost < MaxLost /\ lost' = lost + 1
  /\ GatewayTakes(w, status) \/ UNCHANGED gateway

-----------------------------------------------------------------------------
(* agentd: refresh_work_grant, one action per await or write.  A fetch     *)
(* that fails, or is throttled, returns without a change.                  *)

\* AppliedWorkGrant::apply: every work of the snapshot has an entry; one that
\* left the snapshot keeps its entry only while it is in flight.
ApplyGrant(x) ==
  [w \in Work |-> IF w \in Outstanding
                  THEN (IF x[w] = "none" THEN "unexecuted" ELSE x[w])
                  ELSE (IF ExecutionInFlight(x[w]) THEN x[w] ELSE "none")]

FetchGrant ==
  /\ pc = "idle"
  /\ exe' = ApplyGrant(exe)
  /\ todo' = {w \in Outstanding : exe'[w] = "unexecuted"}
  /\ aseq' = seq /\ dirty' = (seq # aseq)
  /\ pc' = "dispatch"
  /\ UNCHANGED <<gateway, view, rec, beat, machine, ver, say, up, launches, bounds, wiped>>

UpgradeBusy(w) ==
  /\ pc = "dispatch" /\ w \in todo
  /\ UpgradeInFlight
  /\ todo' = todo \ {w}
  /\ UNCHANGED <<gateway, view, rec, beat, machine, pc, ver, exe, aseq, say, dirty,
                 up, launches, bounds, wiped>>

\* Mutant: a fresh unit name for every launch.
NameNeverTaken(w) == FALSE

\* systemd-run refuses a unit name that is in use.
NameTaken(w) == Units /\ \E i \in Slot : Live(i) /\ up[i].work = w

\* The request becomes the upgrader's command line; upgrade_request_for takes
\* the running version as the current one.
UpgraderFor(w) == [NoProcess EXCEPT !.pc = "start", !.work = w, !.from = ver]

\* build_launch and launch_detached: the process is started and not waited for.
SpawnUpgrader(w) ==
  /\ launches < MaxLaunches
  /\ launches' = launches + 1
  /\ up' = [up EXCEPT ![launches'] = UpgraderFor(w)]

DispatchUpgrade(w) ==
  /\ pc = "dispatch" /\ w \in todo
  /\ ~ UpgradeInFlight /\ ~ NameTaken(w)
  /\ SpawnUpgrader(w)
  /\ exe' = [exe EXCEPT ![w] = "dispatched"]
  /\ todo' = todo \ {w}
  /\ say' = [work |-> w, local |-> "dispatched"]
  /\ pc' = "ack"
  /\ UNCHANGED <<gateway, view, rec, beat, machine, ver, aseq, dirty, bounds, wiped>>

\* ack_work: only an accepted dispatch is a reason to store the view; the
\* gateway does not accept one of a work it has closed.
AckWork ==
  /\ pc = "ack"
  /\ \/ dirty' = (dirty \/ say.work \in Outstanding) /\ UNCHANGED bounds
     \/ /\ lost < MaxLost /\ lost' = lost + 1
        /\ UNCHANGED <<dirty, crashes, deaths, faults>>
  /\ say' = NoSay /\ pc' = "dispatch"
  /\ UNCHANGED <<gateway, view, rec, beat, machine, ver, exe, aseq, todo, up, launches, wiped>>

\* The upgrader could not be started: unreadable spec, no such program, or
\* systemd-run said no.
DispatchRefused(w) ==
  /\ pc = "dispatch" /\ w \in todo
  /\ ~ UpgradeInFlight
  /\ \/ NameTaken(w) /\ UNCHANGED faults
     \/ Fault
  /\ exe' = [exe EXCEPT ![w] = "rejected"]
  /\ todo' = todo \ {w}
  /\ say' = [work |-> w, local |-> "failed"]
  /\ pc' = "tell"
  /\ UNCHANGED <<gateway, view, rec, beat, machine, ver, aseq, dirty, up, launches,
                 crashes, deaths, lost, wiped>>

TellRejected ==
  /\ pc = "tell"
  /\ \/ GatewayTakes(say.work, "failed") /\ UNCHANGED bounds
     \/ ReportLost(say.work, "failed") /\ UNCHANGED <<crashes, deaths, faults>>
  /\ say' = NoSay /\ pc' = "dispatch"
  /\ UNCHANGED <<view, rec, beat, machine, ver, exe, aseq, todo, dirty, up, launches, wiped>>

\* reconcile_upgrade_record: running without a fresh heartbeat is dead.
LocalStatus == IF rec.status = "running" /\ ~ beat THEN "failed" ELSE rec.status

\* Mutant: the record is taken for that of the work in flight.
ReconcileAnyRecord ==
  /\ pc = "dispatch" /\ todo = {}
  /\ \/ /\ rec.work # NoWork
        /\ \E w \in Work : /\ ExecutionInFlight(exe[w]) /\ exe[w] # LocalStatus
                          /\ say' = [work |-> w, local |-> LocalStatus] /\ pc' = "report"
     \/ ~ UpgradeInFlight /\ say' = NoSay /\ pc' = "store"
  /\ UNCHANGED <<gateway, view, rec, beat, machine, ver, exe, aseq, todo, dirty,
                 up, launches, bounds, wiped>>

ReconcileRecord ==
  /\ pc = "dispatch" /\ todo = {}
  /\ IF /\ rec.work # NoWork
        /\ exe[rec.work] \notin {"none", LocalStatus}
     THEN say' = [work |-> rec.work, local |-> LocalStatus] /\ pc' = "report"
     ELSE say' = NoSay /\ pc' = "store"
  /\ UNCHANGED <<gateway, view, rec, beat, machine, ver, exe, aseq, todo, dirty,
                 up, launches, bounds, wiped>>

\* Mutant: the local view moves on although the report did not get through.
ReportThenMark ==
  /\ pc = "report"
  /\ \/ GatewayTakes(say.work, ResultOf(say.local)) /\ UNCHANGED bounds
     \/ ReportLost(say.work, ResultOf(say.local)) /\ UNCHANGED <<crashes, deaths, faults>>
  /\ exe' = [exe EXCEPT ![say.work] = say.local] /\ dirty' = TRUE
  /\ say' = NoSay /\ pc' = "store"
  /\ UNCHANGED <<view, rec, beat, machine, ver, aseq, todo, up, launches, wiped>>

\* Mutant: a "stale" or "unknown" answer counts as a report that failed.
ReportAcceptedOnly ==
  /\ pc = "report"
  /\ GatewayTakes(say.work, ResultOf(say.local))
  /\ IF say.work \in Outstanding
     THEN exe' = [exe EXCEPT ![say.work] = say.local] /\ dirty' = TRUE
     ELSE UNCHANGED <<exe, dirty>>
  /\ say' = NoSay /\ pc' = "store"
  /\ UNCHANGED <<view, rec, beat, machine, ver, aseq, todo, up, launches, bounds, wiped>>

\* The gateway first, then the local view.
ReportResult ==
  /\ pc = "report"
  /\ \/ /\ GatewayTakes(say.work, ResultOf(say.local))
        /\ exe' = [exe EXCEPT ![say.work] = say.local] /\ dirty' = TRUE
        /\ UNCHANGED bounds
     \/ /\ ReportLost(say.work, ResultOf(say.local))
        /\ UNCHANGED <<exe, dirty, crashes, deaths, faults>>
  /\ say' = NoSay /\ pc' = "store"
  /\ UNCHANGED <<view, rec, beat, machine, ver, aseq, todo, up, launches, wiped>>

\* work::store_async; a failed write is only logged.
StoreView ==
  /\ pc = "store"
  /\ \/ /\ IF dirty THEN wexe' = exe /\ wseq' = aseq ELSE UNCHANGED view
        /\ UNCHANGED bounds
     \/ dirty /\ Fault /\ UNCHANGED <<view, crashes, deaths, lost>>
  /\ dirty' = FALSE /\ pc' = "idle"
  /\ UNCHANGED <<gateway, rec, beat, machine, ver, exe, aseq, todo, say, up, launches, wiped>>

Unstored == {w \in Work : ExecutionInFlight(exe[w]) /\ ~ ExecutionInFlight(wexe[w])}

\* The process is gone and with it everything it had in memory.
AgentdGone ==
  /\ pc' = "down" /\ ver' = 0
  /\ exe' = [w \in Work |-> "none"] /\ aseq' = 0
  /\ todo' = {} /\ say' = NoSay /\ dirty' = FALSE
  /\ forgot' = forgot \cup Unstored
  /\ IF Unstored = {} THEN UNCHANGED wipes ELSE wipes < MaxWipes /\ wipes' = wipes + 1

AgentdCrashes ==
  /\ pc # "down" /\ crashes < MaxCrashes /\ crashes' = crashes + 1
  /\ AgentdGone
  /\ UNCHANGED <<gateway, view, rec, beat, machine, up, launches, deaths, lost, faults>>

\* AppliedWorkGrant::restore from work.json, or the default without one.
RestoreView == exe' = wexe /\ aseq' = wseq

\* The service manager starts what is installed; initialize_runtime_state
\* writes the version.
AgentdStarts ==
  /\ pc = "down"
  /\ bins[1] \notin {0, Torn} \cup Broken
  /\ ver' = bins[1] /\ rtv' = bins[1]
  /\ RestoreView
  /\ pc' = "idle"
  /\ UNCHANGED <<gateway, view, rec, beat, bins, baks, todo, say, dirty, up, launches, bounds, wiped>>

-----------------------------------------------------------------------------
(* wist-upgrader: apply and apply_inner                                    *)

Goes(i, p) == up' = [up EXCEPT ![i].pc = p]
Ends(i, p, status) == up' = [up EXCEPT ![i].pc = p, ![i].status = status]

\* store_record; a failed write is ignored.
StoreRecord(i, status) ==
  \/ rec' = [work |-> up[i].work, status |-> status] /\ UNCHANGED faults
  \/ Fault /\ UNCHANGED rec

Newer(w, v, from) == Downgrade[w] \/ v > from

\* validate_request
RequestValid(w, from) == Target[w] # 0 => Newer(w, Target[w], from)

\* Mutant: only the shape of the artifact is looked at, not the machine.
AnyShapeFits(w) == PkgShape[w] # "odd"

\* check_upgrade_keeps_bin_directory_consistent: the package brings all
\* binaries, or only agentd where nothing else is installed.
KeepsBinDirectoryConsistent(w) ==
  \/ PkgShape[w] = "full"
  \/ PkgShape[w] = "bare" /\ \A b \in Bin \ {1} : bins[b] = 0

\* resolve_target_version: the version the package
\* reports decides; an explicit target has to agree with it.
TargetResolved(w, from) ==
  Target[w] \in {0, PkgVersion[w]} /\ Newer(w, PkgVersion[w], from)

\* spawn_heartbeat and validate_request, then the first record.
UpgraderStarts(i) ==
  /\ up[i].pc = "start"
  /\ beat' = TRUE
  /\ IF RequestValid(up[i].work, up[i].from)
     THEN StoreRecord(i, "running") /\ Goes(i, "fetch")
     ELSE Ends(i, "finish", "failed") /\ UNCHANGED <<rec, faults>>
  /\ UNCHANGED <<gateway, view, machine, agentd, launches, crashes, deaths, lost, wiped>>

\* A step of apply_inner that installs nothing: it stores the record of the
\* next one, or its failure ends the upgrade.
ReadOnlyStep(i, here, next) ==
  /\ up[i].pc = here
  /\ \/ StoreRecord(i, "running") /\ Goes(i, next)
     \/ Fault /\ Ends(i, "finish", "failed") /\ UNCHANGED rec
  /\ UNCHANGED <<gateway, view, beat, machine, agentd, launches, crashes, deaths, lost, wiped>>

\* fetch_package: from the gateway, or a local file; too large or unavailable.
FetchesPackage(i) == ReadOnlyStep(i, "fetch", "verify_digest")

VerifiesDigest(i) == ReadOnlyStep(i, "verify_digest", "stage")

\* stage_package: clear the staging directory, write and unpack the archive.
StagesPackage(i) == ReadOnlyStep(i, "stage", "verify_artifact")

\* verify_staged_agentd: the packaged agentd does not run, or reports no version.
ArtifactUnusable(i) ==
  /\ up[i].pc = "verify_artifact"
  /\ Fault /\ Ends(i, "finish", "failed")
  /\ UNCHANGED <<gateway, view, rec, beat, machine, agentd, launches, crashes, deaths, lost, wiped>>

VerifiesArtifact(i) ==
  /\ up[i].pc = "verify_artifact"
  /\ IF /\ TargetResolved(up[i].work, up[i].from)
        /\ KeepsBinDirectoryConsistent(up[i].work)
     THEN /\ StoreRecord(i, "running")
          /\ up' = [up EXCEPT ![i].pc = "copy", ![i].k = 1]
     ELSE Ends(i, "finish", "failed") /\ UNCHANGED <<rec, faults>>
  /\ UNCHANGED <<gateway, view, beat, machine, agentd, launches, crashes, deaths, lost, wiped>>

(* install_binaries, one binary after the other: back up what is there     *)
(* unless this version has a backup already, then install and mv.          *)

Staged(w) == IF PkgShape[w] = "full" THEN NBins ELSE 1

\* std::fs::copy writes the backup in place; until it is done the file is torn.
BacksUp(i) ==
  LET p == up[i] IN
  /\ p.pc = "copy"
  /\ IF bins[p.k] # 0 /\ baks[p.k][p.from] = 0
     THEN /\ baks' = [baks EXCEPT ![p.k][p.from] = Torn]
          /\ up' = [up EXCEPT ![i].pc = "copying", ![i].before[p.k] = bins[p.k]]
     ELSE /\ UNCHANGED baks
          /\ up' = [up EXCEPT ![i].pc = "swap", ![i].before[p.k] = bins[p.k]]
  /\ UNCHANGED <<gateway, view, rec, beat, rtv, bins, agentd, launches, bounds, wiped>>

BackedUp(i) ==
  LET p == up[i] IN
  /\ p.pc = "copying"
  /\ baks' = [baks EXCEPT ![p.k][p.from] = bins[p.k]]
  /\ Goes(i, "swap")
  /\ UNCHANGED <<gateway, view, rec, beat, rtv, bins, agentd, launches, bounds, wiped>>

Swaps(i) ==
  LET p == up[i] IN
  /\ p.pc = "swap"
  /\ bins' = [bins EXCEPT ![p.k] = PkgVersion[p.work]]
  /\ IF p.k < Staged(p.work)
     THEN up' = [up EXCEPT ![i].pc = "copy", ![i].k = p.k + 1] /\ UNCHANGED <<rec, faults>>
     ELSE up' = [up EXCEPT ![i].pc = "restart"] /\ StoreRecord(i, "running")
  /\ UNCHANGED <<gateway, view, beat, rtv, baks, agentd, launches, crashes, deaths, lost, wiped>>

\* restore_backups of the first m binaries, then (after a restart was tried)
\* run_restart once more.
RollsBack(i, m, why) ==
  up' = [up EXCEPT ![i].pc = "undo", ![i].k = 1, ![i].m = m, ![i].why = why]

InstallFails(i) ==
  LET p == up[i] IN
  /\ p.pc \in {"copying", "swap"}
  /\ Fault
  /\ RollsBack(i, p.k - 1, "install")
  /\ UNCHANGED <<gateway, view, rec, beat, machine, agentd, launches, crashes, deaths, lost, wiped>>

\* Mutant: the restart that fails leaves the new binaries in place.
RestartFailsKeeps(i) ==
  /\ up[i].pc = "restart"
  /\ \/ AgentdGone /\ Goes(i, "wait_ready") /\ StoreRecord(i, "running")
     \/ Fault /\ Ends(i, "finish", "rolled_back") /\ UNCHANGED <<agentd, rec, wiped>>
  /\ UNCHANGED <<gateway, view, beat, machine, launches, crashes, deaths, lost>>

\* run_restart: agentd is killed wherever it is; a restart that fails may
\* have stopped it all the same.
Restarts(i) ==
  LET p == up[i] IN
  /\ p.pc = "restart"
  /\ \/ AgentdGone /\ Goes(i, "wait_ready") /\ StoreRecord(i, "running")
     \/ /\ Fault /\ RollsBack(i, Staged(p.work), "restart") /\ UNCHANGED rec
        /\ AgentdGone \/ UNCHANGED <<agentd, wiped>>
  /\ UNCHANGED <<gateway, view, beat, machine, launches, crashes, deaths, lost>>

\* wait_for_version: agent_runtime.json shows the target version, or not
\* within ready_wait.
SeesVersion(i) == rtv = PkgVersion[up[i].work]

WaitsReady(i) ==
  LET p == up[i] IN
  /\ p.pc = "wait_ready"
  /\ IF SeesVersion(i)
     THEN Ends(i, "finish", "succeeded")
     ELSE RollsBack(i, Staged(p.work), "restart")
  /\ UNCHANGED <<gateway, view, rec, beat, machine, agentd, launches, bounds, wiped>>

\* What restore_backups puts in place of binary k.
Restored(i) ==
  LET p == up[i] IN IF p.before[p.k] = 0 THEN 0 ELSE baks[p.k][p.from]

AfterUndo(i, restored) ==
  IF up[i].why = "install"
  THEN Ends(i, "finish", "failed")
  ELSE Ends(i, "again", IF restored THEN "rolled_back" ELSE "failed")

RestoreMissing(i) == up[i].before[up[i].k] # 0 /\ baks[up[i].k][up[i].from] = 0

RestoresBackup(i) ==
  LET p == up[i] IN
  /\ p.pc = "undo" /\ p.k <= p.m
  /\ IF RestoreMissing(i)
     THEN AfterUndo(i, FALSE) /\ UNCHANGED <<bins, faults>>
     ELSE \/ /\ bins' = [bins EXCEPT ![p.k] = Restored(i)]
             /\ up' = [up EXCEPT ![i].k = p.k + 1]
             /\ UNCHANGED faults
          \/ Fault /\ AfterUndo(i, FALSE) /\ UNCHANGED bins
  /\ UNCHANGED <<gateway, view, rec, beat, rtv, baks, agentd, launches, crashes, deaths, lost, wiped>>

Restores(i) ==
  /\ up[i].pc = "undo" /\ up[i].k > up[i].m
  /\ AfterUndo(i, TRUE)
  /\ UNCHANGED <<gateway, view, rec, beat, machine, agentd, launches, bounds, wiped>>

\* The restart after a rollback; its failure only adds to the detail.
RestartsAgain(i) ==
  /\ up[i].pc = "again"
  /\ Goes(i, "finish")
  /\ \/ AgentdGone /\ UNCHANGED faults
     \/ Fault /\ (AgentdGone \/ UNCHANGED <<agentd, wiped>>)
  /\ UNCHANGED <<gateway, view, rec, beat, machine, launches, crashes, deaths, lost>>

Finishes(i) ==
  /\ up[i].pc = "finish"
  /\ StoreRecord(i, up[i].status)
  /\ Goes(i, "gone")
  /\ UNCHANGED <<gateway, view, beat, machine, agentd, launches, crashes, deaths, lost, wiped>>

\* Killed, crashed, or ended by an unreadable config before apply.
UpgraderDies(i) ==
  /\ Live(i) /\ deaths < MaxDeaths /\ deaths' = deaths + 1
  /\ Goes(i, "gone")
  /\ UNCHANGED <<gateway, view, rec, beat, machine, agentd, launches, crashes, lost, faults, wiped>>

\* UPGRADER_DEAD_AFTER passes without a beat; a process that started apply
\* beats from a task of its own whatever it is doing.
HeartbeatExpires ==
  /\ beat /\ \A i \in Slot : ~ Live(i) \/ up[i].pc = "start"
  /\ beat' = FALSE
  /\ UNCHANGED <<gateway, view, rec, machine, agentd, up, launches, bounds, wiped>>

-----------------------------------------------------------------------------
AgentdStep ==
  \/ FetchGrant \/ AckWork \/ TellRejected \/ ReconcileRecord \/ ReportResult
  \/ StoreView \/ AgentdStarts
  \/ \E w \in Work : UpgradeBusy(w) \/ DispatchUpgrade(w) \/ DispatchRefused(w)

UpgraderStep(i) ==
  \/ UpgraderStarts(i) \/ FetchesPackage(i) \/ VerifiesDigest(i) \/ StagesPackage(i)
  \/ VerifiesArtifact(i) \/ ArtifactUnusable(i)
  \/ BacksUp(i) \/ BackedUp(i) \/ Swaps(i) \/ InstallFails(i)
  \/ Restarts(i) \/ WaitsReady(i)
  \/ RestoresBackup(i) \/ Restores(i) \/ RestartsAgain(i) \/ Finishes(i)

Next ==
  \/ AgentdStep \/ AgentdCrashes \/ HeartbeatExpires
  \/ \E i \in Slot : UpgraderStep(i) \/ UpgraderDies(i)
  \/ \E w \in Work : Grant(w) \/ Withdraw(w)

Spec == Init /\ [][Next]_vars

-----------------------------------------------------------------------------
(* Properties *)

\* The files, the two processes' memories and the gateway hold the values
\* the code can give them.
TypeOK ==
  /\ verdict \in [Work -> {"none", "open", "running", "succeeded", "failed", "withdrawn"}]
  /\ seq \in Nat /\ wseq \in Nat /\ aseq \in Nat
  /\ wexe \in [Work -> Executions] /\ exe \in [Work -> Executions]
  /\ rec \in [work : Work \cup {NoWork}, status : {"running", "succeeded", "failed", "rolled_back"}]
  /\ beat \in BOOLEAN /\ dirty \in BOOLEAN
  /\ rtv \in Versions /\ ver \in Versions \cup {0}
  /\ bins \in [Bin -> Content] /\ baks \in [Bin -> [Versions -> Content]]
  /\ pc \in {"down", "idle", "dispatch", "ack", "tell", "report", "store"}
  /\ todo \subseteq Work
  /\ say \in [work : Work \cup {NoWork}, local : Executions]
  /\ up \in [Slot -> Process] /\ launches \in 0..MaxLaunches
  /\ crashes \in 0..MaxCrashes /\ deaths \in 0..MaxDeaths
  /\ lost \in 0..MaxLost /\ faults \in 0..MaxFaults
  /\ forgot \subseteq Work /\ wipes \in 0..MaxWipes

\* At most one upgrader at a time (two would swap the same binaries), but for a
\* dispatch that agentd's restart wiped out before work.json was stored; and
\* then never two of one work, for the unit is named after the work
\* (has_upgrade_in_flight, upgrader_unit_name).
OneUpgrader ==
  \A i, j \in Slot : i # j /\ Live(i) /\ Live(j) =>
    /\ up[i].work # up[j].work
    /\ up[i].work \in forgot \/ up[j].work \in forgot

\* An upgrade that ends "succeeded" has replaced every binary that is installed
\* and has seen the new agentd; after "rolled_back" nothing of the refused
\* package stays installed, unless it was there before: the machine is never
\* left with a mix of two versions and a verdict (install_binaries,
\* restore_backups, apply).
EndsWhole ==
  [][\A i \in Slot : forgot = {} =>
       /\ up[i].pc = "wait_ready" /\ up'[i].status = "succeeded" =>
            /\ rtv = PkgVersion[up[i].work]
            /\ \A b \in Bin : bins[b] \in {0, PkgVersion[up[i].work]}
       /\ up[i].status # "rolled_back" /\ up'[i].status = "rolled_back" =>
            \A b \in Bin : bins[b] = PkgVersion[up[i].work] => up[i].before[b] = bins[b]]_vars

\* What the gateway was told last is what the upgrader recorded.
VerdictIsTrue ==
  \A w \in Work \ forgot :
    /\ verdict[w] = "succeeded" => \E i \in Slot : up[i].work = w /\ up[i].status = "succeeded"
    /\ verdict[w] = "failed" => rec # [work |-> w, status |-> "succeeded"]

\* The lock of has_upgrade_in_flight is released by every upgrader that runs to
\* its end, and every work the gateway grants gets its verdict, unless it is
\* withdrawn: a result is reported until it gets through
\* (reconcile_upgrade_record).
UpgradeSettles ==
  /\ UpgradeInFlight ~> ~ UpgradeInFlight
  /\ \A w \in Work : verdict[w] = "open" ~> verdict[w] \in {"succeeded", "failed", "withdrawn"}
=============================================================================
