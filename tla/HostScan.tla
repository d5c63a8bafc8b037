------------------------------ MODULE HostScan ------------------------------
(***************************************************************************)
(* Three more investigations, each a pass over sources that may be denied  *)
(* or absent: what starts by itself (investigate_persistence.rs), who may  *)
(* connect (investigate_exposure.rs), and whether the agent still sees its *)
(* logs (investigate_telemetry.rs).                                        *)
(***************************************************************************)
EXTENDS Investigate, SequencesExt

CONSTANTS
    PersistenceHosts, ExposureHosts, TelemetryHosts,  \* hosts per topic
    RecentDays,       \* RECENT_DAYS
    MaxFds,           \* MAX_FDS
    SilenceWarn, SilenceFail,  \* seconds of silence
    SpoolMax,         \* telemetry.logs.spool_max_bytes
    HostTop           \* request.top

\* Silence warns before it fails, and a full spool is not an empty one; ages and sizes are numbers.
ASSUME HostAssumption ==
    /\ SilenceWarn \in Nat /\ SilenceFail \in Nat /\ SilenceWarn <= SilenceFail /\ SpoolMax \in Nat \ {0}
    /\ \A f \in TelemetryHosts : \A i \in f.inputs : i.age \in Int /\ i.spool \in Int
    /\ \A f \in PersistenceHosts : f.preload.libs \in Nat

VARIABLES
    hpc,       \* section being worked on
    htopic,    \* "persistence" | "exposure" | "telemetry-health"
    hfacts,    \* the host
    recent,    \* items changed within RecentDays: section and label
    hostFindings

hostVars == <<hpc, htopic, hfacts, recent, hostFindings>>

IsRecent(days) == days # -1 /\ days <= RecentDays

TallyAll(states) == FoldSet(LAMBDA s, t : TallyRead(t, s.state), NoTally, states)

-----------------------------------------------------------------------------
(* Units, scheduled jobs, hooks.                                           *)

\* Units linked from a wants or requires directory that can be listed.
EnabledUnits(f) == {u \in f.units : u.targets \ f.deniedTargets # {}}

\* A unit that lies in the directory but is wanted by nobody; links to
\* /dev/null forbid it, other links and directories say nothing.
LooseUnits(f) == {u \in f.units \ EnabledUnits(f) : u.fragment = "file"}
MaskedUnits(f) == {u \in EnabledUnits(f) : u.link = "devnull"} \cup {u \in f.units : u.fragment = "devnull"}

RecentUnits(f) ==
    {[section |-> "units", label |-> u.name] :
        u \in {v \in EnabledUnits(f) : IsRecent(v.linkDays)} \cup {v \in LooseUnits(f) : IsRecent(v.fileDays)}}

\* A directory that is not there has no units; one that is denied is unknown.
UnitsFinding(f) ==
    LET tally == TallyAll({[state |-> f.unitsDir, of |-> "dir"]} \cup {[state |-> "denied", of |-> t] : t \in f.deniedTargets})
        rows == Cardinality(EnabledUnits(f) \cup LooseUnits(f) \cup MaskedUnits(f))
    IN  CASE f.unitsDir = "absent" -> Finding("units", "ok", 0)
          [] f.unitsDir = "denied" -> Covered(Finding("units", "unknown", 0), tally, HostTop)
          [] OTHER -> Covered(Finding("units", IF RecentUnits(f) # {} THEN "warn" ELSE "ok", rows), tally, HostTop)

\* scan_cron_text: comments and assignments are no jobs.
Jobs(lines) == {i \in DOMAIN lines : lines[i] \in {"job", "download"}}

CronFiles(f) == f.cronFiles \cup UNION {{c \in d.files : c.plain} : d \in {x \in f.cronDirs : x.state = "ok"}}
ReadCron(f) == {c \in CronFiles(f) : c.state = "ok"}
PeriodicScripts(f) == UNION {{s \in d.files : s.plain} : d \in {x \in f.periodicDirs : x.state = "ok"}}

Downloads(f) == {c \in ReadCron(f) : "download" \in ToSet(c.lines)}

RecentJobs(f) ==
    {[section |-> "scheduled", label |-> c.name] : c \in {x \in ReadCron(f) : Jobs(x.lines) # {} /\ IsRecent(x.days)}}
    \cup {[section |-> "scheduled", label |-> s.name] : s \in {x \in PeriodicScripts(f) : IsRecent(x.days)}}

\* What was denied is counted but does not change the status.
ScheduledFinding(f) ==
    LET rows == FoldSet(LAMBDA c, n : n + Cardinality(Jobs(c.lines)), Cardinality(PeriodicScripts(f)), ReadCron(f))
    IN  Covered(Finding("scheduled", IF Downloads(f) # {} THEN "warn" ELSE "ok", rows),
                TallyAll(CronFiles(f) \cup f.cronDirs \cup f.periodicDirs), HostTop)

\* Libraries every process loads; a file that cannot be read counts as empty.
PreloadLibs(f) == IF f.preload.state = "ok" THEN f.preload.libs ELSE 0

RecentHooks(f) ==
    {[section |-> "hooks", label |-> h] :
        h \in (IF PreloadLibs(f) > 0 /\ IsRecent(f.preload.days) THEN {"ld.so.preload"} ELSE {})
              \cup (IF f.rcLocal.state # "absent" /\ IsRecent(f.rcLocal.days) THEN {"rc.local"} ELSE {})
              \cup (IF f.profile.state = "ok" THEN {s.name : s \in {x \in f.profile.files : IsRecent(x.days)}} ELSE {})}

\* worse: failure over warning over ok.
HooksFinding(f) ==
    LET status == CASE PreloadLibs(f) > 0 -> "fail"
                    [] PreloadLibs(f) = 0 /\ RecentHooks(f) # {} -> "warn"
                    [] OTHER -> "ok"
        rows == (IF PreloadLibs(f) > HostTop THEN HostTop ELSE PreloadLibs(f))
                + (IF f.rcLocal.state # "absent" THEN 1 ELSE 0)
                + (IF f.profile.state = "ok" /\ f.profile.files # {} THEN 1 ELSE 0)
        sources == {f.profile} \cup (IF f.preload.state # "absent" THEN {f.preload} ELSE {})
    IN  Covered(Finding("hooks", status, rows), TallyAll(sources), HostTop)

RecentFinding(items) ==
    Covered(Finding("recent", IF items = {} THEN "ok" ELSE "warn", Cardinality(items)), NoTally, HostTop)

-----------------------------------------------------------------------------
(* Listening sockets.                                                      *)

\* parse_proc_net: only TCP has a listening state.
Listening(f) == {s \in f.sockets : f.tables[s.proto] = "ok" /\ (s.proto \in {"tcp", "tcp6"} => s.listening)}

\* Descriptors are looked at until the budget ends; the rest has no owner.
SocketOwners(f) ==
    LET n == IF Len(f.fds) > MaxFds THEN MaxFds ELSE Len(f.fds)
    IN  [owned |-> {f.fds[i].inode : i \in 1..n}, truncated |-> n < Len(f.fds)]

\* Sockets of one address, port and user are one row; inode 0 belongs to nobody.
ListenerRows(f) == {[proto |-> s.proto, addr |-> s.addr, port |-> s.port, uid |-> s.uid] : s \in {x \in Listening(f) : x.inode # 0}}

ListenersFinding(f) ==
    LET unreadable == {p \in DOMAIN f.tables : f.tables[p] # "ok"}
        tally == TallyAll({[state |-> f.tables[p], of |-> p] : p \in DOMAIN f.tables})
        coverage == [tally EXCEPT !.denied = IF f.root THEN 0 ELSE 1]
        limits == {"snapshot", "netns"}
                  \cup (IF f.root THEN {} ELSE {"not root"})
                  \cup (IF f.root /\ SocketOwners(f).truncated THEN {"fd budget"} ELSE {})
                  \cup (IF f.containers THEN {"containers"} ELSE {})
    IN  IF Listening(f) = {} /\ unreadable = DOMAIN f.tables THEN Covered(Finding("listeners", "unknown", 0), tally, HostTop)
        ELSE [Covered(Finding("listeners", "ok", Cardinality(ListenerRows(f))), coverage, HostTop) EXCEPT !.limits = limits]

-----------------------------------------------------------------------------
(* Telemetry health.                                                       *)

\* Failure over warning over unknown over ok: not the order of the enumeration.
HealthRank == [ok |-> 0, unknown |-> 1, warn |-> 2, fail |-> 3]

\* Mutant: statuses are compared in the order in which they are declared.
WorstHealthDeclared(S) == CHOOSE s \in S \cup {"ok"} : \A t \in S \cup {"ok"} : StatusRank[s] >= StatusRank[t]

WorstHealth(S) == CHOOSE s \in S \cup {"ok"} : \A t \in S \cup {"ok"} : HealthRank[s] >= HealthRank[t]

Unread(i) == IF i.size > i.offset THEN i.size - i.offset ELSE 0

\* Silence since the last commit point; age -1: nothing was ever committed.
SilenceOf(i) ==
    CASE i.age >= SilenceFail -> "fail"
      [] i.age < SilenceFail /\ i.age >= SilenceWarn -> "warn"
      [] i.age >= 0 /\ i.age < SilenceWarn -> "ok"
      [] i.age = -1 /\ Unread(i) > 0 -> "warn"
      [] OTHER -> "unknown"

PresenceOf(i) == CASE i.presence = "missing" -> "warn" [] i.presence = "denied" -> "unknown" [] OTHER -> "ok"

\* A checkpoint that is missing, too large, denied or broken tells nothing.
SourceStatus(i) ==
    IF ~i.plainId \/ i.checkpoint # "ok" THEN "unknown"
    ELSE WorstHealth({SilenceOf(i), PresenceOf(i), IF i.files = 0 THEN "unknown" ELSE "ok"})

SourcesFinding(f) ==
    Covered(Finding("sources", WorstHealth({SourceStatus(i) : i \in f.inputs}), Cardinality(f.inputs)),
            TallyAll({[state |-> i.checkpoint, of |-> i] : i \in f.inputs}), HostTop)

\* No spool file (0): nothing ever waited; -1: its directory is denied.
BacklogOf(i) ==
    CASE i.spool = -1 -> "unknown"
      [] i.spool = 0 -> "ok"
      [] i.spool >= SpoolMax -> "fail"
      [] OTHER -> "warn"

BacklogFinding(f) ==
    LET plain == {i \in f.inputs : i.plainId}
    IN  Covered(Finding("backlog", WorstHealth({BacklogOf(i) : i \in plain}),
                        Cardinality({i \in plain : i.spool # 0})),
                [NoTally EXCEPT !.denied = Cardinality({i \in plain : i.spool = -1})], HostTop)

PipelineFinding(f) ==
    Finding("pipeline", WorstHealth({IF f.seq = "ok" THEN "ok" ELSE "unknown", IF f.output THEN "ok" ELSE "warn"}), 2)

\* Without configuration or work nothing is known; that is one finding, not health.
TelemetryFindings(f) ==
    IF f.config # "ok" \/ f.work # "ok" \/ f.inputs = {} THEN <<Finding("sources", "unknown", 0)>>
    ELSE <<SourcesFinding(f), BacklogFinding(f), PipelineFinding(f)>>

-----------------------------------------------------------------------------
(* The investigations.                                                     *)

ListUnits ==
    /\ hpc = "start" /\ htopic = "persistence"
    /\ recent' = IF hfacts.unitsDir = "ok" THEN RecentUnits(hfacts) ELSE {}
    /\ hostFindings' = <<UnitsFinding(hfacts)>>
    /\ hpc' = "scheduled" /\ UNCHANGED <<htopic, hfacts>>

ListScheduled ==
    /\ hpc = "scheduled"
    /\ recent' = recent \cup RecentJobs(hfacts)
    /\ hostFindings' = Append(hostFindings, ScheduledFinding(hfacts))
    /\ hpc' = "hooks" /\ UNCHANGED <<htopic, hfacts>>

ListHooks ==
    /\ hpc = "hooks"
    /\ recent' = recent \cup RecentHooks(hfacts)
    /\ hostFindings' = hostFindings \o <<HooksFinding(hfacts), RecentFinding(recent')>>
    /\ hpc' = "done" /\ UNCHANGED <<htopic, hfacts>>

ListListeners ==
    /\ hpc = "start" /\ htopic = "exposure"
    /\ hostFindings' = <<ListenersFinding(hfacts)>>
    /\ hpc' = "done" /\ UNCHANGED <<htopic, hfacts, recent>>

CheckTelemetry ==
    /\ hpc = "start" /\ htopic = "telemetry-health"
    /\ hostFindings' = TelemetryFindings(hfacts)
    /\ hpc' = "done" /\ UNCHANGED <<htopic, hfacts, recent>>

HostInit ==
    /\ hpc = "start" /\ recent = {} /\ hostFindings = <<>>
    /\ \/ htopic = "persistence" /\ hfacts \in PersistenceHosts
       \/ htopic = "exposure" /\ hfacts \in ExposureHosts
       \/ htopic = "telemetry-health" /\ hfacts \in TelemetryHosts

HostNext == ListUnits \/ ListScheduled \/ ListHooks \/ ListListeners \/ CheckTelemetry
=============================================================================
