------------------------------ MODULE LoadScan ------------------------------
(***************************************************************************)
(* The load investigation (investigate_load.rs): counters are read, the    *)
(* scan sleeps for its window, and they are read again.  In between        *)
(* processes burn CPU time, start and exit, and control groups come and    *)
(* go.  Processes are then added up to services: by the growth of their    *)
(* control groups where both readings exist, else by the processes alive   *)
(* at the end.                                                             *)
(***************************************************************************)
EXTENDS Investigate, FiniteSetsExt

CONSTANTS
    Procs,       \* processes that may run
    AgentProcs,  \* those of the agent itself
    Groups,      \* control groups
    GroupOf,     \* process -> control group, or NoGroup
    LabelOf,     \* control group -> service it is recognised as, or NoLabel
    ExeOf,       \* process -> name of its executable
    NoGroup, NoLabel,
    PidLimit,    \* CGROUP_PID_LIMIT
    TrackLimit,  \* CGROUP_TRACK_LIMIT
    Denied,      \* control groups whose counters cannot be read
    Hosts,       \* load, CPU, memory and I/O figures of a host
    MaxBurn      \* bound: units of CPU time burnt in the window

\* There are finitely many processes, and each is in one control group or in none.
ASSUME LoadAssumption ==
    /\ IsFiniteSet(Procs) /\ IsFiniteSet(Groups) /\ NoGroup \notin Groups
    /\ \A p \in Procs : GroupOf[p] \in Groups \cup {NoGroup}

VARIABLES
    phase,     \* "before" | "window" | "after" | "reported"
    alive,     \* running processes
    meter,     \* existing control group -> CPU time accounted to it
    ran,       \* process -> CPU time since the first reading
    before,    \* first reading of the tracked control groups
    after,     \* second reading
    first,     \* processes of the first refresh
    sampled,   \* processes of the second
    looked,    \* those of them whose control group was looked up
    fresh,     \* control groups created since the first reading
    burnt,     \* CPU time burnt so far
    host

loadVars == <<phase, alive, meter, ran, before, after, first, sampled, looked, fresh, burnt, host>>

Labels == {LabelOf[g] : g \in Groups} \ {NoLabel}

\* Members of a control group, and the ones running.
Members(g) == {p \in Procs : GroupOf[p] = g}

-----------------------------------------------------------------------------
(* Attribution.                                                            *)

\* service_of: the control group if it is recognised, else the executable.
ServiceOf(p) ==
    IF GroupOf[p] # NoGroup /\ LabelOf[GroupOf[p]] # NoLabel
    THEN [label |-> LabelOf[GroupOf[p]], source |-> "cgroup"]
    ELSE [label |-> ExeOf[p], source |-> "exe"]

\* Only the first PidLimit processes are looked up; the others go by executable.
LabelCached(p) == IF p \in looked THEN ServiceOf(p) ELSE [label |-> ExeOf[p], source |-> "exe"]

\* The groups of the first processes, readable and recognised, up to the limit.
Trackable(S) ==
    {g \in Groups : g \in DOMAIN meter /\ g \notin Denied /\ LabelOf[g] # NoLabel /\ Members(g) \cap S # {}}

Readings(gs) == [g \in gs |-> meter[g]]

\* Mutant: the counters are taken as they stand, not their growth.
ExactTotal(label) ==
    LET both == {g \in DOMAIN after \cap DOMAIN before : LabelOf[g] = label}
    IN  MapThenSumSet(LAMBDA g : after[g], both)

\* Growth of the groups of a service that were read twice; a group that was
\* removed and made again in between starts from zero and saturates.
ExactCpu(label) ==
    LET both == {g \in DOMAIN after \cap DOMAIN before : LabelOf[g] = label}
        delta == [g \in both |-> IF after[g] > before[g] THEN after[g] - before[g] ELSE 0]
    IN  MapThenSumSet(LAMBDA g : delta[g], both)

ExactLabels == {LabelOf[g] : g \in DOMAIN after \cap DOMAIN before}

SumRan(S) == MapThenSumSet(LAMBDA p : ran[p], S)

MembersOf(label) == {p \in sampled : LabelCached(p).label = label}

\* A process that was not there at the first refresh has no CPU time yet.
SampledCpu(S) == SumRan(S \cap first)

\* build_services: every sampled process belongs to one service; a service whose
\* processes have all exited is listed when its group still shows what it used.
Services ==
    LET names == {LabelCached(p).label : p \in sampled} \cup ExactLabels
    IN  [l \in names |->
            [processes |-> Cardinality(MembersOf(l)), exact |-> l \in ExactLabels,
             cpu |-> IF l \in ExactLabels THEN ExactCpu(l) ELSE SampledCpu(MembersOf(l))]]

-----------------------------------------------------------------------------
(* The scan and the host.                                                  *)

\* The first PidLimit processes of a list in any order.
FirstPids(S) == kSubset(IF Cardinality(S) < PidLimit THEN Cardinality(S) ELSE PidLimit, S)

FirstReading ==
    /\ phase = "before"
    /\ \E pids \in FirstPids(alive) : \E gs \in SUBSET Trackable(pids) :
          /\ Cardinality(gs) <= TrackLimit
          /\ gs # Trackable(pids) => Cardinality(gs) = TrackLimit
          /\ before' = Readings(gs)
    /\ first' = alive /\ fresh' = {} /\ burnt' = 0
    /\ ran' = [p \in Procs |-> 0]
    /\ phase' = "window"
    /\ UNCHANGED <<alive, meter, after, sampled, looked, host>>

Burn(p) ==
    /\ phase \in {"before", "window"} /\ p \in alive /\ burnt < MaxBurn
    /\ burnt' = burnt + 1
    /\ ran' = [ran EXCEPT ![p] = @ + 1]
    /\ meter' = IF GroupOf[p] \in DOMAIN meter THEN [meter EXCEPT ![GroupOf[p]] = @ + 1] ELSE meter
    /\ UNCHANGED <<phase, alive, before, after, first, sampled, looked, fresh, host>>

\* A process starts; its group is created with it if it does not exist.
StartProc(p) ==
    /\ phase = "window" /\ p \notin alive
    /\ alive' = alive \cup {p}
    /\ LET g == GroupOf[p]
       IN  IF g = NoGroup \/ g \in DOMAIN meter THEN UNCHANGED <<meter, fresh>>
           ELSE meter' = [x \in DOMAIN meter \cup {g} |-> IF x = g THEN 0 ELSE meter[x]] /\ fresh' = fresh \cup {g}
    /\ UNCHANGED <<phase, ran, before, after, first, sampled, looked, burnt, host>>

\* A process exits; the group of a service may be removed with its last process.
ExitProc(p) ==
    /\ phase = "window" /\ p \in alive
    /\ alive' = alive \ {p}
    /\ \/ meter' = meter
       \/ /\ Members(GroupOf[p]) \cap alive' = {} /\ GroupOf[p] \in DOMAIN meter
          /\ meter' = [g \in DOMAIN meter \ {GroupOf[p]} |-> meter[g]]
    /\ UNCHANGED <<phase, ran, before, after, first, sampled, looked, fresh, burnt, host>>

\* Only the groups of the first reading are read again.
SecondReading ==
    /\ phase = "window"
    /\ after' = Readings(DOMAIN before \cap DOMAIN meter)
    /\ sampled' = alive
    /\ looked' \in FirstPids(alive)
    /\ phase' = "reported"
    /\ UNCHANGED <<alive, meter, ran, before, first, fresh, burnt, host>>

LoadInit ==
    /\ phase = "before" /\ host \in Hosts
    /\ alive \in SUBSET Procs
    /\ meter = [g \in {GroupOf[p] : p \in alive} \ {NoGroup} |-> 0]
    /\ ran = [p \in Procs |-> 0] /\ before = <<>> /\ after = <<>> /\ first = {} /\ sampled = {} /\ looked = {} /\ fresh = {} /\ burnt = 0

LoadNext ==
    FirstReading \/ SecondReading \/ \E p \in Procs : Burn(p) \/ StartProc(p) \/ ExitProc(p)

-----------------------------------------------------------------------------
(* The eight sections, for a host whose figures are in percent; -1 stands  *)
(* for a figure the platform does not have.                                *)

Thresholds(n, warn, fail) == IF n >= fail THEN "fail" ELSE IF n >= warn THEN "warn" ELSE "ok"

\* Load per core in percent: the number of cores decides what is high.
PerCore == IF host.cores = 0 THEN 0 ELSE host.load \div host.cores

\* Shares of /proc/stat between two readings; a counter that went back gives none.
Breakdown(one, two) ==
    LET total == two.total - one.total
        share(f, s) == ((IF s > f THEN s - f ELSE 0) * 100) \div total
    IN  IF total <= 0 THEN [idle |-> -1, iowait |-> -1]
        ELSE [idle |-> share(one.idle, two.idle), iowait |-> share(one.iowait, two.iowait)]

SummaryFinding == Finding("summary", Thresholds(PerCore, 100, 200), 3)

\* One saturated core is a warning, however idle the others are.
CpuFinding ==
    Finding("cpu", Worse(Thresholds(host.cpu, 85, 95), IF host.busiest >= 95 THEN "warn" ELSE "ok"), 1)

Heaviest == LET table == Services IN Max({0} \cup {table[l].cpu : l \in DOMAIN table})

\* An empty table is a warning: nothing read is not nobody busy.
ServicesFinding ==
    Finding("top_services", IF DOMAIN Services = {} THEN "warn" ELSE Thresholds(Heaviest, host.warnCpu, host.failCpu),
            Cardinality(DOMAIN Services))

TopProcessesFinding == Finding("top_processes", IF sampled = {} THEN "warn" ELSE "ok", Cardinality(sampled))

MemoryFinding ==
    Finding("memory", Worse(Thresholds(host.memory, 85, 95), IF host.swap >= 50 THEN "warn" ELSE "ok"), 2)

IoFinding ==
    Finding("io", IF Breakdown(host.stat[1], host.stat[2]).iowait >= 20 \/ host.psiSome >= 30 \/ host.psiFull >= 10
                     \/ (host.dState >= 3 /\ host.load > 100 * host.cores)
                  THEN "warn" ELSE "ok", 3)

\* The agent's share is added up before the list of processes is cut.
AgentProcessesFinding ==
    LET mine == sampled \cap AgentProcs
    IN  Finding("agent_processes", IF mine = {} THEN "ok" ELSE Thresholds(SampledCpu(mine), host.warnCpu, host.failCpu),
                Cardinality(mine))

SampleFinding == Finding("sample", IF sampled = {} \/ host.window < 300 THEN "warn" ELSE "ok", 0)

LoadFindings ==
    <<SummaryFinding, CpuFinding, ServicesFinding, TopProcessesFinding, MemoryFinding, IoFinding,
      AgentProcessesFinding, SampleFinding>>

-----------------------------------------------------------------------------
(* Properties.                                                             *)

\* CPU time of a service since the first reading, its exited processes included.
Burnt(label) == SumRan({p \in Procs : label \in {ServiceOf(p).label, LabelCached(p).label}})

\* A service is never charged more than its processes used in the window: groups
\* that appear, vanish or start again from zero only make it a lower bound.  It is
\* charged for all its groups used, exited processes included, when they were all
\* read twice, and every process of the second refresh is in some service
\* (exact_service_cpu, build_services).
NeverOvercharged ==
    phase = "reported" =>
        /\ \A l \in DOMAIN Services : Services[l].cpu <= Burnt(l)
        /\ \A l \in ExactLabels :
              LET gs == {g \in Groups : LabelOf[g] = l}
              IN  gs \subseteq DOMAIN after \ fresh
                     => Services[l].cpu = SumRan(UNION {Members(g) : g \in gs})
        /\ \A p \in sampled : LabelCached(p).label \in DOMAIN Services
=============================================================================
