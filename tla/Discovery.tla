------------------------------ MODULE Discovery ------------------------------
(***************************************************************************)
(* The discovery round at the start of every tick of the daemon, and what  *)
(* is derived from it: each probe of the host runs when it is due and is   *)
(* represented by its last output otherwise, the outputs are put together  *)
(* into a snapshot, the snapshot is cached in three files, and from it     *)
(* come the planner's candidates, the view of metrics targets, the metrics *)
(* snapshot and the exported files (discovery/runtime.rs, cache.rs,        *)
(* policy.rs, daemon.rs refresh_discovery_snapshot, daemon_metrics.rs,     *)
(* reporting/exporter.rs).                                                 *)
(*                                                                         *)
(* A probe finds one kind of item.  Time is counted in ticks.  A process   *)
(* crash, a failing probe, a failing write and a damaged file each cost    *)
(* one of MaxFaults.                                                       *)
(***************************************************************************)
EXTENDS Integers, Sequences, FiniteSets

CONSTANTS
    ProbeOrder,    \* the enabled probes, in the order they run
    Items,         \* what can be found on the host
    KindOf,        \* the probe that finds an item
    ClassOf,       \* the exported file an item belongs to
    ProcessSets,   \* the files of processes, in the order they are written
    StartHosts,    \* what may be on the host at first
    Builtin,       \* a probe's own refresh interval
    Policies,      \* policy tables the gateway may answer with
    FetchInterval, \* least number of ticks between two fetches of the table
    MaxAge,        \* ages beyond it are not told apart
    MaxRevision,   \* revisions beyond it are not told apart
    SampleLimit,   \* targets of a kind that are sampled
    MaxFaults, MaxChanges

ASSUME DiscoveryAssumption ==
    /\ \A i \in DOMAIN ProbeOrder : ProbeOrder[i] \in DOMAIN Builtin /\ Builtin[ProbeOrder[i]] \in 1..MaxAge
    /\ KindOf \in [Items -> {ProbeOrder[i] : i \in DOMAIN ProbeOrder}]
    /\ ProbeOrder \in Seq({ProbeOrder[i] : i \in DOMAIN ProbeOrder})
    /\ \A i, j \in DOMAIN ProbeOrder : ProbeOrder[i] = ProbeOrder[j] => i = j
    /\ StartHosts \subseteq SUBSET Items

Kinds == {ProbeOrder[i] : i \in DOMAIN ProbeOrder}
OfKind(S, k) == {i \in S : KindOf[i] = k}

VARIABLES
    onHost,     \* items now on the host
    outputs,    \* last_outputs: what a probe last found, or NoOutput
    lastRun,    \* ticks since a probe last ran, or -1
    policy,     \* the applied policy table: a function on some probes
    lastFetch,  \* ticks since the table was last asked for, or -1
    latest,     \* latest_snapshot
    cache,      \* the files resources, targets and meta
    planned,    \* the candidate file of each kind
    view,       \* the target view file
    runtime,    \* the metrics snapshot file
    exported,   \* the exported file of each class
    round,      \* the locals of the tick
    dpc,        \* where the tick stands
    dhealth,    \* what the tick reported of discovery
    steady,     \* items of the last snapshot made of probe outputs that have been on the host since
    dfaults, dchanges

discoveryVars == <<onHost, outputs, lastRun, policy, lastFetch, latest, cache, planned, view, runtime,
                   exported, round, dpc, dhealth, steady, dfaults, dchanges>>

None == [is |-> "none"]
Corrupt == [is |-> "corrupt"]
Some(x) == [is |-> "some", of |-> x]
Readable(f) == f.is = "some"
NoOutput == None

NoRound == [force |-> FALSE, at |-> 1, got |-> {}, ok |-> {}, errors |-> {}, loaded |-> FALSE, unloadable |-> FALSE,
            refreshed |-> FALSE, cached |-> FALSE, failed |-> "", wrote |-> {}]
NoHealth == [readiness |-> "none", ok |-> {}, failed |-> {}]

DiscoveryInit ==
    /\ onHost \in StartHosts
    /\ outputs = [k \in Kinds |-> NoOutput] /\ lastRun = [k \in Kinds |-> -1]
    /\ policy = <<>> /\ lastFetch = -1 /\ latest = None
    /\ cache = [resources |-> None, targets |-> None, meta |-> None]
    /\ planned = [k \in Kinds |-> None] /\ view = None /\ runtime = None
    /\ exported = [c \in {ClassOf[i] : i \in Items} |-> None]
    /\ round = NoRound /\ dpc = "idle" /\ dhealth = NoHealth /\ steady = {}
    /\ dfaults = MaxFaults /\ dchanges = MaxChanges

Fault == dfaults > 0 /\ dfaults' = dfaults - 1
Older(age) == IF age = -1 \/ age = MaxAge THEN age ELSE age + 1

-----------------------------------------------------------------------------
(* The policy table. *)

\* The interval a table gives: kept within the bounds of its own entry; an entry
\* whose bounds contradict each other is not used (0).
Evaluate(entry) ==
    LET lower == IF entry.min < 1 THEN 1 ELSE entry.min
    IN  IF entry.max < lower THEN 0
        ELSE IF entry.asked < lower THEN lower
        ELSE IF entry.asked > entry.max THEN entry.max ELSE entry.asked

IntervalFor(k) ==
    IF k \in DOMAIN policy /\ Evaluate(policy[k]) > 0 THEN Evaluate(policy[k]) ELSE Builtin[k]

\* The tick begins.  The table is asked for when it is time, or when the round is forced;
\* the attempt is recorded, answered or not, and an answer replaces the table.
BeginRound ==
    /\ dpc = "idle" /\ dpc' = "load"
    /\ lastRun' = [k \in Kinds |-> Older(lastRun[k])]
    /\ \E force \in BOOLEAN :
        /\ round' = [NoRound EXCEPT !.force = force]
        /\ IF force \/ lastFetch = -1 \/ Older(lastFetch) >= FetchInterval
           THEN /\ lastFetch' = 0
                /\ \/ \E table \in Policies : policy' = table /\ UNCHANGED dfaults
                   \/ Fault /\ UNCHANGED policy
           ELSE lastFetch' = Older(lastFetch) /\ UNCHANGED <<policy, dfaults>>
    /\ UNCHANGED <<onHost, outputs, latest, cache, planned, view, runtime, exported, dhealth, steady, dchanges>>

-----------------------------------------------------------------------------
(* The round: load the cache, run the probes, compose the snapshot. *)

\* load_snapshot: all three files, or nothing.
CacheComplete == \A f \in DOMAIN cache : cache[f] # None
Loaded ==
    IF \A f \in DOMAIN cache : Readable(cache[f])
    THEN Some([revision |-> cache.meta.of, resources |-> cache.resources.of, targets |-> cache.targets.of])
    ELSE None
LoadFailed == cache.meta = Corrupt \/ (CacheComplete /\ Loaded = None)

\* The cache on disk replaces the snapshot held in memory.
LoadCache ==
    /\ dpc = "load" /\ dpc' = "probe"
    /\ round' = [round EXCEPT !.loaded = Readable(Loaded), !.unloadable = LoadFailed]
    /\ latest' = IF Readable(Loaded) THEN Loaded ELSE latest
    /\ UNCHANGED <<onHost, outputs, lastRun, policy, lastFetch, cache, planned, view, runtime, exported, dhealth, steady, dfaults, dchanges>>

Due(k) == round.force \/ lastRun[k] = -1 \/ lastRun[k] >= IntervalFor(k)

\* The probe at its turn contributes S to the snapshot.
Contribute(k, S, ok, errors) ==
    round' = [round EXCEPT !.at = @ + 1, !.got = @ \cup S, !.ok = @ \cup ok, !.errors = @ \cup errors]

RunProbe(k) ==
    /\ lastRun' = [lastRun EXCEPT ![k] = 0] /\ outputs' = [outputs EXCEPT ![k] = Some(OfKind(onHost, k))]
    /\ Contribute(k, OfKind(onHost, k), {k}, {})
    /\ UNCHANGED dfaults

\* A forced round falls back on the last output; a periodic one leaves the kind out.
ProbeFails(k) ==
    /\ Fault
    /\ lastRun' = [lastRun EXCEPT ![k] = 0]
    /\ Contribute(k, IF round.force /\ Readable(outputs[k]) THEN outputs[k].of ELSE {}, {}, {k})
    /\ UNCHANGED outputs

\* Mutant: a probe that is not due contributes nothing.
ReuseNothing(k) ==
    /\ Contribute(k, {}, {k}, {})
    /\ UNCHANGED <<outputs, lastRun, dfaults>>

\* A probe that is not due is represented by its last output.
ReuseOutput(k) ==
    /\ Contribute(k, outputs[k].of, {k}, {})
    /\ UNCHANGED <<outputs, lastRun, dfaults>>

\* Not due, but it has never had an output: it runs, and a failure leaves its time alone.
RetryProbe(k) ==
    \/ RunProbe(k)
    \/ Fault /\ Contribute(k, {}, {}, {k}) /\ UNCHANGED <<outputs, lastRun>>

RefreshProbe ==
    /\ dpc = "probe" /\ round.at <= Len(ProbeOrder)
    /\ LET k == ProbeOrder[round.at]
       IN  \/ Due(k) /\ (RunProbe(k) \/ ProbeFails(k))
           \/ ~Due(k) /\ Readable(outputs[k]) /\ ReuseOutput(k)
           \/ ~Due(k) /\ ~Readable(outputs[k]) /\ RetryProbe(k)
    /\ UNCHANGED <<onHost, policy, lastFetch, latest, cache, planned, view, runtime, exported, dpc, dhealth, steady, dchanges>>

NextRevision == IF ~Readable(latest) THEN 1 ELSE IF latest.of.revision = MaxRevision THEN MaxRevision ELSE latest.of.revision + 1

\* compose_snapshot: when every probe failed and nothing was found, the previous snapshot stays.
ComposeSnapshot ==
    /\ dpc = "probe" /\ round.at > Len(ProbeOrder)
    /\ LET refreshed == Some([revision |-> NextRevision, resources |-> round.got, targets |-> round.got])
           success == round.got # {} \/ Cardinality(round.errors) < Len(ProbeOrder)
       IN  /\ latest' = IF success \/ ~Readable(latest) THEN refreshed ELSE latest
           /\ round' = [round EXCEPT !.at = 1, !.refreshed = success, !.cached = ~success /\ Readable(latest)]
    /\ dpc' = "resources"
    /\ UNCHANGED <<onHost, outputs, lastRun, policy, lastFetch, cache, planned, view, runtime, exported, dhealth, steady, dfaults, dchanges>>

-----------------------------------------------------------------------------
(* The files. *)

\* store_snapshot: resources, targets, meta, each replaced as a whole; the first failure ends it.
StoreCache ==
    LET file(f, content, next) ==
            /\ dpc = f
            /\ \/ cache' = [cache EXCEPT ![f] = Some(content)] /\ dpc' = next /\ UNCHANGED <<round, dfaults>>
               \/ Fault /\ round' = [round EXCEPT !.failed = "cache"] /\ dpc' = "planner" /\ UNCHANGED cache
    IN  /\ \/ file("resources", latest.of.resources, "targets")
           \/ file("targets", latest.of.targets, "meta")
           \/ file("meta", latest.of.revision, "planner")
        /\ UNCHANGED <<onHost, outputs, lastRun, policy, lastFetch, latest, planned, view, runtime, exported, dhealth, steady, dchanges>>

\* build_collection_candidates: one candidate per target of a kind the planner knows.
Candidates(k) == OfKind(latest.of.targets, k)

\* Mutant: a candidate file that cannot be written is skipped.
StoreCandidatesOn ==
    /\ dpc = "planner" /\ round.at <= Len(ProbeOrder)
    /\ round' = [round EXCEPT !.at = @ + 1]
    /\ LET k == ProbeOrder[round.at]
       IN  \/ planned' = [planned EXCEPT ![k] = Some(Candidates(k))] /\ UNCHANGED dfaults
           \/ Fault /\ planned' = [planned EXCEPT ![k] = IF @ = None THEN Some({}) ELSE @]
    /\ UNCHANGED <<onHost, outputs, lastRun, policy, lastFetch, latest, cache, view, runtime, exported, dpc, dhealth, steady, dchanges>>

StoreCandidates ==
    /\ dpc = "planner" /\ round.at <= Len(ProbeOrder)
    /\ LET k == ProbeOrder[round.at]
       IN  \/ /\ planned' = [planned EXCEPT ![k] = Some(Candidates(k))]
              /\ round' = [round EXCEPT !.at = @ + 1] /\ UNCHANGED <<dpc, dfaults>>
           \/ Fault /\ round' = [round EXCEPT !.failed = "planner"] /\ dpc' = "report" /\ UNCHANGED planned
    /\ UNCHANGED <<onHost, outputs, lastRun, policy, lastFetch, latest, cache, view, runtime, exported, dhealth, steady, dchanges>>

\* The view is built from the candidate files.
TargetView == UNION {planned[k].of : k \in Kinds}
StoreView ==
    /\ dpc = "planner" /\ round.at > Len(ProbeOrder) /\ dpc' = "report"
    /\ \/ view' = Some(TargetView) /\ UNCHANGED <<round, dfaults>>
       \/ Fault /\ round' = [round EXCEPT !.failed = "view"] /\ UNCHANGED view
    /\ UNCHANGED <<onHost, outputs, lastRun, policy, lastFetch, latest, cache, planned, runtime, exported, dhealth, steady, dchanges>>

\* build_probe_health: the failures are the probes', the last store's and the cache's.
ProbeHealth ==
    [ok |-> round.ok,
     failed |-> round.errors \cup (IF round.failed = "" THEN {} ELSE {round.failed}) \cup (IF round.unloadable THEN {"load"} ELSE {})]
Readiness ==
    IF round.cached THEN "stale" ELSE IF round.refreshed THEN "ready" ELSE IF round.loaded THEN "stale" ELSE "not_ready"

Report ==
    /\ dpc = "report" /\ dpc' = "metrics"
    /\ dhealth' = [readiness |-> Readiness, ok |-> ProbeHealth.ok, failed |-> ProbeHealth.failed]
    /\ UNCHANGED <<onHost, outputs, lastRun, policy, lastFetch, latest, cache, planned, view, runtime, exported, round, steady, dfaults, dchanges>>

-----------------------------------------------------------------------------
(* Metrics and exported files. *)

\* Every target of a kind is probed; the first SampleLimit are kept, the others are counted as dropped.
Outcome(targets, k, sampled) ==
    LET of == OfKind(targets, k)
    IN  [attempted |-> Cardinality(of), succeeded |-> Cardinality(of \cap onHost), failed |-> Cardinality(of \ onHost),
         samples |-> sampled \cap onHost, dropped |-> Cardinality(of) - Cardinality(sampled)]

Samplings(targets, k) ==
    LET of == OfKind(targets, k)
    IN  {S \in SUBSET of : Cardinality(S) = IF Cardinality(of) < SampleLimit THEN Cardinality(of) ELSE SampleLimit}

\* An unreadable view leaves the file of the last tick to be sent again.
MetricsTick ==
    /\ dpc = "metrics" /\ dpc' = "export"
    /\ steady' = IF round.refreshed THEN latest.of.resources \cap onHost ELSE steady
    /\ \/ /\ Readable(view)
          /\ \E sampled \in {f \in [Kinds -> SUBSET view.of] : \A k \in Kinds : f[k] \in Samplings(view.of, k)} :
                runtime' = Some([k \in Kinds |-> Outcome(view.of, k, sampled[k])])
          /\ UNCHANGED dfaults
       \/ Readable(view) /\ Fault /\ UNCHANGED runtime
       \/ ~Readable(view) /\ UNCHANGED <<runtime, dfaults>>
    /\ UNCHANGED <<onHost, outputs, lastRun, policy, lastFetch, latest, cache, planned, view, exported, round, dhealth, dchanges>>

Classes == {ClassOf[i] : i \in Items}
Rows(c) == {i \in cache.resources.of : ClassOf[i] = c}
\* A class with nothing in it is skipped: its file stays as it was.
Exportable == IF Readable(cache.resources) THEN {c \in Classes : Rows(c) # {}} ELSE {}
ExportRow(c) == Some([revision |-> IF Readable(cache.meta) THEN cache.meta.of ELSE 0, rows |-> Rows(c)])

\* A write that fails takes the later files of processes with it.
LostWith(c) ==
    {c} \cup {ProcessSets[j] : j \in {n \in DOMAIN ProcessSets : \E m \in 1..(n - 1) : ProcessSets[m] = c}}

Export ==
    /\ dpc = "export" /\ dpc' = "idle"
    /\ \E lost \in {{}} \cup {LostWith(c) : c \in Exportable} :
        /\ IF lost = {} THEN UNCHANGED dfaults ELSE Fault
        /\ exported' = [c \in Classes |-> IF c \in Exportable \ lost THEN ExportRow(c) ELSE exported[c]]
        /\ round' = [NoRound EXCEPT !.wrote = Exportable \ lost]
    /\ UNCHANGED <<onHost, outputs, lastRun, policy, lastFetch, latest, cache, planned, view, runtime, dhealth, steady, dchanges>>

-----------------------------------------------------------------------------
(* The host and the faults. *)

\* The process is restarted; the files stay.
Crash ==
    /\ dpc # "idle" /\ Fault
    /\ outputs' = [k \in Kinds |-> NoOutput] /\ lastRun' = [k \in Kinds |-> -1]
    /\ policy' = <<>> /\ lastFetch' = -1 /\ latest' = None
    /\ round' = NoRound /\ dpc' = "idle" /\ dhealth' = NoHealth
    /\ UNCHANGED <<onHost, cache, planned, view, runtime, exported, steady, dchanges>>

\* A file is damaged between two ticks.
Damage ==
    /\ dpc = "idle" /\ Fault
    /\ \/ \E f \in DOMAIN cache : Readable(cache[f]) /\ cache' = [cache EXCEPT ![f] = Corrupt] /\ UNCHANGED <<view, runtime>>
       \/ Readable(view) /\ view' = Corrupt /\ UNCHANGED <<cache, runtime>>
       \/ Readable(runtime) /\ runtime' = Corrupt /\ UNCHANGED <<cache, view>>
    /\ round' = NoRound
    /\ UNCHANGED <<onHost, outputs, lastRun, policy, lastFetch, latest, planned, exported, dpc, dhealth, steady, dchanges>>

HostChanges ==
    /\ dchanges > 0 /\ dchanges' = dchanges - 1
    /\ \E i \in Items : onHost' = IF i \in onHost THEN onHost \ {i} ELSE onHost \cup {i}
    /\ steady' = steady \cap onHost'
    /\ UNCHANGED <<outputs, lastRun, policy, lastFetch, latest, cache, planned, view, runtime, exported, round, dpc, dhealth, dfaults>>

DiscoveryStep ==
    \/ BeginRound \/ LoadCache \/ RefreshProbe \/ ComposeSnapshot \/ StoreCache \/ StoreCandidates \/ StoreView \/ Report
    \/ MetricsTick \/ Export
DiscoveryNext == DiscoveryStep \/ Crash \/ Damage \/ HostChanges
=============================================================================
