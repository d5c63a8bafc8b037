------------------------------ MODULE WorkGrant ------------------------------
(***************************************************************************)
(* Standing works: what an operator authorises at the gateway, what agentd *)
(* holds, and what it derives from it (control/work.rs, state_store/work.rs*)
(* and refresh_work_grant of runtime/daemon.rs).  The gateway publishes,   *)
(* pauses and withdraws works; the daemon pulls the whole grant, replaces  *)
(* what it holds, acknowledges the versions it could read, and writes      *)
(* state/work.json, from which it resumes after a crash.                   *)
(* The one-shot half of the grant (upgrades) is module Upgrade.            *)
(***************************************************************************)
EXTENDS Integers, Sequences, FiniteSets

CONSTANTS
    Works,          \* identifiers of standing works
    Contents,       \* readable work parameters a gateway may publish
    Units(_),       \* Units(s) is the sequence of units of the parameters s
    MaxSeq,         \* bound: changes an operator makes at the gateway
    MaxLost,        \* bound: requests or answers lost
    MaxWorkCrash    \* bound: crashes of the daemon

ASSUME WorkBounds == MaxSeq \in Nat /\ MaxLost \in Nat /\ MaxWorkCrash \in Nat

VARIABLES
    want,       \* gateway: work -> what the operator wants of it
    gwSeq,      \* gateway: sequence number of the grant
    gwAck,      \* gateway: work -> version the agent acknowledged (0: none)
    held,       \* agentd: AppliedWorkGrant.works
    seqMem,     \* agentd: AppliedWorkGrant.sequence
    toAck,      \* agentd: versions of this round still to be acknowledged
    dirty,      \* agentd: the view must be stored at the end of the round
    workDisk,   \* state/work.json
    stored,     \* work.json was read or the last write of it that was due succeeded
    workPc,     \* "down" | "idle" | "ack"
    lost,       \* requests or answers lost so far
    workCrashes \* crashes so far

gatewayVars == <<want, gwSeq, gwAck>>
workVars == <<want, gwSeq, gwAck, held, seqMem, toAck, dirty, workDisk, stored,
              workPc, lost, workCrashes>>

Absent == [ver |-> 0, status |-> "absent", spec |-> "none", acked |-> 0]
NoFile == [seq |-> 0, works |-> [w \in Works |-> Absent]]

\* WorkSpec::parse: the gateway may publish parameters this agent cannot read.
Broken == "broken"
\* The parameters of a broken work as the stored view has them: no unit.
Empty == "empty"

UnitsOf(s) == IF s \in Contents THEN Units(s) ELSE <<>>

IsWorking(work) == work.status = "active" /\ work.spec \notin {Broken, "none"}

-----------------------------------------------------------------------------
(* Derivation: tasks, exporter runs and the metrics interval.              *)

SourcesOf(unit, kind) ==
    SelectSeq(unit.sources, LAMBDA s : s.kind = kind /\ s.collectable)

\* Several sources of one unit get a running suffix; one source gets none.
Suffix(sources, i) == IF Len(sources) > 1 THEN <<i>> ELSE <<>>

Working(ws) == {w \in Works : IsWorking(ws[w])}

LogUnits(ws, w) ==
    LET us == UnitsOf(ws[w].spec)
    IN  {us[i] : i \in {j \in DOMAIN us : us[j].capability = "collect_logs"}}

\* The tasks of one unit for its sources of one kind.
UnitTasks(w, u, kind, tag) ==
    LET sources == SourcesOf(u, kind)
    IN  {[work |-> w, id |-> <<w, u.unit>> \o tag \o Suffix(sources, i), target |-> sources[i].target] :
            i \in DOMAIN sources}

LogInputs(ws) ==
    UNION {UNION {UnitTasks(w, u, "FileGlob", <<>>) : u \in LogUnits(ws, w)} : w \in Working(ws)}

ExporterRuns(ws) ==
    UNION {UNION {UnitTasks(w, u, "Exporter", <<"exporter">>) : u \in LogUnits(ws, w)} : w \in Working(ws)}

\* What cannot be turned into a task is named, never dropped silently.
UnsupportedUnits(ws) ==
    UNION {{<<w, UnitsOf(ws[w].spec)[k].unit>> : k \in {j \in DOMAIN UnitsOf(ws[w].spec) :
                \E i \in DOMAIN UnitsOf(ws[w].spec)[j].sources :
                    ~UnitsOf(ws[w].spec)[j].sources[i].collectable}} : w \in Working(ws)}

DefaultMetricsSeconds == 15

Least(seconds) == CHOOSE s \in seconds : \A t \in seconds : s <= t

\* The densest interval among the working metrics works, a work without one
\* counting with the default; 0 stands for None.
MetricsInterval(ws) ==
    LET metric(w) == LET us == UnitsOf(ws[w].spec)
                     IN  {us[i].interval : i \in {j \in DOMAIN us : us[j].capability = "collect_metrics"}}
        asked(w) == IF metric(w) \subseteq {0} THEN DefaultMetricsSeconds ELSE Least(metric(w) \ {0})
        all == {asked(w) : w \in {v \in Working(ws) : metric(v) # {}}}
    IN  IF all = {} THEN 0 ELSE Least(all)

\* Line framing is only for records without line breaks: build_telemetry_sink
\* escalates to length framing when an input folds lines.
Framing(ws) ==
    IF \E w \in Working(ws) : \E u \in LogUnits(ws, w) :
          \E i \in DOMAIN SourcesOf(u, "FileGlob") : SourcesOf(u, "FileGlob")[i].folds
    THEN "len" ELSE "line"

Duties(ws) ==
    [inputs |-> LogInputs(ws), exporters |-> ExporterRuns(ws), metrics |-> MetricsInterval(ws),
     unsupported |-> UnsupportedUnits(ws), framing |-> Framing(ws)]

-----------------------------------------------------------------------------
(* The gateway.                                                            *)

GatewayChanges(w, next) ==
    /\ gwSeq < MaxSeq
    /\ next # want[w]
    /\ want' = [want EXCEPT ![w] = next]
    /\ gwSeq' = gwSeq + 1
    /\ UNCHANGED <<gwAck, held, seqMem, toAck, dirty, workDisk, stored, workPc, lost, workCrashes>>

\* Plan versions of a work only grow, across withdrawals too.
Publish(w, s) == GatewayChanges(w, [ver |-> gwSeq + 1, status |-> "active", spec |-> s, acked |-> 0])

Pause(w) == want[w].status = "active" /\ GatewayChanges(w, [want[w] EXCEPT !.status = "paused"])

Unpause(w) == want[w].status = "paused" /\ GatewayChanges(w, [want[w] EXCEPT !.status = "active"])

Withdraw(w) == GatewayChanges(w, Absent)

GatewayStep ==
    \E w \in Works :
        \/ \E s \in Contents \cup {Broken} : Publish(w, s)
        \/ Pause(w)
        \/ Unpause(w)
        \/ Withdraw(w)

-----------------------------------------------------------------------------
(* The agent.                                                              *)

\* The acknowledgement is remembered only for the same plan version.
PreviousAck(w, ver) == IF held[w].ver = ver THEN held[w].acked ELSE 0

\* Mutant: the grant is merged into what is held.
ApplyMerges(g) ==
    [w \in Works |-> IF g[w] = Absent THEN held[w]
                     ELSE [g[w] EXCEPT !.acked = PreviousAck(w, g[w].ver)]]

\* The grant replaces everything that was held.
Apply(g) == [w \in Works |-> [g[w] EXCEPT !.acked = PreviousAck(w, g[w].ver)]]

\* Mutant: an unreadable version is acknowledged too.
ToAckAll(ws) == {w \in Works : ws[w].status # "absent" /\ ws[w].acked # ws[w].ver}

\* Readable versions that were not acknowledged yet.
ToAck(ws) ==
    {w \in Works : ws[w].status # "absent" /\ ws[w].spec # Broken /\ ws[w].acked # ws[w].ver}

\* Nothing is written before a grant was ever received: sequence 0.
DeviceView(ws, seq) ==
    IF seq = 0 THEN NoFile
    ELSE [seq |-> seq,
          works |-> [w \in Works |-> IF ws[w].spec = Broken
                                     THEN [ws[w] EXCEPT !.spec = Empty] ELSE ws[w]]]

FetchWorkFails ==
    /\ workPc = "idle"
    /\ lost < MaxLost
    /\ lost' = lost + 1
    /\ UNCHANGED <<gatewayVars, held, seqMem, toAck, dirty, workDisk, stored, workPc, workCrashes>>

FetchWork ==
    /\ workPc = "idle"
    /\ held' = Apply(want)
    /\ seqMem' = gwSeq
    /\ toAck' = ToAck(held')
    /\ dirty' = (gwSeq # seqMem)
    /\ workPc' = "ack"
    /\ UNCHANGED <<gatewayVars, workDisk, stored, lost, workCrashes>>

\* The gateway takes an acknowledgement of the version it wants now; another
\* one is answered stale or unknown.
GatewayTakes(w) == held[w].ver = want[w].ver

\* Mutant: an acknowledgement alone is no reason to store the view.
AckNotStored(w) ==
    /\ workPc = "ack" /\ w \in toAck
    /\ GatewayTakes(w)
    /\ gwAck' = [gwAck EXCEPT ![w] = held[w].ver]
    /\ held' = [held EXCEPT ![w].acked = held[w].ver]
    /\ toAck' = toAck \ {w}
    /\ UNCHANGED <<want, gwSeq, seqMem, dirty, workDisk, stored, workPc, lost, workCrashes>>

AckAccepted(w) ==
    /\ workPc = "ack" /\ w \in toAck
    /\ GatewayTakes(w)
    /\ gwAck' = [gwAck EXCEPT ![w] = held[w].ver]
    /\ held' = [held EXCEPT ![w].acked = held[w].ver]
    /\ toAck' = toAck \ {w}
    /\ dirty' = TRUE
    /\ UNCHANGED <<want, gwSeq, seqMem, workDisk, stored, workPc, lost, workCrashes>>

AckRefused(w) ==
    /\ workPc = "ack" /\ w \in toAck
    /\ ~GatewayTakes(w)
    /\ toAck' = toAck \ {w}
    /\ UNCHANGED <<gatewayVars, held, seqMem, dirty, workDisk, stored, workPc, lost, workCrashes>>

\* Either the request or the answer of an accepted acknowledgement is lost.
AckLost(w) ==
    /\ workPc = "ack" /\ w \in toAck
    /\ lost < MaxLost
    /\ gwAck' \in {gwAck, IF GatewayTakes(w) THEN [gwAck EXCEPT ![w] = held[w].ver] ELSE gwAck}
    /\ toAck' = toAck \ {w}
    /\ lost' = lost + 1
    /\ UNCHANGED <<want, gwSeq, held, seqMem, dirty, workDisk, stored, workPc, workCrashes>>

AckStep == \E w \in Works : AckAccepted(w) \/ AckRefused(w) \/ AckLost(w)

\* work.json is written only when something changed; a failed write is logged.
EndRound ==
    /\ workPc = "ack" /\ toAck = {}
    /\ \/ /\ workDisk' = IF dirty THEN DeviceView(held, seqMem) ELSE workDisk
          /\ stored' = (stored \/ dirty)
          /\ lost' = lost
       \/ /\ dirty /\ lost < MaxLost
          /\ lost' = lost + 1
          /\ stored' = FALSE
          /\ workDisk' = workDisk
    /\ dirty' = FALSE
    /\ workPc' = "idle"
    /\ UNCHANGED <<gatewayVars, held, seqMem, toAck, workCrashes>>

WorkCrash ==
    /\ workPc # "down" /\ workCrashes < MaxWorkCrash
    /\ workCrashes' = workCrashes + 1
    /\ held' = [w \in Works |-> Absent]
    /\ seqMem' = 0 /\ toAck' = {} /\ dirty' = FALSE
    /\ workPc' = "down"
    /\ UNCHANGED <<gatewayVars, workDisk, stored, lost>>

\* restore: the stored view goes through apply, then the acknowledgements.  A view
\* that cannot be read is taken for none.
RestoreWork ==
    /\ workPc = "down"
    /\ \/ held' = workDisk.works /\ seqMem' = workDisk.seq /\ stored' = TRUE /\ lost' = lost
       \/ /\ workDisk # NoFile /\ lost < MaxLost /\ lost' = lost + 1
          /\ held' = NoFile.works /\ seqMem' = 0 /\ stored' = FALSE
    /\ workPc' = "idle"
    /\ UNCHANGED <<gatewayVars, toAck, dirty, workDisk, workCrashes>>

WorkInit ==
    /\ want = [w \in Works |-> Absent] /\ gwSeq = 0 /\ gwAck = [w \in Works |-> 0]
    /\ held = [w \in Works |-> Absent] /\ seqMem = 0
    /\ toAck = {} /\ dirty = FALSE
    /\ workDisk = NoFile /\ stored = TRUE
    /\ workPc = "idle" /\ lost = 0 /\ workCrashes = 0

WorkNext ==
    GatewayStep \/ FetchWorkFails \/ FetchWork \/ AckStep \/ EndRound \/ WorkCrash \/ RestoreWork

\* The tick pulls every 30 s and finishes the round it started; a request gets
\* through when the bounded losses are spent.
WorkSpec ==
    /\ WorkInit /\ [][WorkNext]_workVars
    /\ WF_workVars(FetchWork) /\ WF_workVars(AckStep) /\ WF_workVars(EndRound)
    /\ WF_workVars(RestoreWork)

-----------------------------------------------------------------------------
(* Properties.                                                             *)

WorkTypeOK ==
    /\ gwSeq \in 0..MaxSeq /\ seqMem \in 0..MaxSeq /\ lost \in 0..MaxLost
    /\ toAck \subseteq Works /\ dirty \in BOOLEAN /\ stored \in BOOLEAN
    /\ workPc \in {"down", "idle", "ack"} /\ workCrashes \in 0..MaxWorkCrash
    /\ \A w \in Works : gwAck[w] \in 0..MaxSeq /\ held[w].ver \in 0..MaxSeq /\ want[w].ver \in 0..MaxSeq

\* A version whose parameters this agent cannot read is never acknowledged, not
\* even after a restart, when the stored view shows the work without units: the
\* drift stays visible at the gateway (AppliedWorkGrant::apply, restore).
DriftVisible ==
    \A w \in Works : want[w].spec = Broken => gwAck[w] # want[w].ver

\* Between two rounds work.json is what the daemon holds, the acknowledged
\* versions included, unless the last read or due write failed: a restart resumes the
\* very duties it had, and acknowledges nothing twice (refresh_work_grant, restore).
ViewCurrent ==
    workPc = "idle" /\ stored => workDisk = DeviceView(held, seqMem)

\* When the operator stops changing works and messages get through, the daemon
\* ends up with exactly the authorised duties and the gateway with an
\* acknowledgement of every readable version, whatever was lost and whenever the
\* daemon crashed in between (apply, ack_work, mark_acked).
WorksSettle ==
    <>[](/\ Duties(held) = Duties(want)
         /\ \A w \in Works : want[w].status # "absent" /\ want[w].spec # Broken => gwAck[w] = want[w].ver)
=============================================================================
