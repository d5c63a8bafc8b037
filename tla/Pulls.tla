-------------------------------- MODULE Pulls --------------------------------
(***************************************************************************)
(* The other settings a tick pulls from the gateway, and the two periodic  *)
(* reports they throttle: the discovery policy (refresh_discovery_policy), *)
(* the search roots (source_search_policy.rs), the snapshot policy         *)
(* (discovery_snapshot.rs), the fact summary and the discovery snapshot    *)
(* (report_fact_summary_with, discovery_snapshot_due of runtime/daemon.rs).*)
(* Time is counted in ticks; every timer is the number of ticks since the  *)
(* attempt it records, capped where it no longer matters.                  *)
(***************************************************************************)
EXTENDS Integers, FiniteSets

CONSTANTS
    Roots,        \* search roots a gateway may send
    BadRoots,     \* those sanitize refuses: relative, "/", "..", wildcards
    None,         \* no endpoint or no setting at the gateway (404), or none applied
    Unset,        \* the gateway has no snapshot setting (204)
    Lost,         \* the answer of a pull that failed
    MaxRoots,     \* MAX_ROOTS_PER_SERVICE
    Intervals,    \* snapshot intervals a gateway may send, in ticks
    MinInterval,  \* MIN_INTERVAL_SECONDS
    PolicyEvery,  \* DISCOVERY_POLICY_FETCH_MIN_INTERVAL
    FetchEvery,   \* WORK_FETCH_MIN_INTERVAL_MS
    FactEvery,    \* FACT_REPORT_MIN_INTERVAL_MS
    RootLists,    \* the lists of roots a gateway sends in these runs
    ClockSteps,   \* how far a wall clock step goes back
    Cap,          \* bound: a timer that old is past every interval
    MaxEdits,     \* bound: changes at the gateway and of the clock
    MaxFail,      \* bound: pulls that fail
    MaxPullCrash  \* bound: restarts of the daemon

ASSUME PullBounds ==
    /\ MinInterval \in Nat \ {0} /\ PolicyEvery \in Nat \ {0} /\ FetchEvery \in Nat \ {0}
    /\ FactEvery \in Nat \ {0} /\ ClockSteps \subseteq Nat /\ RootLists \subseteq SUBSET Roots
    /\ MaxEdits \in Nat /\ MaxFail \in Nat /\ MaxPullCrash \in Nat /\ MaxRoots \in Nat
    /\ Intervals \subseteq Nat /\ Intervals # {} /\ BadRoots \subseteq Roots
    /\ Cap \in Nat
    /\ \A every \in Intervals \cup {MinInterval, PolicyEvery, FetchEvery, FactEvery} : every <= Cap

\* None and Lost are no uplink answers, and Unset is no setting.
ASSUME PullNames ==
    /\ {None, Lost} \cap {"off", "target", "enabled", "rejected"} = {}
    /\ Unset \notin [enabled : BOOLEAN, interval : Intervals] \cup {None, Lost}

VARIABLES
    gw,         \* gateway: [policy, roots, uplink, snap]
    policy,     \* agentd: version of the applied discovery policy (0: none)
    searchFile, \* state/source_search_policy.json: the roots to search
    snap,       \* agentd: AppliedSnapshotPolicy.grant
    local,      \* [telemetry.logs.output] of the agent's file
    grant,      \* agentd: AppliedUplink.grant
    age,        \* timer -> ticks since its last attempt
    factAge,    \* wall clock now minus last_attempt_at_ms of fact_report.json
    quiet,      \* ticks with a sink that carries facts since the last attempt
    steps,      \* steps of the wall clock since the last attempt
    idleSnap,   \* ticks since the last snapshot was handed to the sink
    pullPc,     \* the pull that is next
    edits, fails, pullCrashes   \* counters of the bounds

pullVars == <<gw, policy, searchFile, snap, local, grant, age, factAge, quiet, steps, idleSnap, pullPc,
              edits, fails, pullCrashes>>

Timers == {"policy", "search", "uplink", "snap", "sent"}
Never == Cap + 1

CappedInc(n) == IF n = Never THEN Never ELSE IF n < Cap THEN n + 1 ELSE n
Elapsed(timer, interval) == age[timer] >= interval

\* Local configuration: [discovery] of the agent's own file.
LocalSnap == [enabled |-> TRUE, interval |-> MinInterval]

-----------------------------------------------------------------------------
(* Operators.                                                              *)

\* Roots that are not plain absolute directories are refused, then the list is
\* cut to the limit; which ones survive the cut is the order of the message.
Sanitize(roots) ==
    LET kept == roots \ BadRoots
    IN  {r \in SUBSET kept : IF Cardinality(kept) <= MaxRoots THEN r = kept
                             ELSE Cardinality(r) = MaxRoots}

AtLeastMin(n) == IF n < MinInterval THEN MinInterval ELSE n

EffectiveSnap(setting) ==
    IF setting = None THEN [LocalSnap EXCEPT !.interval = AtLeastMin(@)]
    ELSE [enabled |-> setting.enabled, interval |-> AtLeastMin(setting.interval)]

\* The grant overrides the local output: it closes it, or opens it and sends it
\* to the target it names; without a target the local output decides.
EffectiveOutput ==
    CASE grant = "off" -> [local EXCEPT !.enabled = FALSE]
      [] grant = "target" -> [kind |-> "tcp", enabled |-> TRUE]
      [] OTHER -> local

SnapshotActive ==
    EffectiveSnap(snap).enabled /\ EffectiveOutput = [kind |-> "tcp", enabled |-> TRUE]

\* Only a tcp output carries fact frames; a closed one (standby) carries them too.
CarriesFacts == EffectiveOutput.kind = "tcp"

\* Mutant: an attempt in the future throttles until the clock has caught up.
WithinNotFailOpen == factAge # Never /\ factAge < FactEvery

\* A state of the past within the interval throttles; a missing one (Never) or
\* one in the future (a negative age) does not.
WithinFactInterval == factAge # Never /\ factAge >= 0 /\ factAge < FactEvery

-----------------------------------------------------------------------------
(* The pulls of one tick, in the order of run_forever_async.               *)

Skip(timer, interval, at, next) ==
    /\ pullPc = at /\ ~Elapsed(timer, interval)
    /\ pullPc' = next
    /\ UNCHANGED <<gw, policy, searchFile, snap, local, grant, age, factAge, quiet, steps, idleSnap,
                   edits, fails, pullCrashes>>

\* The attempt is recorded before the request, so that a failure is throttled
\* too; the request is answered, or it fails.
Attempt(timer, interval, at, next, answer) ==
    /\ pullPc = at /\ Elapsed(timer, interval)
    /\ age' = [age EXCEPT ![timer] = 0]
    /\ pullPc' = next
    /\ answer = Lost => fails < MaxFail
    /\ fails' = fails + (IF answer = Lost THEN 1 ELSE 0)
    /\ UNCHANGED <<gw, local, factAge, quiet, steps, idleSnap, edits, pullCrashes>>

\* A gateway without a table answers 503: like a failure, it changes nothing.
PolicyAfter(answer) == IF answer \in {Lost, 0} THEN policy ELSE answer

RefreshPolicy ==
    \/ Skip("policy", PolicyEvery, "policy", "search")
    \/ \E answer \in {gw.policy, Lost} :
          /\ Attempt("policy", PolicyEvery, "policy", "search", answer)
          /\ policy' = PolicyAfter(answer)
          /\ UNCHANGED <<searchFile, grant, snap>>

\* A gateway without the endpoint answers 404 and leaves the roots on disk.
SearchAfter(answer) == IF answer \in {Lost, None} THEN {searchFile} ELSE Sanitize(answer)

RefreshSearch ==
    \/ Skip("search", PolicyEvery, "search", "uplink")
    \/ \E answer \in {gw.roots, Lost} :
          /\ Attempt("search", PolicyEvery, "search", "uplink", answer)
          /\ searchFile' \in SearchAfter(answer)
          /\ UNCHANGED <<policy, grant, snap>>

\* A refused credential closes the output at once; a failure, or a gateway
\* without the endpoint (404), keeps the last grant.
ObserveUplink(answer) ==
    CASE answer \in {Lost, None} -> grant
      [] answer = "rejected" -> "off"
      [] OTHER -> answer

RefreshUplink ==
    \/ Skip("uplink", FetchEvery, "uplink", "snap")
    \/ \E answer \in {gw.uplink, Lost} :
          /\ Attempt("uplink", FetchEvery, "uplink", "snap", answer)
          /\ grant' = ObserveUplink(answer)
          /\ UNCHANGED <<policy, searchFile, snap>>

\* Mutant: a gateway without the endpoint leaves the last setting applied.
ObserveSnapKeeps(answer) == IF answer \in {Lost, Unset, None} THEN snap ELSE answer

\* Granted replaces, 404 clears what was applied.  A 204 is a success to
\* is_success(), its empty body does not parse, and the fetch counts as failed:
\* like a lost one it keeps what was applied.
ObserveSnap(answer) == IF answer \in {Lost, Unset} THEN snap ELSE answer

RefreshSnap ==
    \/ Skip("snap", FetchEvery, "snap", "send")
    \/ \E answer \in {gw.snap, Lost} :
          /\ Attempt("snap", FetchEvery, "snap", "send", answer)
          /\ snap' = ObserveSnap(answer)
          /\ UNCHANGED <<policy, searchFile, grant>>

\* Mutant: the period is used up while nothing can be sent.
RecordsInactive ==
    EffectiveSnap(snap).enabled /\ (age["sent"] = Never \/ age["sent"] >= EffectiveSnap(snap).interval)

\* The snapshot timer is an attempt, recorded only when the output is active.
SnapshotDue == SnapshotActive /\ (age["sent"] = Never \/ age["sent"] >= EffectiveSnap(snap).interval)

RecordsSnapshot == SnapshotDue

FactDue == CarriesFacts /\ ~WithinFactInterval

\* The reports of the tick; then it sleeps, and all timers advance by one tick.
Send ==
    /\ pullPc = "send"
    /\ age' = [t \in Timers |-> IF t = "sent" /\ RecordsSnapshot THEN 1 ELSE CappedInc(age[t])]
    /\ idleSnap' = IF SnapshotDue THEN 1 ELSE CappedInc(idleSnap)
    /\ factAge' = IF FactDue THEN 1 ELSE CappedInc(factAge)
    /\ steps' = IF FactDue THEN 0 ELSE steps
    /\ quiet' = IF FactDue THEN 0 ELSE IF CarriesFacts THEN quiet + 1 ELSE quiet
    /\ pullPc' = "policy"
    /\ UNCHANGED <<gw, policy, searchFile, snap, local, grant, edits, fails, pullCrashes>>

-----------------------------------------------------------------------------
(* Environment.                                                            *)

Edit(change) ==
    /\ edits < MaxEdits /\ edits' = edits + 1
    /\ gw' = change /\ gw' # gw
    /\ UNCHANGED <<policy, searchFile, snap, local, grant, age, factAge, quiet, steps, idleSnap, pullPc,
                   fails, pullCrashes>>

EditPolicy == Edit([gw EXCEPT !.policy = @ + 1])
EditRoots == \E r \in RootLists \cup {None} : Edit([gw EXCEPT !.roots = r])
EditUplink == \E u \in {None, "off", "target", "enabled", "rejected"} : Edit([gw EXCEPT !.uplink = u])
EditSnap ==
    \E s \in [enabled : BOOLEAN, interval : Intervals] \cup {None, Unset} : Edit([gw EXCEPT !.snap = s])

\* The wall clock steps back: the recorded attempt lies in the future.
StepClock ==
    /\ factAge # Never /\ edits < MaxEdits
    /\ \E back \in ClockSteps : factAge' = factAge - back
    /\ steps' = steps + 1 /\ edits' = edits + 1
    /\ UNCHANGED <<gw, policy, searchFile, snap, local, grant, age, quiet, idleSnap, pullPc, fails, pullCrashes>>

\* Timers and applied settings live in the process; fact_report.json and the
\* search roots survive it.
PullRestart ==
    /\ pullCrashes < MaxPullCrash /\ pullCrashes' = pullCrashes + 1
    /\ policy' = 0 /\ grant' = None /\ snap' = None
    /\ age' = [t \in Timers |-> Never]
    /\ idleSnap' = Never
    /\ pullPc' = "policy"
    /\ UNCHANGED <<gw, searchFile, local, factAge, quiet, steps, edits, fails>>

PullInit ==
    /\ gw \in {[policy |-> 0, roots |-> None, uplink |-> None, snap |-> s] : s \in {None, Unset}}
    /\ policy = 0 /\ searchFile = {} /\ snap = None
    /\ local \in [kind : {"tcp", "file"}, enabled : BOOLEAN] /\ grant = None
    /\ age = [t \in Timers |-> Never] /\ factAge = Never
    /\ quiet = 0 /\ steps = 0 /\ idleSnap = Never
    /\ pullPc = "policy" /\ edits = 0 /\ fails = 0 /\ pullCrashes = 0

PullTick == RefreshPolicy \/ RefreshSearch \/ RefreshUplink \/ RefreshSnap \/ Send

PullNext ==
    PullTick \/ EditPolicy \/ EditRoots \/ EditUplink \/ EditSnap \/ StepClock \/ PullRestart

\* The loop always takes its next tick; failures are bounded.
PullSpec == PullInit /\ [][PullNext]_pullVars /\ WF_pullVars(PullTick)

-----------------------------------------------------------------------------
(* Properties.                                                             *)

PullTypeOK ==
    /\ policy \in 0..MaxEdits /\ grant \in {None, "off", "target", "enabled"}
    /\ searchFile \subseteq Roots
    /\ age \in [Timers -> 0..Cap \cup {Never}]
    /\ factAge \in Int /\ quiet \in Nat /\ steps \in 0..MaxEdits

\* While the output can carry it, a fact summary is attempted at least once per
\* interval; a wall clock that steps back, however far, delays it by one more
\* interval at most (within_fact_report_min_interval is fail-open).
FactsNotSilent == quiet <= FactEvery * (1 + steps)

\* After a tick with an active output the last snapshot is younger than the
\* interval in force: standby and file output use up no period, and a restart
\* sends at once (discovery_snapshot_due and the recording of the attempt).
SnapshotPrompt ==
    [][Send /\ SnapshotActive
         => idleSnap' <= EffectiveSnap(snap).interval]_pullVars

\* When the operator stops changing the settings, the agent ends up with them: a
\* failed pull is repeated, and a snapshot setting is dropped when the endpoint goes
\* (AppliedSnapshotPolicy::observe, apply_discovery_policy, refresh).  A gateway
\* that answers 204 (gw.snap = Unset) does not get its revocation through, although
\* the comments of fetch_discovery_snapshot say so: that answer is excepted.
SettingsConverge ==
    <>[](/\ gw.snap # Unset => snap = gw.snap
         /\ gw.uplink # None => grant = ObserveUplink(gw.uplink)
         /\ gw.policy # 0 => policy = gw.policy
         /\ gw.roots # None => searchFile \in Sanitize(gw.roots))
=============================================================================
