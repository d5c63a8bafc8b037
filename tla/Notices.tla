------------------------------ MODULE Notices ------------------------------
(***************************************************************************)
(* What a tick tells of the log inputs: the failures it prints, the inputs *)
(* it calls paused or resumed, whether the output is failing, and the      *)
(* status report that carries the changes to the control plane             *)
(* (daemon_telemetry.rs process_telemetry_inputs, daemon.rs                *)
(* run_once_with_failure_cache, daemon_runtime_state.rs).  Reading and     *)
(* delivering lines is module LogInput; here a batch is one step, a        *)
(* source is a number of unread batches, a spool a number of batches that  *)
(* could not be sent.                                                      *)
(***************************************************************************)
EXTENDS Integers, Sequences, SequencesExt, Places

CONSTANTS
    InputOrder,   \* the log inputs, in the order of the work grant
    Unsupported,  \* those whose path has a form that cannot be collected
    RemarkOrder,  \* what a batch may remark without failing, in the order it is told
    LocalOutputs, \* what agentd.toml may hold of the output
    SpoolLimit,   \* spool_max_bytes
    MaxUnread,
    MaxNoticeFaults, \* outages, lost reports, failed batches, crashes
    MaxMoves         \* changes of the grants and of the source files

VARIABLES
    works,     \* inputs that are granted
    uplink,    \* the uplink grant: "none", "off", "target" or "plain"
    local,     \* the output of agentd.toml: enabled, sound (can be built), framed (a tcp.framing that exists)
    missing,   \* inputs whose file is not there
    unread, spool, link,
    npc, nat,  \* where the tick stands
    reports,   \* InputTickReports of the input it is at
    fails,     \* TelemetryTick.failures
    paused,    \* TelemetryTick.notifications
    sentAny,   \* an outcome of the tick sent or replayed something
    worked,    \* an outcome of the tick did something
    printed,   \* the failures the last tick printed
    previousFailures, previousPaused, failing, active,
    pending,   \* pending_work_state_changes
    told,      \* inputs the control plane holds for paused
    unheard,   \* a report was lost, or the daemon restarted
    nfaults, moves

noticeVars == <<works, uplink, local, missing, unread, spool, link, npc, nat, reports, fails, paused, sentAny, worked,
                printed, previousFailures, previousPaused, failing, active, pending, told, unheard, nfaults, moves>>
grantVars == <<works, uplink, local>>
sourceVars == <<missing, unread, spool, link>>
tickVars == <<npc, nat, reports, fails, paused, sentAny, worked>>
memoryVars == <<printed, previousFailures, previousPaused, failing, active, pending>>
gateVars == <<told, unheard>>
boundVars == <<nfaults, moves>>

Inputs == ToSet(InputOrder)

\* Inputs are told apart by their id, and an input remarks a thing once.
ASSUME NoticesAssumption ==
    /\ InputOrder \in Seq(Inputs) /\ \A j, k \in 1..Len(InputOrder) : InputOrder[j] = InputOrder[k] => j = k
    /\ RemarkOrder \in Seq({"RecordWithheld", "CapacityExceeded", "NoiseDropped", "TruncatedLine", "SelectionFiltered"})
    /\ \A j, k \in 1..Len(RemarkOrder) : RemarkOrder[j] = RemarkOrder[k] => j = k
    /\ SpoolLimit \in Nat
    /\ LocalOutputs \subseteq [enabled : BOOLEAN, sound : BOOLEAN, framed : BOOLEAN]
NoReports == [sinkError |-> FALSE, remarks |-> {}]
Failure(kind, i) == [kind |-> kind, input |-> i]

NoticesInit ==
    /\ works = Inputs \ Unsupported /\ uplink = "none" /\ local \in LocalOutputs
    /\ missing = {} /\ unread = [i \in Inputs |-> 0] /\ spool = [i \in Inputs |-> 0] /\ link = TRUE
    /\ npc = "idle" /\ nat = 1 /\ reports = NoReports /\ fails = <<>> /\ paused = {}
    /\ sentAny = FALSE /\ worked = FALSE
    /\ printed = <<>> /\ previousFailures = {} /\ previousPaused = {} /\ failing = FALSE /\ active = FALSE
    /\ pending = <<>> /\ told = {} /\ unheard = FALSE
    /\ nfaults = MaxNoticeFaults /\ moves = MaxMoves

NoticeFault == nfaults > 0 /\ nfaults' = nfaults - 1 /\ UNCHANGED moves
Move == moves > 0 /\ moves' = moves - 1 /\ UNCHANGED nfaults

-----------------------------------------------------------------------------
(* effective_output: the grant of the control plane before the configuration. *)
Enabled == uplink = "target" \/ (uplink # "off" /\ local.enabled)
\* from_logs_output: a granted target makes the output tcp, with the framing of the configuration.
Buildable == IF uplink = "target" THEN local.framed ELSE local.sound

-----------------------------------------------------------------------------
(* The end of a tick. *)

\* Mutant: only batches that sent something directly or from the spool count.
IsActiveByOutcome(fs, did) == did

\* TelemetryTick::is_active: what the configuration drops is not work.
IsActive(fs, did) ==
    did \/ \E k \in DOMAIN fs : fs[k].kind \notin {"NoiseDropped", "SelectionFiltered"}

\* UplinkHealth::note_tick: only what was really sent ends a failure.
NoteTick(was, failed, sentSomething) == IF failed THEN TRUE ELSE was /\ ~sentSomething

\* filter_new_failures: a failure the previous tick had is not printed again.
FilterNew(fs) == At(fs, {k \in DOMAIN fs : fs[k] \notin previousFailures})
EmitFailures(fs) == printed' = FilterNew(fs)

\* Changes go to the control plane in the order they happened.
Change(i, state) == [input |-> i, state |-> state]

\* work_state_changes: entered since the last tick, and left since the last tick.
WorkStateChanges(before, now) ==
    LET entered == At(InputOrder, {k \in DOMAIN InputOrder : InputOrder[k] \in now \ before})
        left == At(InputOrder, {k \in DOMAIN InputOrder : InputOrder[k] \in before \ now})
    IN  [k \in DOMAIN entered |-> Change(entered[k], "Paused")] \o [k \in DOMAIN left |-> Change(left[k], "Resumed")]

\* What a tick with these failures and outcomes leaves behind.
Conclude(fs, sentSomething, did) ==
    /\ EmitFailures(fs)
    /\ previousFailures' = ToSet(fs)
    /\ failing' = NoteTick(failing, \E k \in DOMAIN fs : fs[k].kind = "OutputWriteFailed", sentSomething)
    /\ active' = IsActive(fs, did)
    /\ npc' = "idle" /\ nat' = 1 /\ reports' = NoReports /\ fails' = <<>> /\ paused' = {}
    /\ sentAny' = FALSE /\ worked' = FALSE

\* Mutant: what is pending is replaced.
EmitReplaces(changes) == pending' = changes

EmitChanges(changes) == pending' = pending \o changes

DiffPaused(ps) ==
    /\ EmitChanges(WorkStateChanges(previousPaused, ps))
    /\ previousPaused' = ps

\* The gate is closed: nothing is read and nothing is told, and what was paused is not compared.
Standby ==
    /\ npc = "idle" /\ ~Enabled
    /\ Conclude(<<>>, FALSE, FALSE)
    /\ UNCHANGED <<grantVars, sourceVars, previousPaused, pending, gateVars, boundVars>>

\* invalid_output_tick: the output cannot be built.
InvalidOutput ==
    /\ npc = "idle" /\ Enabled /\ ~Buildable
    /\ LET granted == At(InputOrder, {k \in DOMAIN InputOrder : InputOrder[k] \in works})
       IN  Conclude([k \in DOMAIN granted |-> Failure("InvalidOutput", granted[k])], FALSE, FALSE)
    /\ DiffPaused({})
    /\ UNCHANGED <<grantVars, sourceVars, gateVars, boundVars>>

BeginInputs ==
    /\ npc = "idle" /\ Enabled /\ Buildable /\ npc' = "input" /\ nat' = 1 /\ printed' = <<>>
    /\ UNCHANGED <<grantVars, sourceVars, reports, fails, paused, sentAny, worked, previousFailures, previousPaused,
                   failing, active, pending, gateVars, boundVars>>

EndInputs ==
    /\ npc = "input" /\ nat > Len(InputOrder)
    /\ Conclude(fails, sentAny, worked)
    /\ DiffPaused(paused)
    /\ UNCHANGED <<grantVars, sourceVars, gateVars, boundVars>>

-----------------------------------------------------------------------------
(* One input of the tick. *)

Input == InputOrder[nat]
AtInput == npc = "input" /\ nat <= Len(InputOrder)
Forward == npc' = "input" /\ nat' = nat + 1 /\ reports' = NoReports

NotGranted ==
    /\ AtInput /\ Input \notin works /\ Forward
    /\ UNCHANGED <<grantVars, sourceVars, fails, paused, sentAny, worked, memoryVars, gateVars, boundVars>>

\* unsupported_target: told as missing, and nothing else is done for it.
UnsupportedTarget ==
    /\ AtInput /\ Input \in works \cap Unsupported /\ Forward
    /\ fails' = Append(fails, Failure("MissingInput", Input))
    /\ UNCHANGED <<grantVars, sourceVars, paused, sentAny, worked, memoryVars, gateVars, boundVars>>

\* Mutant: what is replayed for a missing source does not count as sent.
SourceMissingUncounted ==
    /\ AtInput /\ Input \in (works \cap missing) \ Unsupported /\ Forward
    /\ fails' = fails \o <<Failure("MissingInput", Input)>>
                      \o (IF spool[Input] > 0 /\ ~link THEN <<Failure("ProcessingFailed", Input)>> ELSE <<>>)
    /\ spool' = IF link THEN [spool EXCEPT ![Input] = 0] ELSE spool
    /\ UNCHANGED <<grantVars, missing, unread, link, paused, sentAny, worked, memoryVars, gateVars, boundVars>>

\* The source is missing: the spool is still replayed, a failure of that is one of processing.
SourceMissing ==
    /\ AtInput /\ Input \in (works \cap missing) \ Unsupported /\ Forward
    /\ fails' = fails \o <<Failure("MissingInput", Input)>>
                      \o (IF spool[Input] > 0 /\ ~link THEN <<Failure("ProcessingFailed", Input)>> ELSE <<>>)
    /\ IF spool[Input] > 0 /\ link
       THEN spool' = [spool EXCEPT ![Input] = 0] /\ sentAny' = TRUE /\ worked' = TRUE
       ELSE UNCHANGED <<spool, sentAny, worked>>
    /\ UNCHANGED <<grantVars, missing, unread, link, paused, memoryVars, gateVars, boundVars>>

\* The first batch of an input, or another one in the same tick.
Reading == (AtInput /\ Input \in works \ (missing \cup Unsupported)) \/ npc = "batch"

\* The failures of an input are pushed once, after its last batch.
RemarkFailures(r) ==
    LET remarks == At(RemarkOrder, {k \in DOMAIN RemarkOrder : RemarkOrder[k] \in r.remarks})
    IN  [k \in DOMAIN remarks |-> Failure(remarks[k], Input)]
Push(r) ==
    RemarkFailures(r)
        \o (IF r.sinkError THEN <<Failure("OutputWriteFailed", Input)>> ELSE <<>>)

\* A batch that returns an error ends the input; what earlier batches remarked is still told.
EndsWith(kind) == Forward /\ fails' = fails \o <<Failure(kind, Input)>> \o Push(reports)

\* The spool cannot be replayed: over its limit the input is paused, else the batch fails.
ReplayFails ==
    /\ Reading /\ spool[Input] > 0 /\ ~link
    /\ IF spool[Input] >= SpoolLimit
       THEN /\ Forward /\ worked' = TRUE
            /\ paused' = paused \cup {Input}
            /\ fails' = fails \o Push([reports EXCEPT !.sinkError = TRUE])
       ELSE EndsWith("OutputWriteFailed") /\ UNCHANGED <<paused, worked>>
    /\ UNCHANGED <<grantVars, sourceVars, sentAny, memoryVars, gateVars, boundVars>>

\* Reading or recording fails for another reason.
BatchFails ==
    /\ Reading /\ NoticeFault /\ EndsWith("ProcessingFailed")
    /\ UNCHANGED <<grantVars, sourceVars, paused, sentAny, worked, memoryVars, gateVars>>

\* InputTickReports::observe: amounts of several batches are put together.
Observe(r, remarks, sinkError) ==
    [r EXCEPT !.remarks = @ \cup remarks, !.sinkError = @ \/ sinkError]

\* Mutant: a batch whose records went to the spool is followed by another.
ProgressAlways(read, sinkError) == read

\* InputTickReports::made_progress: lines were read and the output took them.
MadeProgress(read, sinkError) == read /\ ~sinkError

\* A batch: the spool first, then the lines.  Those over the memory budget go to the spool,
\* all of them when the output does not take them.  Another batch follows while there is
\* progress and time.
Batch ==
    /\ Reading /\ (spool[Input] = 0 \/ link)
    /\ \E remarks \in {{}} \cup {{x} : x \in ToSet(RemarkOrder)}, left \in 0..SpoolLimit :
        LET read == unread[Input] > 0
            records == read /\ remarks \cap {"NoiseDropped", "RecordWithheld"} = {}
            sinkError == records /\ ~link
            r == Observe(reports, remarks, sinkError)
        IN  /\ read \/ remarks \subseteq {"CapacityExceeded", "SelectionFiltered"}
            /\ left > 0 => records
            /\ sinkError => left > 0
            /\ unread' = [unread EXCEPT ![Input] = IF read THEN @ - 1 ELSE @]
            /\ spool' = [spool EXCEPT ![Input] = left]
            /\ sentAny' = (sentAny \/ spool[Input] > 0 \/ (records /\ link))
            /\ worked' = (worked \/ spool[Input] > 0 \/ records)
            /\ \/ /\ MadeProgress(read, sinkError)
                  /\ npc' = "batch" /\ reports' = r /\ UNCHANGED <<nat, fails>>
               \/ /\ Forward /\ fails' = fails \o Push(r)
    /\ UNCHANGED <<grantVars, missing, link, paused, memoryVars, gateVars, boundVars>>

-----------------------------------------------------------------------------
(* The status report. *)

\* build_uplink_state: what is in effect, not what was granted.
UplinkState ==
    [enabled |-> Enabled, source |-> IF uplink = "none" THEN "local" ELSE "grant", failing |-> failing]

\* What the control plane holds for paused after these changes: the last one of an input counts.
Heard(view, changes) ==
    {i \in Inputs :
        \/ i \in view /\ \A k \in DOMAIN changes : changes[k].input # i
        \/ \E k \in DOMAIN changes : /\ changes[k] = Change(i, "Paused")
                                     /\ \A j \in DOMAIN changes : j > k => changes[j].input # i}

\* The changes are taken out before the report is sent, and not put back when it fails.
ReportSent ==
    /\ npc = "idle" /\ pending # <<>> /\ pending' = <<>>
    /\ told' = Heard(told, pending)
    /\ UNCHANGED <<grantVars, sourceVars, tickVars, printed, previousFailures, previousPaused, failing, active, unheard, boundVars>>
ReportFails ==
    /\ npc = "idle" /\ pending # <<>> /\ pending' = <<>> /\ NoticeFault /\ unheard' = TRUE
    /\ UNCHANGED <<grantVars, sourceVars, tickVars, printed, previousFailures, previousPaused, failing, active, told>>

-----------------------------------------------------------------------------
(* Files, the link, the grants and the process. *)

LinesArrive ==
    /\ \E i \in Inputs \ missing : unread[i] < MaxUnread /\ unread' = [unread EXCEPT ![i] = @ + 1]
    /\ Move
    /\ UNCHANGED <<grantVars, missing, spool, link, tickVars, memoryVars, gateVars>>

\* The file of an input is moved away, with what was not read; or one is there again.
FileMoves ==
    /\ Move
    /\ \E i \in Inputs :
        /\ missing' = IF i \in missing THEN missing \ {i} ELSE missing \cup {i}
        /\ unread' = [unread EXCEPT ![i] = 0]
    /\ UNCHANGED <<grantVars, spool, link, tickVars, memoryVars, gateVars>>

LinkDrops ==
    /\ link /\ link' = FALSE /\ NoticeFault
    /\ UNCHANGED <<grantVars, missing, unread, spool, tickVars, memoryVars, gateVars>>
LinkReturns ==
    /\ ~link /\ link' = TRUE
    /\ UNCHANGED <<grantVars, missing, unread, spool, tickVars, memoryVars, gateVars, boundVars>>

\* The loop pulls both grants before the tick.
GrantsChange ==
    /\ npc = "idle" /\ Move
    /\ \/ uplink' \in {"none", "off", "target", "plain"} \ {uplink} /\ UNCHANGED works
       \/ \E i \in Inputs : works' = (IF i \in works THEN works \ {i} ELSE works \cup {i}) /\ UNCHANGED uplink
    /\ UNCHANGED <<local, sourceVars, tickVars, memoryVars, gateVars>>

\* What the loop remembers is not stored.
NoticeCrash ==
    /\ NoticeFault /\ unheard' = TRUE
    /\ npc' = "idle" /\ nat' = 1 /\ reports' = NoReports /\ fails' = <<>> /\ paused' = {}
    /\ sentAny' = FALSE /\ worked' = FALSE
    /\ printed' = <<>> /\ previousFailures' = {} /\ previousPaused' = {} /\ failing' = FALSE /\ active' = FALSE /\ pending' = <<>>
    /\ UNCHANGED <<grantVars, sourceVars, told>>

TickStep ==
    \/ Standby \/ InvalidOutput \/ BeginInputs \/ NotGranted \/ UnsupportedTarget \/ SourceMissing \/ ReplayFails \/ Batch \/ EndInputs
NoticesNext ==
    \/ TickStep \/ BatchFails \/ ReportSent \/ ReportFails
    \/ LinesArrive \/ FileMoves \/ LinkDrops \/ LinkReturns \/ GrantsChange \/ NoticeCrash
=============================================================================
