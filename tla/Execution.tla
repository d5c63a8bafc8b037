----------------------------- MODULE Execution -----------------------------
(***************************************************************************)
(* The execution core of wist-agentd: the durable execution queue, the     *)
(* spawned wist-exec child, its result, the local report, the quarantine   *)
(* record, and the recovery that runs at the start of every daemon tick.   *)
(*                                                                         *)
(* One step is at most one durable write (every write is an atomic         *)
(* tmp+rename), so a crash may fall between any two writes.  The daemon is *)
(* one sequential loop; what runs concurrently with it are the children,   *)
(* the clock (deadlines) and the environment (crashes, corrupt files, I/O  *)
(* errors, a process identity that cannot be read).                        *)
(***************************************************************************)
EXTENDS Naturals, Sequences, FiniteSets

CONSTANTS
  Exec,         \* execution ids that submit_local_plan may hand out
  NoExec,       \* "the daemon is not working on an execution"
  Key,          \* Key[e]: the (action_id, plan_digest) pair of execution e
  BadExit,      \* TRUE: a child may exit non-zero after it wrote its result
  MaxSpawns,    \* bound: spawns of one execution
  MaxCrashes,   \* bound: daemon crashes
  MaxFaults     \* bound: corrupted files, failed writes, unreadable identities

ASSUME ExecutionAssumption ==
  /\ NoExec \notin Exec
  /\ BadExit \in BOOLEAN
  /\ MaxSpawns \in Nat \ {0}
  /\ MaxCrashes \in Nat
  /\ MaxFaults \in Nat

VARIABLES
  \* files under run_dir/actions/<id> and state_dir
  plan,       \* plan.json: "none", "ok" or "bad"
  queue,      \* execution_queue.json
  running,    \* running/<id>.json: which child it names
  result,     \* result.json
  rep,        \* reporting/<id>.json: the digest it records
  env,        \* reporting/<id>.report.json: the result and digest it carries
  hist,       \* history/<id>.json: the quarantine record
  \* the operating system
  child,      \* child[e][k]: the k-th process spawned for e
  spawns,     \* how many processes were spawned for e
  late,       \* executions whose deadline_at has elapsed
  \* the daemon's memory
  pc,         \* where the tick is
  cur,        \* the execution it works on
  ctx,        \* on whose behalf: "scan" (recovery), "head", "exec"
  todo,       \* running/*.json entries the recovery scan has still to visit
  lq,         \* the queue drain_next loaded
  lres,       \* the ActionResult in hand
  cls,        \* ExitClassification of the awaited child
  known,      \* the quarantine record will name action_id and plan_digest
  \* bounds and bookkeeping
  crashes, faults,
  unrec,      \* spawns of e whose running record was never stored
  accepted    \* executions submit_local_plan accepted

disk   == <<plan, queue, running, result, rep, env, hist>>
os     == <<child, spawns, late>>
daemon == <<pc, cur, ctx, todo, lq, lres, cls, known>>
books  == <<crashes, faults, unrec, accepted>>
vars   == <<disk, os, daemon, books>>

-----------------------------------------------------------------------------
(* Values *)

\* A result file: what it says and which child wrote it (0: the daemon).
ResultKinds == {"none", "bad", "succeeded", "rejected", "failed", "timed_out", "recovered"}
ResultSet == [kind : ResultKinds, by : 0..MaxSpawns]
NoResult == [kind |-> "none", by |-> 0]
Synth(kind) == [kind |-> kind, by |-> 0]
Readable(r) == r.kind \notin {"none", "bad"}

RunningSet == [st : {"none", "ok", "bad"}, pid : 0..MaxSpawns]
NoRunning == [st |-> "none", pid |-> 0]

RepSet == [st : {"none", "ok", "bad"}, dig : ResultSet]
NoRep == [st |-> "none", dig |-> NoResult]
EnvSet == [st : {"none", "ok", "bad"}, res : ResultSet, dig : ResultSet]
NoEnv == [st |-> "none", res |-> NoResult, dig |-> NoResult]

HistSet == [quarantined : BOOLEAN, known : BOOLEAN]
NoHist == [quarantined |-> FALSE, known |-> FALSE]

\* live: working; wrote: result.json persisted, process still there;
\* ok / err: exited with status 0 / with another status or by a signal.
ChildStates == {"none", "live", "wrote", "ok", "err"}
Alive(c) == c \in {"live", "wrote"}

PCs == {"down", "idle", "submit", "scan", "recInspect", "kill1", "kill2", "synth",
        "ensure", "prepEnv", "prepState", "rebuild", "reported", "drain", "head",
        "headInspect", "reconcile", "spawn", "store", "wait", "grace", "collect",
        "finish", "qstore", "q1", "q2", "q3", "q4", "q5"}

InQueue(e, q) == \E i \in 1..Len(q) : q[i] = e

\* ExecutionQueueState::remove; an id is queued at most once.
Remove(q, e) ==
  IF InQueue(e, q)
  THEN LET k == CHOOSE i \in 1..Len(q) : q[i] = e
       IN  [j \in 1..(Len(q) - 1) |-> IF j < k THEN q[j] ELSE q[j + 1]]
  ELSE q

\* The process a running record names.  A daemon that has read the record goes
\* on with the pid it read, so a corrupted record keeps its pid here.
ProcessOf(e) == child[e][running[e].pid]
ProcessAlive(e) == running[e].pid # 0 /\ Alive(ProcessOf(e))

\* LocalReportInspection::Ready
Ready(e) == rep[e].st = "ok" /\ env[e].st = "ok"

\* Mutant: finished executions are not looked at.
TrackedUnfinished(f) == InQueue(f, queue) \/ running[f].st = "ok"

\* find_duplicate_execution: unreadable files are skipped.
Tracked(f) ==
  \/ InQueue(f, queue)
  \/ running[f].st = "ok"
  \/ rep[f].st = "ok"
  \/ hist[f].quarantined /\ hist[f].known
Duplicate(e) == \E f \in Exec : Key[f] = Key[e] /\ Tracked(f)

-----------------------------------------------------------------------------
Init ==
  /\ plan = [e \in Exec |-> "none"]
  /\ queue = <<>>
  /\ running = [e \in Exec |-> NoRunning]
  /\ result = [e \in Exec |-> NoResult]
  /\ rep = [e \in Exec |-> NoRep]
  /\ env = [e \in Exec |-> NoEnv]
  /\ hist = [e \in Exec |-> NoHist]
  /\ child = [e \in Exec |-> [k \in 1..MaxSpawns |-> "none"]]
  /\ spawns = [e \in Exec |-> 0]
  /\ late = {}
  /\ pc = "idle" /\ cur = NoExec /\ ctx = "none" /\ todo = {} /\ lq = <<>>
  /\ lres = NoResult /\ cls = "none" /\ known = FALSE
  /\ crashes = 0 /\ faults = 0
  /\ unrec = [e \in Exec |-> 0]
  /\ accepted = {}

\* The daemon forgets everything volatile; next is where it goes.
Forget(next) ==
  /\ pc' = next /\ cur' = NoExec /\ ctx' = "none" /\ todo' = {} /\ lq' = <<>>
  /\ lres' = NoResult /\ cls' = "none" /\ known' = FALSE

\* An error that no caller contains ends run_forever: the process exits.
TickError == Forget("down") /\ UNCHANGED <<disk, os, books>>

Fault == faults < MaxFaults /\ faults' = faults + 1

Goto(next) == pc' = next /\ UNCHANGED <<cur, ctx, todo, lq, lres, cls, known>>

\* Enter quarantine_execution for cur, which still has its running record.
Quarantine(e, knows, by) ==
  /\ pc' = "q1" /\ cur' = e /\ ctx' = by /\ known' = knows
  /\ UNCHANGED <<todo, lq, lres, cls>>

-----------------------------------------------------------------------------
(* submit_local_plan *)

SubmitPlan(e) ==
  /\ pc = "idle"
  /\ plan[e] = "none"
  /\ ~ Duplicate(e)
  /\ plan' = [plan EXCEPT ![e] = "ok"]
  /\ pc' = "submit" /\ cur' = e
  /\ UNCHANGED <<queue, running, result, rep, env, hist, os, ctx, todo, lq, lres, cls, known, books>>

\* Mutant: a new item is put in front.
SubmitInFront ==
  /\ pc = "submit"
  /\ queue' = <<cur>> \o queue
  /\ accepted' = accepted \cup {cur}
  /\ Forget("idle")
  /\ UNCHANGED <<plan, running, result, rep, env, hist, os, crashes, faults, unrec>>

SubmitQueue ==
  /\ pc = "submit"
  /\ queue' = Append(queue, cur)
  /\ accepted' = accepted \cup {cur}
  /\ Forget("idle")
  /\ UNCHANGED <<plan, running, result, rep, env, hist, os, crashes, faults, unrec>>

\* The queue cannot be written: the workdir is removed, the caller gets Err.
SubmitQueueFails ==
  /\ pc = "submit"
  /\ Fault
  /\ plan' = [plan EXCEPT ![cur] = "none"]
  /\ Forget("idle")
  /\ UNCHANGED <<queue, running, result, rep, env, hist, os, crashes, unrec, accepted>>

-----------------------------------------------------------------------------
(* recover_incomplete_executions: one pass over running/*.json *)

TickBegin ==
  /\ pc = "idle"
  /\ todo' = {e \in Exec : running[e].st # "none"}
  /\ pc' = "scan"
  /\ UNCHANGED <<disk, os, cur, ctx, lq, lres, cls, known, books>>

ScanDone ==
  /\ pc = "scan" /\ todo = {}
  /\ Forget("drain")
  /\ UNCHANGED <<disk, os, books>>

\* An unreadable running record is quarantined under the identity its queue
\* entry has, if it is still queued; an unreadable plan or result under the
\* identity in the running record.
ScanQuarantine(e) ==
  /\ pc = "scan" /\ e \in todo
  /\ \/ running[e].st = "bad" /\ Quarantine(e, InQueue(e, queue), "scan")
     \/ /\ running[e].st = "ok"
        /\ plan[e] # "ok" \/ result[e].kind = "bad"
        /\ Quarantine(e, TRUE, "scan")
  /\ UNCHANGED <<disk, os, books>>

ScanHasResult(e) ==
  /\ pc = "scan" /\ e \in todo
  /\ running[e].st = "ok" /\ plan[e] = "ok" /\ Readable(result[e])
  /\ pc' = "ensure" /\ cur' = e /\ ctx' = "scan" /\ lres' = result[e]
  /\ UNCHANGED <<disk, os, todo, lq, cls, known, books>>

\* result.json was not there: only now is the process looked at.
ScanNoResult(e) ==
  /\ pc = "scan" /\ e \in todo
  /\ running[e].st = "ok" /\ plan[e] = "ok" /\ result[e].kind = "none"
  /\ pc' = "recInspect" /\ cur' = e /\ ctx' = "scan"
  /\ UNCHANGED <<disk, os, todo, lq, lres, cls, known, books>>

-----------------------------------------------------------------------------
(* process_control *)

\* What the tick does with cur when its process is still there: recovery
\* leaves the record for the next tick, the queue head blocks the drain.
LeaveRunning ==
  IF ctx = "scan"
  THEN /\ pc' = "scan" /\ todo' = todo \ {cur} /\ cur' = NoExec /\ ctx' = "none"
       /\ UNCHANGED <<lq, lres, cls, known>>
  ELSE Forget("idle")

\* ... and when it is gone: recovery writes a failed result, the queue head
\* first looks for a result or a report.
ProcessGone == Goto(IF ctx = "scan" THEN "synth" ELSE "reconcile")

Inspecting == pc \in {"recInspect", "headInspect"}

\* Mutant: an expired execution is taken for a finished one.
InspectLateIsInactive ==
  /\ Inspecting
  /\ ~ ProcessAlive(cur) \/ cur \in late
  /\ ProcessGone
  /\ UNCHANGED <<disk, os, books>>

InspectInactive ==
  /\ Inspecting
  /\ ~ ProcessAlive(cur)
  /\ ProcessGone
  /\ UNCHANGED <<disk, os, books>>

\* Mutant: the deadline is not consulted.
InspectAliveIsActive ==
  /\ Inspecting
  /\ ProcessAlive(cur)
  /\ LeaveRunning
  /\ UNCHANGED <<disk, os, books>>

InspectActive ==
  /\ Inspecting
  /\ ProcessAlive(cur) /\ cur \notin late
  /\ LeaveRunning
  /\ UNCHANGED <<disk, os, books>>

\* The identity of a live process cannot be read: taken for Active.
InspectUnavailable ==
  /\ Inspecting
  /\ ProcessAlive(cur) /\ cur \in late
  /\ Fault
  /\ LeaveRunning
  /\ UNCHANGED <<disk, os, crashes, unrec, accepted>>

InspectExpired ==
  /\ Inspecting
  /\ ProcessAlive(cur) /\ cur \in late
  /\ Goto("kill1")
  /\ UNCHANGED <<disk, os, books>>

\* force_stop_expired_process: record the kill request in the running record
\* (which must still be readable), then send SIGKILL and wait 250 ms.
RecordKill ==
  /\ pc = "kill1"
  /\ IF running[cur].st = "ok"
     THEN Goto("kill2") /\ UNCHANGED <<disk, os, books>>
     ELSE TickError

ForceKill ==
  /\ pc = "kill2"
  /\ child' = IF ProcessAlive(cur)
              THEN [child EXCEPT ![cur][running[cur].pid] = "err"]
              ELSE child
  /\ ProcessGone
  /\ UNCHANGED <<disk, spawns, late, books>>

\* Still there after 250 ms, or EPERM.
ForceKillUnconfirmed ==
  /\ pc = "kill2"
  /\ ProcessAlive(cur)
  /\ Fault
  /\ LeaveRunning
  /\ UNCHANGED <<disk, os, crashes, unrec, accepted>>

-----------------------------------------------------------------------------
(* synthesize_recovery_result and the reporting pipeline *)

\* Mutant: the recovery result is reported but not persisted.
KeepRecoveryResultInMemory ==
  /\ pc = "synth"
  /\ lres' = Synth("recovered")
  /\ pc' = "ensure"
  /\ ctx' = IF ctx = "scan" THEN "scan" ELSE "head"
  /\ UNCHANGED <<disk, os, cur, todo, lq, cls, known, books>>

WriteRecoveryResult ==
  /\ pc = "synth"
  /\ result' = [result EXCEPT ![cur] = Synth("recovered")]
  /\ lres' = Synth("recovered")
  /\ pc' = "ensure"
  /\ ctx' = IF ctx = "scan" THEN "scan" ELSE "head"
  /\ UNCHANGED <<plan, queue, running, rep, env, hist, os, cur, todo, lq, cls, known, books>>

EnsureLocalReport ==
  /\ pc = "ensure"
  /\ Goto(CASE rep[cur].st # "ok" -> "prepEnv"
            [] rep[cur].st = "ok" /\ env[cur].st # "ok" -> "rebuild"
            [] OTHER -> "reported")
  /\ UNCHANGED <<disk, os, books>>

PrepareEnvelope ==
  /\ pc = "prepEnv"
  /\ env' = [env EXCEPT ![cur] = [st |-> "ok", res |-> lres, dig |-> lres]]
  /\ Goto("prepState")
  /\ UNCHANGED <<plan, queue, running, result, rep, hist, os, books>>

PrepareState ==
  /\ pc = "prepState"
  /\ rep' = [rep EXCEPT ![cur] = [st |-> "ok", dig |-> lres]]
  /\ Goto("reported")
  /\ UNCHANGED <<plan, queue, running, result, env, hist, os, books>>

\* rebuild_report_envelope keeps the digest the reporting state recorded.
RebuildEnvelope ==
  /\ pc = "rebuild"
  /\ env' = [env EXCEPT ![cur] = [st |-> "ok", res |-> lres, dig |-> rep[cur].dig]]
  /\ Goto("reported")
  /\ UNCHANGED <<plan, queue, running, result, rep, hist, os, books>>

\* The report cannot be built or written: recovery and the execute path
\* quarantine, the reconcile path of the queue head passes the error on.
ReportFails ==
  /\ pc \in {"prepEnv", "prepState", "rebuild"}
  /\ Fault
  /\ IF ctx = "head" THEN Forget("down") ELSE Quarantine(cur, TRUE, ctx)
  /\ UNCHANGED <<disk, os, crashes, unrec, accepted>>

\* The report is in place: the running record goes.
RemoveRunning ==
  /\ pc = "reported"
  /\ running' = [running EXCEPT ![cur] = NoRunning]
  /\ IF ctx = "scan"
     THEN /\ pc' = "scan" /\ todo' = todo \ {cur} /\ cur' = NoExec /\ ctx' = "none"
          /\ lres' = NoResult
          /\ UNCHANGED <<lq, cls, known>>
     ELSE Goto("qstore")
  /\ UNCHANGED <<plan, queue, result, rep, env, hist, os, books>>

-----------------------------------------------------------------------------
(* quarantine_execution *)

QuarantineDropState ==
  /\ pc = "q1"
  /\ rep' = [rep EXCEPT ![cur] = NoRep]
  /\ Goto("q2")
  /\ UNCHANGED <<plan, queue, running, result, env, hist, os, books>>

\* Mutant: no history record is stored.
QuarantineSkipHistory ==
  /\ pc = "q2"
  /\ env' = [env EXCEPT ![cur] = NoEnv]
  /\ Goto("q4")
  /\ UNCHANGED <<plan, queue, running, result, rep, hist, os, books>>

QuarantineDropEnvelope ==
  /\ pc = "q2"
  /\ env' = [env EXCEPT ![cur] = NoEnv]
  /\ Goto("q3")
  /\ UNCHANGED <<plan, queue, running, result, rep, hist, os, books>>

QuarantineStoreHistory ==
  /\ pc = "q3"
  /\ hist' = [hist EXCEPT ![cur] = [quarantined |-> TRUE, known |-> known]]
  /\ Goto("q4")
  /\ UNCHANGED <<plan, queue, running, result, rep, env, os, books>>

\* Mutant: the queue entry stays.
QuarantineKeepsQueued ==
  /\ pc = "q4"
  /\ Goto("q5")
  /\ UNCHANGED <<disk, os, books>>

QuarantineDequeue ==
  /\ pc = "q4"
  /\ queue' = Remove(queue, cur)
  /\ Goto("q5")
  /\ UNCHANGED <<plan, running, result, rep, env, hist, os, books>>

\* Recovery goes on with the next record, drain_next reloads the queue.
QuarantineDropRunning ==
  /\ pc = "q5"
  /\ running' = [running EXCEPT ![cur] = NoRunning]
  /\ IF ctx = "scan"
     THEN /\ pc' = "scan" /\ todo' = todo \ {cur} /\ cur' = NoExec /\ ctx' = "none"
          /\ lres' = NoResult /\ known' = FALSE
          /\ UNCHANGED <<lq, cls>>
     ELSE Forget("drain")
  /\ UNCHANGED <<plan, queue, result, rep, env, hist, os, books>>

-----------------------------------------------------------------------------
(* drain_next and handle_queue_head *)

\* Mutant: the head is taken off the stored queue before it is settled.
DrainPops ==
  /\ pc = "drain"
  /\ lq' = queue
  /\ queue' = IF queue = <<>> THEN queue ELSE Tail(queue)
  /\ pc' = "head"
  /\ UNCHANGED <<plan, running, result, rep, env, hist, os, cur, ctx, todo, lres, cls, known, books>>

DrainLoadQueue ==
  /\ pc = "drain"
  /\ lq' = queue
  /\ pc' = "head"
  /\ UNCHANGED <<disk, os, cur, ctx, todo, lres, cls, known, books>>

HeadEmpty ==
  /\ pc = "head" /\ lq = <<>>
  /\ Forget("idle")
  /\ UNCHANGED <<disk, os, books>>

\* Mutant: an unreadable plan or running record fails the tick.
HeadUnreadableFails ==
  /\ pc = "head" /\ lq # <<>>
  /\ plan[Head(lq)] # "ok" \/ running[Head(lq)].st = "bad"
  /\ TickError

HeadQuarantine ==
  /\ pc = "head" /\ lq # <<>>
  /\ LET e == Head(lq) IN
       /\ plan[e] # "ok" \/ running[e].st = "bad"
       /\ Quarantine(e, TRUE, "head")
  /\ UNCHANGED <<disk, os, books>>

HeadBegin ==
  /\ pc = "head" /\ lq # <<>>
  /\ LET e == Head(lq) IN
       /\ plan[e] = "ok" /\ running[e].st # "bad"
       /\ pc' = IF running[e].st = "none" THEN "reconcile" ELSE "headInspect"
       /\ cur' = e /\ ctx' = "head"
  /\ UNCHANGED <<disk, os, todo, lq, lres, cls, known, books>>

\* Mutant: a stale execution is executed again.
ReconcileRespawns ==
  /\ pc = "reconcile"
  /\ ~ (~ Ready(cur) /\ result[cur].kind = "bad")
  /\ pc' = CASE Ready(cur) -> "reported"
             [] ~ Ready(cur) /\ Readable(result[cur]) -> "ensure"
             [] OTHER -> "spawn"
  /\ lres' = IF ~ Ready(cur) /\ Readable(result[cur]) THEN result[cur] ELSE lres
  /\ UNCHANGED <<disk, os, cur, ctx, todo, lq, cls, known, books>>

\* reconcile_completed_execution, and what follows when it finds nothing:
\* without a running record the plan is executed, with one the execution is
\* recovered as stale.
ReconcileCompleted ==
  /\ pc = "reconcile"
  /\ ~ (~ Ready(cur) /\ result[cur].kind = "bad")
  /\ pc' = CASE Ready(cur) -> "reported"
             [] ~ Ready(cur) /\ Readable(result[cur]) -> "ensure"
             [] OTHER -> IF running[cur].st = "none" THEN "spawn" ELSE "synth"
  /\ lres' = IF ~ Ready(cur) /\ Readable(result[cur]) THEN result[cur] ELSE lres
  /\ UNCHANGED <<disk, os, cur, ctx, todo, lq, cls, known, books>>

\* An unreadable result.json is passed on as an error of the tick.
ReconcileUnreadable ==
  /\ pc = "reconcile"
  /\ ~ Ready(cur) /\ result[cur].kind = "bad"
  /\ TickError

DequeueCompleted ==
  /\ pc = "qstore"
  /\ queue' = Remove(lq, cur)
  /\ Forget("idle")
  /\ UNCHANGED <<plan, running, result, rep, env, hist, os, books>>

-----------------------------------------------------------------------------
(* local_exec::execute *)

Spawn ==
  /\ pc = "spawn"
  /\ spawns[cur] < MaxSpawns
  /\ plan' = [plan EXCEPT ![cur] = "ok"]
  /\ spawns' = [spawns EXCEPT ![cur] = @ + 1]
  /\ child' = [child EXCEPT ![cur][spawns[cur] + 1] = "live"]
  /\ late' = late \ {cur}
  /\ pc' = "store" /\ ctx' = "exec"
  /\ UNCHANGED <<queue, running, result, rep, env, hist, cur, todo, lq, lres, cls, known, books>>

\* A file of the workdir cannot be written or exec_bin cannot be started.
SpawnFails ==
  /\ pc = "spawn"
  /\ Fault
  /\ Quarantine(cur, TRUE, "exec")
  /\ UNCHANGED <<disk, os, crashes, unrec, accepted>>

\* Mutant: the running record names the wrong process.
StoreWrongPid ==
  /\ pc = "store"
  /\ running' = [running EXCEPT ![cur] = [st |-> "ok", pid |-> spawns[cur] + 1]]
  /\ Goto("wait")
  /\ UNCHANGED <<plan, queue, result, rep, env, hist, os, books>>

StoreRunning ==
  /\ pc = "store"
  /\ running' = [running EXCEPT ![cur] = [st |-> "ok", pid |-> spawns[cur]]]
  /\ Goto("wait")
  /\ UNCHANGED <<plan, queue, result, rep, env, hist, os, books>>

\* The running record cannot be stored: the child is terminated before the
\* error is returned.  The identity of the child cannot be read: it is not.
StoreRunningFails ==
  /\ pc = "store"
  /\ Fault
  /\ \/ child' = [child EXCEPT ![cur][spawns[cur]] = IF Alive(@) THEN "err" ELSE @]
     \/ UNCHANGED child
  /\ unrec' = [unrec EXCEPT ![cur] = @ + 1]
  /\ Quarantine(cur, TRUE, "exec")
  /\ UNCHANGED <<disk, spawns, late, crashes, accepted>>

Awaited == child[cur][spawns[cur]]

\* wait_for_child
ChildExited ==
  /\ pc \in {"wait", "grace"}
  /\ ~ Alive(Awaited)
  /\ cls' = IF pc = "wait" THEN "completed" ELSE "completed_late"
  /\ pc' = "collect"
  /\ UNCHANGED <<disk, os, cur, ctx, todo, lq, lres, known, books>>

\* record_signal_request reads the running record back; when it cannot, the
\* error leaves execute while the child is still there.
WaitTimesOut ==
  /\ pc = "wait"
  /\ Alive(Awaited) /\ cur \in late
  /\ IF running[cur].st = "ok" THEN Goto("grace") ELSE Quarantine(cur, TRUE, "exec")
  /\ UNCHANGED <<disk, os, books>>

GraceExpires ==
  /\ pc = "grace"
  /\ Alive(Awaited)
  /\ IF running[cur].st = "ok"
     THEN /\ child' = [child EXCEPT ![cur][spawns[cur]] = "err"]
          /\ cls' = "timed_out" /\ pc' = "collect"
          /\ UNCHANGED <<cur, ctx, todo, lq, lres, known>>
     ELSE Quarantine(cur, TRUE, "exec") /\ UNCHANGED child
  /\ UNCHANGED <<disk, spawns, late, books>>

\* Mutant: only a succeeded result of the child is used.
CollectedIfSucceeded(r, class) ==
  CASE class = "timed_out" \/ (class = "completed_late" /\ r.kind \in {"none", "succeeded"})
         -> Synth("timed_out")
    [] class = "completed" /\ r.kind # "succeeded" -> Synth("failed")
    [] OTHER -> r

\* load_or_synthesize_result: the result execute goes on with, by what is on
\* disk, how the child ended and whether it was in time.
CollectedResult(r, class) ==
  CASE class = "timed_out" \/ (class = "completed_late" /\ r.kind \in {"none", "succeeded"})
         -> Synth("timed_out")
    [] class = "completed" /\ r.kind = "none" -> Synth("failed")
    [] OTHER -> r

CollectContradicts(r, class) ==
  \/ class # "timed_out" /\ r.kind = "bad"
  \/ class = "completed" /\ r.kind = "succeeded" /\ Awaited = "err"

CollectResult ==
  /\ pc = "collect"
  /\ ~ CollectContradicts(result[cur], cls)
  /\ LET r == CollectedResult(result[cur], cls) IN
       /\ result' = [result EXCEPT ![cur] = r]
       /\ lres' = r
  /\ pc' = "finish" /\ cls' = "none"
  /\ UNCHANGED <<plan, queue, running, rep, env, hist, os, cur, ctx, todo, lq, known, books>>

CollectQuarantine ==
  /\ pc = "collect"
  /\ CollectContradicts(result[cur], cls)
  /\ Quarantine(cur, TRUE, "exec")
  /\ UNCHANGED <<disk, os, books>>

\* The finished running record; then prepare_local_report.
StoreFinished ==
  /\ pc = "finish"
  /\ running' = [running EXCEPT ![cur] = [st |-> "ok", pid |-> spawns[cur]]]
  /\ Goto("prepEnv")
  /\ UNCHANGED <<plan, queue, result, rep, env, hist, os, books>>

StoreFinishedFails ==
  /\ pc = "finish"
  /\ Fault
  /\ Quarantine(cur, TRUE, "exec")
  /\ UNCHANGED <<disk, os, crashes, unrec, accepted>>

-----------------------------------------------------------------------------
(* wist-exec, the clock and the environment *)

\* runtime::execute and result_writer::write up to write_result.
ChildWrites(e, k) ==
  /\ child[e][k] = "live"
  /\ \E kind \in {"succeeded", "rejected"} :
       result' = [result EXCEPT ![e] = [kind |-> kind, by |-> k]]
  /\ child' = [child EXCEPT ![e][k] = "wrote"]
  /\ UNCHANGED <<plan, queue, running, rep, env, hist, spawns, late, daemon, books>>

ChildExits(e, k) ==
  /\ child[e][k] = "wrote"
  /\ child' = [child EXCEPT ![e][k] = "ok"]
  /\ UNCHANGED <<disk, spawns, late, daemon, books>>

\* An error before the result is written, a signal, or (after write_result)
\* a write_state that fails.
ChildFails(e, k) ==
  /\ child[e][k] = "live" \/ (BadExit /\ child[e][k] = "wrote")
  /\ child' = [child EXCEPT ![e][k] = "err"]
  /\ UNCHANGED <<disk, spawns, late, daemon, books>>

DeadlineElapses(e) ==
  /\ e \notin late
  /\ \E k \in 1..MaxSpawns : Alive(child[e][k])
  /\ late' = late \cup {e}
  /\ UNCHANGED <<disk, child, spawns, daemon, books>>

\* A file that existed can no longer be parsed.
Corrupt(e) ==
  /\ Fault
  /\ \/ /\ plan[e] = "ok" /\ plan' = [plan EXCEPT ![e] = "bad"]
        /\ UNCHANGED <<running, result, rep, env>>
     \/ /\ running[e].st = "ok" /\ running' = [running EXCEPT ![e] = [st |-> "bad", pid |-> @.pid]]
        /\ UNCHANGED <<plan, result, rep, env>>
     \/ /\ Readable(result[e]) /\ result' = [result EXCEPT ![e] = Synth("bad")]
        /\ UNCHANGED <<plan, running, rep, env>>
     \/ /\ rep[e].st = "ok" /\ rep' = [rep EXCEPT ![e] = [NoRep EXCEPT !.st = "bad"]]
        /\ UNCHANGED <<plan, running, result, env>>
     \/ /\ env[e].st = "ok" /\ env' = [env EXCEPT ![e] = [NoEnv EXCEPT !.st = "bad"]]
        /\ UNCHANGED <<plan, running, result, rep>>
  /\ UNCHANGED <<queue, hist, os, daemon, crashes, unrec, accepted>>

Crash ==
  /\ pc # "down" /\ crashes < MaxCrashes
  /\ crashes' = crashes + 1
  /\ unrec' = IF pc = "store" THEN [unrec EXCEPT ![cur] = @ + 1] ELSE unrec
  /\ Forget("down")
  /\ UNCHANGED <<disk, os, faults, accepted>>

Restart ==
  /\ pc = "down"
  /\ Forget("idle")
  /\ UNCHANGED <<disk, os, books>>

-----------------------------------------------------------------------------
RecoverStep ==
  \/ TickBegin \/ ScanDone
  \/ \E e \in Exec : ScanQuarantine(e) \/ ScanHasResult(e) \/ ScanNoResult(e)

ControlStep ==
  \/ InspectInactive \/ InspectActive \/ InspectExpired
  \/ RecordKill \/ ForceKill

ReportStep ==
  \/ WriteRecoveryResult \/ EnsureLocalReport \/ PrepareEnvelope \/ PrepareState
  \/ RebuildEnvelope \/ RemoveRunning

QuarantineStep ==
  \/ QuarantineDropState \/ QuarantineDropEnvelope \/ QuarantineStoreHistory
  \/ QuarantineDequeue \/ QuarantineDropRunning

DrainStep ==
  \/ DrainLoadQueue \/ HeadEmpty \/ HeadQuarantine \/ HeadBegin
  \/ ReconcileCompleted \/ ReconcileUnreadable \/ DequeueCompleted

ExecuteStep ==
  \/ Spawn \/ StoreRunning \/ ChildExited \/ WaitTimesOut \/ GraceExpires
  \/ CollectResult \/ CollectQuarantine \/ StoreFinished

\* What the daemon itself does, in the order of its code.
DaemonStep ==
  \/ SubmitQueue \/ RecoverStep \/ ControlStep \/ ReportStep
  \/ QuarantineStep \/ DrainStep \/ ExecuteStep \/ Restart

FaultStep ==
  \/ SubmitQueueFails \/ InspectUnavailable \/ ForceKillUnconfirmed \/ ReportFails
  \/ SpawnFails \/ StoreRunningFails \/ StoreFinishedFails \/ Crash
  \/ \E e \in Exec : Corrupt(e)

ChildStep(e, k) == ChildWrites(e, k) \/ ChildExits(e, k) \/ ChildFails(e, k)

Next ==
  \/ DaemonStep
  \/ FaultStep
  \/ \E e \in Exec : SubmitPlan(e) \/ DeadlineElapses(e)
  \/ \E e \in Exec, k \in 1..MaxSpawns : ChildStep(e, k)

Spec == Init /\ [][Next]_vars

\* The loop ticks for ever and the service manager restarts the daemon
\* (Restart=always); time passes.  Nothing is assumed of the children.
Fairness ==
  /\ WF_vars(DaemonStep)
  /\ \A e \in Exec : WF_vars(DeadlineElapses(e))
FairSpec == Spec /\ Fairness
-----------------------------------------------------------------------------
(* Properties *)

DiskTypeOK ==
  /\ plan \in [Exec -> {"none", "ok", "bad"}]
  /\ queue \in Seq(Exec)
  /\ running \in [Exec -> RunningSet]
  /\ result \in [Exec -> ResultSet]
  /\ rep \in [Exec -> RepSet]
  /\ env \in [Exec -> EnvSet]
  /\ hist \in [Exec -> HistSet]

OsTypeOK ==
  /\ child \in [Exec -> [1..MaxSpawns -> ChildStates]]
  /\ spawns \in [Exec -> 0..MaxSpawns]
  /\ late \subseteq Exec

DaemonTypeOK ==
  /\ pc \in PCs
  /\ cur \in Exec \cup {NoExec}
  /\ ctx \in {"none", "scan", "head", "exec"}
  /\ todo \subseteq Exec
  /\ lq \in Seq(Exec)
  /\ lres \in ResultSet
  /\ cls \in {"none", "completed", "completed_late", "timed_out"}
  /\ known \in BOOLEAN

BooksTypeOK ==
  /\ crashes \in 0..MaxCrashes
  /\ faults \in 0..MaxFaults
  /\ unrec \in [Exec -> Nat]
  /\ accepted \subseteq Exec

\* The files, the processes and the daemon's memory hold the values the
\* structs of state_store/ and exec/ can hold.
TypeOK == DiskTypeOK /\ OsTypeOK /\ DaemonTypeOK /\ BooksTypeOK

\* An accepted execution never drops out of sight: until it has a reporting
\* state or a quarantine record it is in the queue, wherever the daemon
\* crashes (submit_local_plan, drain_next, quarantine_execution).
NeverForgotten ==
  \A e \in accepted : InQueue(e, queue) \/ rep[e].st # "none" \/ hist[e].quarantined

\* An execution is spawned again only after a spawn that left no running
\* record (StoreRunning not reached): recovery and the queue head never run
\* an execution twice on their own.
SpawnedOnce == \A e \in Exec : spawns[e] <= 1 + unrec[e]

\* A complete report of an execution that ran once carries the result that is
\* on disk under the digest of that result, however often the report was
\* rebuilt after a crash; and no final report exists for an execution whose
\* only process still works towards its result (ensure_local_report,
\* recover_incomplete_executions).
ReportTrue ==
  \A e \in Exec : spawns[e] = 1 =>
    /\ Ready(e) /\ result[e].kind # "bad"
         => env[e].res = result[e] /\ env[e].dig = env[e].res /\ rep[e].dig = env[e].dig
    /\ rep[e].st = "ok" => child[e][1] # "live"

Working == {p \in Exec \X (1..MaxSpawns) : child[p[1]][p[2]] = "live"}

\* One execution slot: at most one process works, except for those a crash
\* orphaned before their running record was stored.
OneWorker ==
  Cardinality(Working) <= 1 + Cardinality({p \in Working : unrec[p[1]] > 0})

\* find_duplicate_execution: of the executions of one (action, plan digest)
\* at most one is ever spawned.
DuplicateNeverRuns ==
  \A e, f \in Exec : e # f /\ Key[e] = Key[f] => spawns[e] = 0 \/ spawns[f] = 0

\* One execution slot, and each plan in it once.
OneRunner == OneWorker /\ DuplicateNeverRuns

ResultStands(e) ==
  result[e].by # 0 =>
    \/ result'[e] = result[e]
    \/ result'[e].by # 0
    \/ result'[e].kind \in {"timed_out", "bad"}

\* A result a child persisted is only replaced by the timeout path of the
\* daemon that awaits the child, or by corruption: recovery never writes a
\* synthesized failure over it.
CompletedResultKept == [][\A e \in Exec : ResultStands(e)]_vars

\* As long as the daemon has not crashed, whatever faults its files had: a
\* quarantined execution is not spawned again (quarantine_execution), a child's
\* result stands, and no state of one execution makes a tick fail and the
\* daemon end (handle_queue_head, drain_next).
RecordsRespected ==
  [][crashes' = 0 =>
       /\ \A e \in Exec : ResultStands(e) /\ (hist[e].quarantined => spawns'[e] = spawns[e])
       /\ pc # "down" => pc' # "down"]_vars

\* Every queued execution leaves the queue, and no running record stays for
\* ever: a child that hangs is killed, whichever daemon spawned it
\* (wait_for_child, inspect_running_state).
Progress ==
  \A e \in Exec :
    /\ InQueue(e, queue) ~> ~ InQueue(e, queue)
    /\ running[e].st # "none" ~> running[e].st = "none"

-----------------------------------------------------------------------------
(* The promise of the execution core, and how its files show it *)

PhaseOf(e) ==
  CASE hist[e].quarantined -> "quarantined"
    [] ~ hist[e].quarantined /\ rep[e].st # "none" -> "reported"
    [] ~ hist[e].quarantined /\ rep[e].st = "none" /\ spawns[e] > 0 -> "started"
    [] OTHER -> IF InQueue(e, queue) THEN "queued" ELSE "unknown"

Lifecycle == INSTANCE ExecutionLifecycle WITH
  Outcomes <- {r \in ResultSet : Readable(r)},
  NoOutcome <- NoResult,
  phase <- [e \in Exec |-> PhaseOf(e)],
  outcome <- [e \in Exec |-> IF PhaseOf(e) = "reported" THEN rep[e].dig ELSE NoResult]

\* The files go through the lifecycle the design promises: an execution is
\* settled once and its outcome never changes afterwards, across every crash.
ImplementsLifecycle == Lifecycle!LifecycleSpec
=============================================================================
